----------------------------- MODULE FormProofs -----------------------------
(***************************************************************************)
(* Proofs about InspectionForm, for every set of work orders, ratings and  *)
(* reasons and for every value of the bounds: its types; then its pages    *)
(* and globals: how each step moves the stack, the shape the stack keeps,  *)
(* and from it that pages and globals stay in step, that the globals of    *)
(* earlier pages are cleared, and that page four stops on a picture that   *)
(* cannot be encoded.                                                      *)
(***************************************************************************)
EXTENDS InspectionForm, PageGraphProofs

(* A page that is loaded is a well-formed instance, and leaves well-formed *)
(* globals.                                                                *)
LEMMA LoadType ==
    ASSUME NEW vc \in LivePages, NEW ans \in [Pages -> Answers]
    PROVE  /\ Cleared(vc, ans) \in [Pages -> Answers]
           /\ Fresh(vc, ans) \in Instance
<1>1. "" \in Answers
  BY DEF Answers, Unanswered
<1>2. Cleared(vc, ans) \in [Pages -> Answers]
  BY <1>1 DEF Cleared
<1>3. Page[vc].kind # "Final" => Page[vc].num \in Pages
  BY LivePageFacts DEF Pages
<1>4. (IF Page[vc].kind = "Final" THEN "" ELSE ans[Page[vc].num]) \in Answers
  BY <1>1, <1>3
<1>5. [s \in Slots |-> "empty"] \in [Slots -> Picks]
  BY DEF Picks
<1>6. Fresh(vc, ans) \in Instance
  BY <1>4, <1>5 DEF Fresh, Instance
<1> QED
  BY <1>2, <1>6

(* The top of a non-empty stack.                                           *)
LEMMA TopType ==
    ASSUME stack \in Seq(Instance), stack # <<>>
    PROVE  /\ Top \in Instance
           /\ Len(stack) \in Nat \ {0}
           /\ DOMAIN stack = 1..Len(stack)
           /\ stack[Len(stack)] = Top
           /\ Num(Top) = Page[Top.vc].num
           /\ Kind(Top) = Page[Top.vc].kind
BY DEF Top, Num, Kind

(* The three ways a handler changes a stack that is not empty.             *)
LEMMA ReplaceTop ==
    ASSUME stack \in Seq(Instance), stack # <<>>, NEW e \in Instance,
           stack' = Append(Below, e)
    PROVE  /\ stack' \in Seq(Instance)
           /\ stack' # <<>>
           /\ Len(stack') = Len(stack)
           /\ DOMAIN stack' = DOMAIN stack
           /\ \A i \in 1..(Len(stack) - 1) : stack'[i] = stack[i]
           /\ stack'[Len(stack)] = e
<1> DEFINE t == Append(SubSeq(stack, 1, Len(stack) - 1), e)
<1>1. Len(stack) \in Nat \ {0}
  OBVIOUS
<1>2. /\ t \in Seq(Instance) /\ Len(t) = Len(stack)
      /\ DOMAIN t = DOMAIN stack
      /\ \A i \in 1..(Len(stack) - 1) : t[i] = stack[i]
      /\ t[Len(stack)] = e
  BY ReplaceTopProperties
<1>3. stack' = t
  BY DEF Below
<1> HIDE DEF t
<1> QED
  BY <1>1, <1>2, <1>3

LEMMA PushOver ==
    ASSUME stack \in Seq(Instance), stack # <<>>,
           NEW e \in Instance, NEW f \in Instance,
           stack' = Append(Append(Below, e), f)
    PROVE  /\ stack' \in Seq(Instance)
           /\ stack' # <<>>
           /\ Len(stack') = Len(stack) + 1
           /\ DOMAIN stack' = 1..(Len(stack) + 1)
           /\ \A i \in 1..(Len(stack) - 1) : stack'[i] = stack[i]
           /\ stack'[Len(stack)] = e
           /\ stack'[Len(stack) + 1] = f
<1> DEFINE b == Append(SubSeq(stack, 1, Len(stack) - 1), e)
<1>1. Len(stack) \in Nat \ {0}
  OBVIOUS
<1>2. /\ b \in Seq(Instance) /\ Len(b) = Len(stack)
      /\ \A i \in 1..(Len(stack) - 1) : b[i] = stack[i]
      /\ b[Len(stack)] = e
  BY ReplaceTopProperties
<1>3. stack' = Append(b, f)
  BY DEF Below
<1> HIDE DEF b
<1>4. /\ Append(b, f) \in Seq(Instance)
      /\ Len(Append(b, f)) = Len(stack) + 1
      /\ \A i \in 1..(Len(stack) - 1) : Append(b, f)[i] = stack[i]
      /\ Append(b, f)[Len(stack)] = e
      /\ Append(b, f)[Len(stack) + 1] = f
  BY <1>1, <1>2, AppendProperties
<1> QED
  BY <1>1, <1>3, <1>4

LEMMA PopTop ==
    ASSUME stack \in Seq(Instance), stack # <<>>, stack' = Below
    PROVE  /\ stack' \in Seq(Instance)
           /\ Len(stack') = Len(stack) - 1
           /\ DOMAIN stack' = 1..(Len(stack) - 1)
           /\ \A i \in 1..(Len(stack) - 1) : stack'[i] = stack[i]
BY FrontProperties DEF Below

(* A push, from a handler that leaves the top as inst and the globals as   *)
(* ans.                                                                    *)
LEMMA PushStep ==
    ASSUME stack \in Seq(Instance), stack # <<>>,
           NEW vc \in LivePages, NEW inst \in Instance,
           NEW ans \in [Pages -> Answers], Push(vc, inst, ans)
    PROVE  /\ stack' \in Seq(Instance)
           /\ stack' # <<>>
           /\ Len(stack') = Len(stack) + 1
           /\ DOMAIN stack' = 1..(Len(stack) + 1)
           /\ \A i \in 1..(Len(stack) - 1) : stack'[i] = stack[i]
           /\ stack'[Len(stack)] = [inst EXCEPT !.covered = TRUE]
           /\ stack'[Len(stack) + 1] = Fresh(vc, Cleared(vc, ans))
           /\ answers' = Cleared(vc, ans)
           /\ answers' \in [Pages -> Answers]
<1> DEFINE e == [inst EXCEPT !.covered = TRUE]
           f == Fresh(vc, Cleared(vc, ans))
<1>1. e \in Instance
  BY DEF Instance
<1>2. Cleared(vc, ans) \in [Pages -> Answers]
  BY LoadType
<1>3. f \in Instance
  BY <1>2, LoadType
<1>4. /\ stack' = Append(Append(Below, e), f)
      /\ answers' = Cleared(vc, ans)
  BY DEF Push
<1> HIDE DEF e, f
<1>5. /\ stack' \in Seq(Instance)
      /\ stack' # <<>>
      /\ Len(stack') = Len(stack) + 1
      /\ DOMAIN stack' = 1..(Len(stack) + 1)
      /\ \A i \in 1..(Len(stack) - 1) : stack'[i] = stack[i]
      /\ stack'[Len(stack)] = e
      /\ stack'[Len(stack) + 1] = f
  BY <1>1, <1>3, <1>4, PushOver
<1> QED
  BY <1>2, <1>4, <1>5 DEF e, f

(* The first page of a form.                                               *)
LEMMA EnterStep ==
    ASSUME NEW vc \in LivePages, NEW ans \in [Pages -> Answers],
           Enter(vc, ans)
    PROVE  /\ stack' \in Seq(Instance)
           /\ stack' # <<>>
           /\ Len(stack') = 1
           /\ DOMAIN stack' = {1}
           /\ stack'[1] = Fresh(vc, Cleared(vc, ans))
           /\ answers' = Cleared(vc, ans)
           /\ answers' \in [Pages -> Answers]
<1> DEFINE f == Fresh(vc, Cleared(vc, ans))
<1>1. Cleared(vc, ans) \in [Pages -> Answers] /\ f \in Instance
  BY LoadType
<1>2. stack' = <<f>> /\ answers' = Cleared(vc, ans)
  BY DEF Enter
<1> HIDE DEF f
<1> QED
  BY <1>1, <1>2 DEF f

(* What a question page on top offers.                                     *)
LEMMA QuestionTop ==
    ASSUME stack \in Seq(Instance), Showing({"No", "NA"})
    PROVE  /\ stack # <<>> /\ ~alert
           /\ Top \in Instance /\ Top.vc \in LivePages
           /\ Kind(Top) \in {"No", "NA"}
           /\ Num(Top) \in Pages
           /\ Num(Top) = Page[Top.vc].num /\ Kind(Top) = Page[Top.vc].kind
           /\ Submits[Top.vc].node = Num(Top)
           /\ Page[Top.vc].onSelect \in LivePages
           /\ Num(Top) # 4 => Page[Top.vc].segue \in LivePages
           /\ NextPage(Top) \in LivePages \cup {"none"}
<1>1. stack # <<>> /\ ~alert /\ Kind(Top) \in {"No", "NA"}
  BY DEF Showing
<1>2. Top \in Instance /\ Num(Top) = Page[Top.vc].num
      /\ Kind(Top) = Page[Top.vc].kind
  BY <1>1, TopType
<1>3. Top.vc \in LivePages
  BY <1>2 DEF Instance
<1>4. /\ Num(Top) \in Pages
      /\ Submits[Top.vc].node = Num(Top)
      /\ Page[Top.vc].onSelect \in LivePages
      /\ Num(Top) # 4 => Page[Top.vc].segue \in LivePages
  BY <1>1, <1>2, <1>3, QuestionPageFacts
<1>5. NextPage(Top) \in LivePages \cup {"none"}
  BY <1>4, NamedPageFacts DEF NextPage
<1> QED
  BY <1>1, <1>2, <1>3, <1>4, <1>5

----------------------------------------------------------------------------
(* Type correctness.                                                       *)

LEMMA NodeType ==
    ASSUME NEW a \in Answers \cup {Absent}, NEW r \in SUBSET Reasons
    PROVE  Node(a, r) \in Nodes
BY DEF Node, Nodes, NoPics

LEMMA HeaderType == \A when \in Jobs : Header(when) \in Orders
<1> SUFFICES ASSUME NEW when \in Jobs
             PROVE  Header(when) \in Orders
  OBVIOUS
<1>1. NoNode \in Nodes /\ Node("N/A", {}) \in Nodes
  BY NodeType DEF NoNode, Answers
<1> DEFINE pages == [p \in Pages |->
                IF when = "Completed Job" /\ p \in NotApplicablePages
                THEN Node("N/A", {}) ELSE NoNode]
<1>2. pages \in [Pages -> Nodes]
  BY <1>1
<1>3. Header(when) = [NoOrder EXCEPT !.when = when, !.pages = pages]
  BY DEF Header
<1>4. NoOrder = [when |-> "none", pages |-> [p \in Pages |-> NoNode],
                 final |-> FALSE]
  BY DEF NoOrder
<1> HIDE DEF pages
<1>5. Header(when) = [when |-> when, pages |-> pages, final |-> FALSE]
  BY <1>3, <1>4
<1> QED
  BY <1>2, <1>5 DEF Orders

LEMMA InitType == Init => TypeOK
<1> SUFFICES ASSUME Init PROVE TypeOK
  OBVIOUS
<1>1. NoNode \in Nodes
  BY NodeType DEF NoNode
<1>2. NoOrder \in Orders
  BY <1>1 DEF NoOrder, Orders
<1>3. db \in [WorkOrders -> Orders]
  BY <1>2 DEF Init
<1>4. "" \in Answers
  BY DEF Answers, Unanswered
<1>5. answers \in [Pages -> Answers]
  BY <1>4 DEF Init
<1>6. stack = <<>> /\ batches = <<>> /\ opened = <<>>
  BY DEF Init
<1>7. /\ stack \in Seq(Instance) /\ batches \in Seq(Batches)
      /\ opened \in Seq(WorkOrders)
  BY <1>6
<1> QED
  BY <1>3, <1>5, <1>6, <1>7 DEF Init, TypeOK

(* The part of the state that only the database and the uploads touch.     *)
LEMMA OpenType ==
    ASSUME TypeOK, NEW w \in WorkOrders, NEW when \in Jobs, OpenForm(w, when)
    PROVE  /\ futureReference' \in WorkOrders
           /\ db' \in [WorkOrders -> Orders]
           /\ opened' \in Seq(WorkOrders)
           /\ alert' = alert /\ batches' = batches
           /\ picked' = picked /\ backs' = backs
<1>1. Header(when) \in Orders
  BY HeaderType
<1> QED
  BY <1>1 DEF OpenForm, TypeOK

LEMMA TypeStep == TypeOK /\ [Next]_vars => TypeOK'
<1> SUFFICES ASSUME TypeOK, [Next]_vars
             PROVE  TypeOK'
  OBVIOUS
<1>a. /\ stack \in Seq(Instance)
      /\ answers \in [Pages -> Answers]
      /\ db \in [WorkOrders -> Orders]
      /\ batches \in Seq(Batches)
      /\ futureReference \in WorkOrders \cup {Nil}
      /\ Nil \notin WorkOrders
      /\ futureReference = Nil => stack = <<>> /\ batches = <<>>
  BY FormAssumption DEF TypeOK
<1>1. ASSUME NEW w \in WorkOrders, AddDuringJob(w)
      PROVE  TypeOK'
  <2>1. [answers EXCEPT ![1] = "--CHOOSE NOW--"] \in [Pages -> Answers]
    BY <1>a DEF Answers, Unanswered
  <2>2. stack' \in Seq(Instance) /\ answers' \in [Pages -> Answers]
    BY <1>1, <2>1, EnterStep, NamedPageFacts DEF AddDuringJob
  <2>3. OpenForm(w, "During job")
    BY <1>1 DEF AddDuringJob
  <2>4. /\ futureReference' \in WorkOrders /\ opened' \in Seq(WorkOrders)
        /\ db' \in [WorkOrders -> Orders]
        /\ alert' = alert /\ batches' = batches
        /\ picked' = picked /\ backs' = backs
    BY <2>3, OpenType DEF Jobs
  <2> QED
    BY <1>1, <1>a, <2>2, <2>4 DEF TypeOK, AddDuringJob
<1>2. ASSUME NEW w \in WorkOrders, AddCompletedJob(w)
      PROVE  TypeOK'
  <2>1. stack' \in Seq(Instance) /\ answers' \in [Pages -> Answers]
    BY <1>2, <1>a, EnterStep, NamedPageFacts DEF AddCompletedJob
  <2>2. OpenForm(w, "Completed Job")
    BY <1>2 DEF AddCompletedJob
  <2>3. /\ futureReference' \in WorkOrders /\ opened' \in Seq(WorkOrders)
        /\ db' \in [WorkOrders -> Orders]
        /\ alert' = alert /\ batches' = batches
        /\ picked' = picked /\ backs' = backs
    BY <2>2, OpenType DEF Jobs
  <2> QED
    BY <1>2, <1>a, <2>1, <2>3 DEF TypeOK, AddCompletedJob
<1>3. ASSUME NEW answer \in Ratings \cup {"N/A"},
             Showing({"No"}) \/ Showing({"NA"}),
             Select(answer) \/ SelectAndPush(answer),
             UNCHANGED <<futureReference, alternatePage, alert, db, batches,
                         opened, picked, backs>>
      PROVE  TypeOK'
  <2>1. Showing({"No", "NA"}) /\ answer \in Answers
    BY <1>3 DEF Showing, Answers
  <2>2. /\ stack # <<>> /\ Top \in Instance /\ Num(Top) \in Pages
        /\ Page[Top.vc].onSelect \in LivePages
    BY <2>1, <1>a, QuestionTop
  <2>3. [answers EXCEPT ![Num(Top)] = answer] \in [Pages -> Answers]
    BY <2>1, <2>2, <1>a
  <2>4. stack' \in Seq(Instance) /\ answers' \in [Pages -> Answers]
    <3>1. CASE Select(answer)
      <4>1. [Top EXCEPT !.shown = answer,
                        !.next = @ \/ EnablesNext(answer)] \in Instance
        BY <2>1, <2>2 DEF Instance
      <4> QED
        BY <3>1, <4>1, <2>2, <2>3, <1>a, ReplaceTop DEF Select
    <3>2. CASE SelectAndPush(answer)
      <4>1. [Top EXCEPT !.shown = answer] \in Instance
        BY <2>1, <2>2 DEF Instance
      <4> QED
        BY <3>2, <4>1, <2>2, <2>3, <1>a, PushStep DEF SelectAndPush
    <3> QED
      BY <1>3, <3>1, <3>2
  <2> QED
    BY <1>3, <1>a, <2>2, <2>4 DEF TypeOK
<1>4. ASSUME NEW r \in Reasons, ToggleReason(r)
      PROVE  TypeOK'
  <2>1. stack # <<>> /\ Top \in Instance
    BY <1>4, <1>a, TopType DEF ToggleReason, Showing
  <2>2. [Top EXCEPT !.ticked = IF r \in @ THEN @ \ {r} ELSE @ \cup {r}]
          \in Instance
    BY <2>1 DEF Instance
  <2>3. stack' \in Seq(Instance)
    BY <1>4, <1>a, <2>1, <2>2, ReplaceTop DEF ToggleReason
  <2> QED
    BY <1>4, <1>a, <2>1, <2>3 DEF TypeOK, ToggleReason
<1>5. ASSUME NEW s \in Slots, NEW image \in Images, PickImage(s, image)
      PROVE  TypeOK'
  <2>1. stack # <<>> /\ Top \in Instance
    BY <1>5, <1>a, TopType DEF PickImage, Showing
  <2>2. [Top EXCEPT !.pics[s] = image] \in Instance
    BY <2>1 DEF Instance, Picks
  <2>3. stack' \in Seq(Instance)
    BY <1>5, <1>a, <2>1, <2>2, ReplaceTop DEF PickImage
  <2> QED
    BY <1>5, <1>a, <2>1, <2>3 DEF TypeOK, PickImage
<1>6. ASSUME NextClick
      PROVE  TypeOK'
  <2>1. /\ stack # <<>> /\ Top \in Instance /\ Num(Top) \in Pages
        /\ Submits[Top.vc].node = Num(Top)
        /\ NextPage(Top) \in LivePages \cup {"none"}
    BY <1>6, <1>a, QuestionTop DEF NextClick
  <2>2. futureReference \in WorkOrders
    BY <2>1, <1>a
  <2>3. KeptReasons(Top) \in SUBSET Reasons /\ Recorded(Top) \in Answers
    BY <2>1, <1>a DEF KeptReasons, Instance, Recorded, Answers
  <2>4. db' \in [WorkOrders -> Orders]
    <3> DEFINE node == Node(Recorded(Top), KeptReasons(Top))
    <3>1. node \in Nodes
      BY <2>3, NodeType
    <3>2. db' = [db EXCEPT ![futureReference].pages[Num(Top)] = node]
      BY <1>6, <2>1 DEF NextClick
    <3> HIDE DEF node
    <3> QED
      BY <3>1, <3>2, <2>1, <2>2, <1>a DEF Orders
  <2>5. batches' \in Seq(Batches)
    <3> DEFINE b == [page  |-> Submits[Top.vc].node,
                     form  |-> Len(opened),
                     stage |-> [s \in Slots |->
                        IF s \in SentSlots(Top) THEN "put" ELSE "none"]]
    <3>1. Len(opened) \in Nat
      BY DEF TypeOK
    <3>2. b \in Batches
      BY <2>1, <3>1 DEF Batches, Stages
    <3>3. batches' = batches \/ batches' = Append(batches, b)
      BY <1>6 DEF NextClick, StartUploads
    <3> HIDE DEF b
    <3> QED
      BY <3>2, <3>3, <1>a
  <2>6. SavedTop \in Instance
    BY <2>1, <2>3 DEF SavedTop, Instance
  <2>7. stack' \in Seq(Instance) /\ answers' \in [Pages -> Answers]
    <3>1. CASE NextPage(Top) = "none"
      BY <1>6, <3>1, <2>1, <2>6, <1>a, ReplaceTop DEF NextClick
    <3>2. CASE NextPage(Top) # "none"
      <4>1. Push(NextPage(Top), SavedTop, answers) /\ NextPage(Top) \in LivePages
        BY <1>6, <3>2, <2>1 DEF NextClick
      <4> HIDE DEF NextClick
      <4> QED
        BY <4>1, <2>1, <2>6, <1>a, PushStep
    <3> QED
      BY <3>1, <3>2
  <2> QED
    BY <1>6, <2>2, <2>4, <2>5, <2>7, <1>a DEF TypeOK, NextClick
<1>7. ASSUME FinalClick
      PROVE  TypeOK'
  <2>1. futureReference \in WorkOrders
    BY <1>7, <1>a DEF FinalClick, Showing
  <2>2. db' \in [WorkOrders -> Orders]
    BY <1>7, <2>1, <1>a DEF FinalClick, Orders
  <2> QED
    BY <1>7, <2>2 DEF TypeOK, FinalClick
<1>8. ASSUME RestartApp
      PROVE  TypeOK'
  <2>1. stack' \in Seq(Instance) /\ stack' = <<>>
    BY <1>8 DEF RestartApp
  <2>2. batches' = batches /\ futureReference' = futureReference
    BY <1>8 DEF RestartApp
  <2> QED
    BY <1>8, <2>1, <2>2 DEF TypeOK, RestartApp
<1>9. ASSUME HomeButtonTapped
      PROVE  TypeOK'
  <2>1. stack' \in Seq(Instance) /\ stack' = <<>>
    BY <1>9 DEF HomeButtonTapped
  <2>2. batches' = batches /\ futureReference' = futureReference
    BY <1>9 DEF HomeButtonTapped
  <2> QED
    BY <1>9, <2>1, <2>2 DEF TypeOK, HomeButtonTapped
<1>10. ASSUME Back
       PROVE  TypeOK'
  <2>1. stack # <<>> /\ stack' = Below
    BY <1>10 DEF Back, Showing
  <2>2. stack' \in Seq(Instance)
    BY <2>1, <1>a, PopTop
  <2> QED
    BY <1>10, <2>1, <2>2, <1>a DEF TypeOK, Back
<1>11. ASSUME NEW n \in DOMAIN batches, NEW s \in Slots, Callback(n, s)
       PROVE  TypeOK'
  <2>1. futureReference \in WorkOrders
    BY <1>a
  <2>2. n \in 1..Len(batches) /\ batches[n] \in Batches
    BY <1>a
  <2>3. ASSUME NEW stage \in Stages, SetStage(n, s, stage)
        PROVE  batches' \in Seq(Batches)
    <3>1. [batches[n] EXCEPT !.stage[s] = stage] \in Batches
      BY <2>2 DEF Batches
    <3>2. batches' = [batches EXCEPT ![n] = [batches[n] EXCEPT !.stage[s] = stage]]
      BY <2>3 DEF SetStage
    <3> QED
      BY <3>1, <3>2, <2>2, <1>a
  <2>4. CASE \E err \in BOOLEAN : PutCompleted(n, s, err)
    BY <2>4, <2>3 DEF PutCompleted, TypeOK, Stages
  <2>5. CASE UrlReceived(n, s)
    <3> DEFINE p     == batches[n].page
               order == db[futureReference]
               node  == [order.pages[p] EXCEPT !.pics[s] = n]
               filed == [order EXCEPT !.pages[p] = node]
    <3>1. n \in Nat /\ p \in Pages
      BY <2>2, <1>a DEF Batches
    <3>2. order \in Orders /\ order.pages[p] \in Nodes
      BY <3>1, <2>1, <1>a DEF Orders
    <3>3. node \in Nodes
      BY <3>1, <3>2 DEF Nodes
    <3>4. filed \in Orders
      <4> HIDE DEF node, order
      <4> QED BY <3>1, <3>2, <3>3 DEF Orders
    <3>5. db' = [db EXCEPT ![futureReference] = filed]
      BY <2>5 DEF UrlReceived, FilingOrder
    <3>6. db' \in [WorkOrders -> Orders]
      <4> HIDE DEF filed
      <4> QED BY <3>4, <3>5, <2>1, <1>a
    <3> QED
      BY <2>5, <2>1, <2>3, <3>6 DEF UrlReceived, TypeOK, Stages
  <2>6. CASE UrlMissing(n, s)
    BY <2>6, <2>3 DEF UrlMissing, TypeOK, Stages
  <2> QED
    BY <1>11, <2>4, <2>5, <2>6 DEF Callback
<1>12. ASSUME UNCHANGED vars
       PROVE  TypeOK'
  BY <1>12 DEF TypeOK, vars
<1> QED
  BY <1>1, <1>2, <1>3, <1>4, <1>5, <1>6, <1>7, <1>8, <1>9, <1>10, <1>11, <1>12
     DEF Next, DropDownOnNoPage, DropDownOnNAPage

(* Every variable keeps its type, whatever the inspector taps and whenever *)
(* the uploads end; in particular the pages and the callbacks never write  *)
(* before a work order has been chosen.                                    *)
THEOREM TypeCorrect == Spec => []TypeOK
<1> QED
  BY InitType, TypeStep, PTL DEF Spec

----------------------------------------------------------------------------
(* The number of a page, up to page four: from page six an inspector can   *)
(* come back to page four, but nobody comes back before it.                *)
Cap(n) == IF n < 4 THEN n ELSE 4

(* The shape of the stack.                                                 *)
Climbs ==
    \A i, j \in DOMAIN stack :
        i <= j => Cap(Num(stack[i])) <= Cap(Num(stack[j]))
FinalIsTop ==
    \A i \in DOMAIN stack : Kind(stack[i]) = "Final" => i = Len(stack)
CoveredBelowTop ==
    \A i \in DOMAIN stack : ~stack[i].covered => i = Len(stack)
Shape == Climbs /\ FinalIsTop /\ CoveredBelowTop

----------------------------------------------------------------------------
(* How a step moves the stack: the pages stay; a page is pushed over the   *)
(* top; the top is popped; the stack is emptied; a form is entered.        *)

KeepsPages ==
    /\ Len(stack') = Len(stack) /\ DOMAIN stack' = DOMAIN stack
    /\ \A i \in DOMAIN stack :
          /\ stack'[i].vc = stack[i].vc
          /\ stack'[i].covered = stack[i].covered

PushesOver(vc) ==
    /\ stack # <<>> /\ Kind(Top) \in {"No", "NA"}
    /\ Len(stack) \in Nat \ {0} /\ DOMAIN stack = 1..Len(stack)
    /\ stack[Len(stack)] = Top
    /\ Len(stack') = Len(stack) + 1 /\ DOMAIN stack' = 1..(Len(stack) + 1)
    /\ \A i \in 1..(Len(stack) - 1) : stack'[i] = stack[i]
    /\ stack'[Len(stack)].vc = Top.vc
    /\ stack'[Len(stack)].covered
    /\ stack'[Len(stack) + 1] = Fresh(vc, answers')

PopsTop ==
    /\ Len(stack) \in Nat \ {0} /\ DOMAIN stack = 1..Len(stack)
    /\ Len(stack') = Len(stack) - 1 /\ DOMAIN stack' = 1..(Len(stack) - 1)
    /\ \A i \in DOMAIN stack' : stack'[i] = stack[i]

Enters == DOMAIN stack' = {1} /\ Len(stack') = 1

(* Which page can be pushed over page n.                                   *)
Leads(n, m) ==
    m = n \/ m = n + 1 \/ (n = 4 /\ m = 7) \/ (n = 6 /\ m = 4)

LEMMA KeepMove ==
    ASSUME stack \in Seq(Instance), stack # <<>>, NEW e \in Instance,
           e.vc = Top.vc, e.covered = Top.covered, stack' = Append(Below, e)
    PROVE  /\ KeepsPages
           /\ \A i \in 1..(Len(stack) - 1) : stack'[i] = stack[i]
           /\ stack'[Len(stack)] = e
<1>1. /\ Len(stack') = Len(stack)
      /\ DOMAIN stack' = DOMAIN stack
      /\ \A i \in 1..(Len(stack) - 1) : stack'[i] = stack[i]
      /\ stack'[Len(stack)] = e
  BY ReplaceTop
<1>2. /\ DOMAIN stack = 1..Len(stack) /\ Len(stack) \in Nat \ {0}
      /\ stack[Len(stack)] = Top
  BY TopType
<1>3. ASSUME NEW i \in DOMAIN stack
      PROVE  stack'[i].vc = stack[i].vc /\ stack'[i].covered = stack[i].covered
  <2>1. CASE i = Len(stack)
    BY <1>1, <1>2, <2>1
  <2>2. CASE i # Len(stack)
    BY <1>1, <1>2, <2>2
  <2> QED
    BY <2>1, <2>2
<1> QED
  BY <1>1, <1>3 DEF KeepsPages

LEMMA PushMove ==
    ASSUME stack \in Seq(Instance), stack # <<>>,
           NEW vc \in LivePages, NEW inst \in Instance, inst.vc = Top.vc,
           NEW ans \in [Pages -> Answers], Push(vc, inst, ans),
           Kind(Top) \in {"No", "NA"}
    PROVE  PushesOver(vc) /\ answers' = Cleared(vc, ans)
<1> DEFINE e == [inst EXCEPT !.covered = TRUE]
<1>1. /\ Len(stack') = Len(stack) + 1
      /\ DOMAIN stack' = 1..(Len(stack) + 1)
      /\ \A i \in 1..(Len(stack) - 1) : stack'[i] = stack[i]
      /\ stack'[Len(stack)] = e
      /\ stack'[Len(stack) + 1] = Fresh(vc, Cleared(vc, ans))
      /\ answers' = Cleared(vc, ans)
  BY PushStep
<1>2. /\ DOMAIN stack = 1..Len(stack) /\ Len(stack) \in Nat \ {0}
      /\ stack[Len(stack)] = Top
  BY TopType
<1>3. e.vc = Top.vc /\ e.covered
  BY DEF Instance
<1> HIDE DEF e
<1> QED
  BY <1>1, <1>2, <1>3 DEF PushesOver

(* What a selection in a drop-down does to pages and globals.              *)
LEMMA SelectEffect ==
    ASSUME TypeOK, NEW answer \in Ratings \cup {"N/A"},
           DropDownOnNoPage(answer) \/ DropDownOnNAPage(answer)
    PROVE  /\ stack # <<>> /\ ~alert /\ Top \in Instance
           /\ Kind(Top) \in {"No", "NA"} /\ Num(Top) \in Pages
           /\ [answers EXCEPT ![Num(Top)] = answer] \in [Pages -> Answers]
           /\ \/ /\ KeepsPages
                 /\ \A i \in 1..(Len(stack) - 1) : stack'[i] = stack[i]
                 /\ stack'[Len(stack)] =
                      [Top EXCEPT !.shown = answer,
                                  !.next = @ \/ EnablesNext(answer)]
                 /\ Kind(Top) = "No" <=> answer # "N/A"
                 /\ answers' = [answers EXCEPT ![Num(Top)] = answer]
              \/ \E vc \in LivePages :
                    /\ PushesOver(vc) /\ vc = Page[Top.vc].onSelect
                    /\ Page[vc].num = Num(Top)
                         \/ (Num(Top) = 6 /\ Page[vc].num = 4)
                    /\ Page[vc].kind # "Final"
                    /\ Page[vc].kind = "NA" =>
                          Page[vc].num = Num(Top) /\ answer = "N/A"
                    /\ answers' = Cleared(vc,
                                     [answers EXCEPT ![Num(Top)] = answer])
<1>a. stack \in Seq(Instance) /\ answers \in [Pages -> Answers]
  BY DEF TypeOK
<1>b. Showing({"No", "NA"}) /\ answer \in Answers
  BY DEF DropDownOnNoPage, DropDownOnNAPage, Showing, Answers
<1>1. /\ stack # <<>> /\ ~alert /\ Top \in Instance
      /\ Top.vc \in LivePages
      /\ Kind(Top) \in {"No", "NA"} /\ Num(Top) \in Pages
      /\ Num(Top) = Page[Top.vc].num /\ Kind(Top) = Page[Top.vc].kind
      /\ Page[Top.vc].onSelect \in LivePages
  BY <1>a, <1>b, QuestionTop
<1>2. [answers EXCEPT ![Num(Top)] = answer] \in [Pages -> Answers]
  BY <1>a, <1>b, <1>1
<1>3. CASE Select(answer) /\ (Kind(Top) = "No" <=> answer # "N/A")
  <2> DEFINE e == [Top EXCEPT !.shown = answer,
                              !.next = @ \/ EnablesNext(answer)]
  <2>1. e \in Instance /\ e.vc = Top.vc /\ e.covered = Top.covered
    BY <1>1, <1>b DEF Instance
  <2>2. stack' = Append(Below, e)
        /\ answers' = [answers EXCEPT ![Num(Top)] = answer]
    BY <1>3 DEF Select
  <2> HIDE DEF e
  <2>3. /\ KeepsPages
        /\ \A i \in 1..(Len(stack) - 1) : stack'[i] = stack[i]
        /\ stack'[Len(stack)] = e
    BY <1>a, <1>1, <2>1, <2>2, KeepMove
  <2> QED
    BY <1>1, <1>2, <1>3, <2>2, <2>3 DEF e
<1>4. CASE SelectAndPush(answer) /\ (Kind(Top) = "No" <=> answer = "N/A")
  <2> DEFINE e   == [Top EXCEPT !.shown = answer]
             ans == [answers EXCEPT ![Num(Top)] = answer]
             vc  == Page[Top.vc].onSelect
  <2>1. e \in Instance /\ e.vc = Top.vc
    BY <1>1, <1>b DEF Instance
  <2>2. Push(vc, e, ans)
    BY <1>4 DEF SelectAndPush
  <2>3. /\ vc \in LivePages
        /\ Page[vc].num = Num(Top) \/ (Num(Top) = 6 /\ Page[vc].num = 4)
        /\ Page[vc].kind # "Final"
        /\ Page[vc].kind = "NA" => Page[vc].num = Num(Top) /\ answer = "N/A"
    <3>1. /\ Page[vc].kind = IF Kind(Top) = "No" THEN "NA" ELSE "No"
          /\ Page[vc].num
                 = IF Top.vc = "sixthNAPage" THEN 4 ELSE Page[Top.vc].num
      BY <1>1, QuestionPageFacts
    <3>2. Page["sixthNAPage"].num = 6 /\ Page["sixthNAPage"].kind = "NA"
      BY DEF Page, SixthNAPage, Controller
    <3> QED
      BY <1>1, <1>4, <3>1, <3>2
  <2> HIDE DEF e, ans, vc
  <2>4. ans \in [Pages -> Answers]
    BY <1>2 DEF ans
  <2>5. PushesOver(vc) /\ answers' = Cleared(vc, ans)
    BY <1>a, <1>1, <2>1, <2>2, <2>3, <2>4, PushMove
  <2> QED
    BY <1>1, <1>2, <2>3, <2>5 DEF ans, vc
<1>5. \/ Select(answer) /\ (Kind(Top) = "No" <=> answer # "N/A")
      \/ SelectAndPush(answer) /\ (Kind(Top) = "No" <=> answer = "N/A")
  BY <1>1 DEF DropDownOnNoPage, DropDownOnNAPage, Showing
<1> QED
  BY <1>3, <1>4, <1>5

(* What the Next button of a question page does to them.                   *)
LEMMA NextEffect ==
    ASSUME TypeOK, NextClick
    PROVE  /\ stack # <<>> /\ ~alert /\ Top \in Instance
           /\ Kind(Top) \in {"No", "NA"} /\ Num(Top) \in Pages
           /\ \/ /\ Num(Top) = 4
                 /\ KeepsPages
                 /\ \A i \in 1..(Len(stack) - 1) : stack'[i] = stack[i]
                 /\ stack'[Len(stack)] = SavedTop
                 /\ answers' = answers
              \/ \E vc \in LivePages :
                    /\ PushesOver(vc)
                    /\ IF Num(Top) = 4
                       THEN Page[vc].num = IF alternatePage THEN 7 ELSE 5
                       ELSE Page[vc].num = Num(Top) + 1
                    /\ Page[vc].kind # "NA"
                    /\ answers' = Cleared(vc, answers)
<1>a. stack \in Seq(Instance) /\ answers \in [Pages -> Answers]
  BY DEF TypeOK
<1>1. /\ stack # <<>> /\ ~alert /\ Top \in Instance
      /\ Top.vc \in LivePages
      /\ Kind(Top) \in {"No", "NA"} /\ Num(Top) \in Pages
      /\ Num(Top) = Page[Top.vc].num /\ Kind(Top) = Page[Top.vc].kind
      /\ NextPage(Top) \in LivePages \cup {"none"}
  BY <1>a, QuestionTop DEF NextClick
<1>2. /\ Num(Top) # 4 => /\ NextPage(Top) = Page[Top.vc].segue
                         /\ Page[Top.vc].segue \in LivePages
                         /\ Page[Page[Top.vc].segue].num = Num(Top) + 1
                         /\ Page[Page[Top.vc].segue].kind # "NA"
  BY <1>1, QuestionPageFacts DEF NextPage
<1>3. "none" \notin LivePages
  BY DEF LivePages, Page
<1>4. SavedTop \in Instance /\ SavedTop.vc = Top.vc
      /\ SavedTop.covered = Top.covered
  BY <1>1 DEF SavedTop, KeptReasons, Instance
<1>5. CASE NextPage(Top) = "none"
  <2>1. stack' = Append(Below, SavedTop) /\ answers' = answers
    BY <1>5 DEF NextClick
  <2>2. Num(Top) = 4
    BY <1>2, <1>3, <1>5
  <2> QED
    BY <1>a, <1>1, <1>4, <2>1, <2>2, KeepMove
<1>6. CASE NextPage(Top) # "none"
  <2> DEFINE vc == NextPage(Top)
  <2>1. vc \in LivePages /\ Push(vc, SavedTop, answers)
    BY <1>1, <1>6 DEF NextClick
  <2>2. /\ IF Num(Top) = 4
           THEN Page[vc].num = IF alternatePage THEN 7 ELSE 5
           ELSE Page[vc].num = Num(Top) + 1
        /\ Page[vc].kind # "NA"
    <3>1. Num(Top) = 4 => vc = IF alternatePage THEN "finalPage"
                                                 ELSE "fifthNoPage"
      BY <1>6 DEF NextPage
    <3> QED
      BY <3>1, <1>2, NamedPageFacts
  <2> HIDE DEF vc
  <2>3. PushesOver(vc) /\ answers' = Cleared(vc, answers)
    BY <1>a, <1>1, <1>4, <2>1, PushMove
  <2> QED
    BY <1>1, <2>1, <2>2, <2>3
<1> QED
  BY <1>5, <1>6

(* A check box or a picture only changes the top.                          *)
LEMMA TouchMove ==
    ASSUME stack \in Seq(Instance),
           \/ \E r \in Reasons : ToggleReason(r)
           \/ \E s \in Slots, image \in Images : PickImage(s, image)
    PROVE  KeepsPages
<1>1. ASSUME NEW r \in Reasons, ToggleReason(r)
      PROVE  KeepsPages
  <2> DEFINE e == [Top EXCEPT !.ticked =
                      IF r \in @ THEN @ \ {r} ELSE @ \cup {r}]
  <2>1. stack # <<>> /\ Top \in Instance
    BY <1>1, TopType DEF ToggleReason, Showing
  <2>2. e \in Instance /\ e.vc = Top.vc /\ e.covered = Top.covered
    BY <2>1 DEF Instance
  <2>3. stack' = Append(Below, e)
    BY <1>1 DEF ToggleReason
  <2> HIDE DEF e
  <2> QED
    BY <2>1, <2>2, <2>3, KeepMove
<1>2. ASSUME NEW s \in Slots, NEW image \in Images, PickImage(s, image)
      PROVE  KeepsPages
  <2> DEFINE e == [Top EXCEPT !.pics[s] = image]
  <2>1. stack # <<>> /\ Top \in Instance
    BY <1>2, TopType DEF PickImage, Showing
  <2>2. e \in Instance /\ e.vc = Top.vc /\ e.covered = Top.covered
    BY <2>1 DEF Instance, Picks
  <2>3. stack' = Append(Below, e)
    BY <1>2 DEF PickImage
  <2> HIDE DEF e
  <2> QED
    BY <2>1, <2>2, <2>3, KeepMove
<1> QED
  BY <1>1, <1>2

LEMMA BackMove ==
    ASSUME stack \in Seq(Instance), Back
    PROVE  PopsTop
<1>1. stack # <<>> /\ stack' = Below
  BY DEF Back, Showing
<1>2. /\ Len(stack') = Len(stack) - 1
      /\ DOMAIN stack' = 1..(Len(stack) - 1)
      /\ \A i \in 1..(Len(stack) - 1) : stack'[i] = stack[i]
  BY <1>1, PopTop
<1> QED
  BY <1>1, <1>2 DEF PopsTop

LEMMA StepMoves ==
    ASSUME TypeOK, [Next]_vars
    PROVE  \/ KeepsPages
           \/ stack' = <<>>
           \/ Enters
           \/ PopsTop
           \/ \E vc \in LivePages :
                PushesOver(vc) /\ Leads(Num(Top), Page[vc].num)
<1>a. stack \in Seq(Instance) /\ answers \in [Pages -> Answers]
  BY DEF TypeOK
<1>b. stack' = stack => KeepsPages
  BY DEF KeepsPages
<1>1. ASSUME NEW w \in WorkOrders, AddDuringJob(w)
      PROVE  Enters
  <2>1. [answers EXCEPT ![1] = "--CHOOSE NOW--"] \in [Pages -> Answers]
    BY <1>a DEF Answers, Unanswered
  <2> QED
    BY <1>1, <2>1, EnterStep, NamedPageFacts DEF AddDuringJob, Enters
<1>2. ASSUME NEW w \in WorkOrders, AddCompletedJob(w)
      PROVE  Enters
  BY <1>2, <1>a, EnterStep, NamedPageFacts DEF AddCompletedJob, Enters
<1>3. ASSUME NEW answer \in Ratings \cup {"N/A"},
             DropDownOnNoPage(answer) \/ DropDownOnNAPage(answer)
      PROVE  KeepsPages \/ \E vc \in LivePages :
                PushesOver(vc) /\ Leads(Num(Top), Page[vc].num)
  BY <1>3, SelectEffect DEF Leads
<1>4. ASSUME \/ \E r \in Reasons : ToggleReason(r)
             \/ \E s \in Slots, image \in Images : PickImage(s, image)
      PROVE  KeepsPages
  BY <1>4, <1>a, TouchMove
<1>6. ASSUME NextClick
      PROVE  KeepsPages \/ \E vc \in LivePages :
                PushesOver(vc) /\ Leads(Num(Top), Page[vc].num)
  <2>1. Num(Top) \in Pages
    BY <1>6, NextEffect
  <2> QED
    BY <1>6, <2>1, NextEffect DEF Leads
<1>7. ASSUME Back
      PROVE  PopsTop
  BY <1>7, <1>a, BackMove
<1>8. FinalClick => stack' = stack
  BY DEF FinalClick
<1>9. RestartApp \/ HomeButtonTapped => stack' = <<>>
  BY DEF RestartApp, HomeButtonTapped
<1>10. ASSUME NEW n \in DOMAIN batches, NEW s \in Slots, Callback(n, s)
       PROVE  stack' = stack
  BY <1>10 DEF Callback, PutCompleted, UrlReceived, UrlMissing
<1>11. UNCHANGED vars => stack' = stack
  BY DEF vars
<1> QED
  BY <1>b, <1>1, <1>2, <1>3, <1>4, <1>6, <1>7, <1>8, <1>9, <1>10, <1>11
     DEF Next

(* The fields of a page that has just been loaded.                         *)
LEMMA FreshFields ==
    ASSUME NEW vc, NEW ans
    PROVE  /\ Fresh(vc, ans).vc = vc
           /\ Fresh(vc, ans).kept = {} /\ ~Fresh(vc, ans).covered
           /\ Page[vc].kind = "NA" => Fresh(vc, ans).shown = ans[Page[vc].num]
           /\ Page[vc].kind = "No" =>
                /\ Fresh(vc, ans).shown = ans[Page[vc].num]
                /\ Fresh(vc, ans).next <=> ans[Page[vc].num] \in Ratings
<1> DEFINE shown == IF Page[vc].kind = "Final" THEN "" ELSE ans[Page[vc].num]
           next  == Page[vc].kind # "No" \/ EnablesNext(shown)
           pics  == [s \in Slots |-> "empty"]
<1>1. Fresh(vc, ans) = [vc |-> vc, shown |-> shown, next |-> next,
                        ticked |-> {}, kept |-> {}, pics |-> pics,
                        covered |-> FALSE]
  BY Zenon DEF Fresh
<1>2. /\ Page[vc].kind # "Final" => shown = ans[Page[vc].num]
      /\ Page[vc].kind = "No" => (next <=> shown \in Ratings)
  BY DEF EnablesNext
<1> HIDE DEF shown, next, pics
<1>3. /\ Fresh(vc, ans).vc = vc /\ Fresh(vc, ans).kept = {}
      /\ Fresh(vc, ans).covered = FALSE
      /\ Fresh(vc, ans).shown = shown /\ Fresh(vc, ans).next = next
  BY <1>1
<1> QED
  BY <1>2, <1>3

(* The numbers and kinds of the pages that were there before a push.       *)
LEMMA PushedNums ==
    ASSUME NEW vc \in LivePages, PushesOver(vc)
    PROVE  /\ \A i \in DOMAIN stack : /\ Num(stack'[i]) = Num(stack[i])
                                      /\ Kind(stack'[i]) = Kind(stack[i])
           /\ Num(stack'[Len(stack) + 1]) = Page[vc].num
           /\ Kind(stack'[Len(stack) + 1]) = Page[vc].kind
           /\ Num(stack[Len(stack)]) = Num(Top)
           /\ Kind(stack[Len(stack)]) = Kind(Top)
<1>1. ASSUME NEW i \in DOMAIN stack PROVE stack'[i].vc = stack[i].vc
  <2>1. CASE i = Len(stack)
    BY <2>1 DEF PushesOver
  <2>2. CASE i # Len(stack)
    BY <2>2 DEF PushesOver
  <2> QED
    BY <2>1, <2>2
<1>2. stack'[Len(stack) + 1].vc = vc
  BY FreshFields DEF PushesOver
<1> QED
  BY <1>1, <1>2 DEF Num, Kind, PushesOver

LEMMA StackNums ==
    ASSUME TypeOK
    PROVE  \A i \in DOMAIN stack :
              /\ stack[i] \in Instance
              /\ Num(stack[i]) \in 1..7
              /\ Kind(stack[i]) \in {"No", "NA", "Final"}
              /\ Kind(stack[i]) = "Final" <=> Num(stack[i]) = 7
<1>1. ASSUME NEW i \in DOMAIN stack PROVE stack[i] \in Instance
  BY DEF TypeOK
<1>2. ASSUME NEW i \in DOMAIN stack PROVE stack[i].vc \in LivePages
  BY <1>1 DEF Instance
<1> QED
  BY <1>1, <1>2, LivePageFacts DEF Num, Kind

LEMMA ShapeStep ==
    ASSUME TypeOK, Shape, [Next]_vars
    PROVE  Shape'
<1> USE DEF Shape
<1>1. CASE KeepsPages
  <2>1. \A i \in DOMAIN stack' : /\ i \in DOMAIN stack
                                 /\ Num(stack'[i]) = Num(stack[i])
                                 /\ Kind(stack'[i]) = Kind(stack[i])
                                 /\ stack'[i].covered = stack[i].covered
    BY <1>1 DEF KeepsPages, Num, Kind
  <2>2. Len(stack') = Len(stack)
    BY <1>1 DEF KeepsPages
  <2> QED
    BY <2>1, <2>2 DEF Climbs, FinalIsTop, CoveredBelowTop
<1>2. CASE stack' = <<>>
  BY <1>2 DEF Climbs, FinalIsTop, CoveredBelowTop
<1>3. CASE Enters
  <2>1. TypeOK'
    BY TypeStep
  <2>2. Num(stack'[1]) \in 1..7
    <3>1. stack' \in Seq(Instance)
      BY <2>1 DEF TypeOK
    <3>2. stack'[1] \in Instance
      BY <3>1, <1>3 DEF Enters
    <3>3. stack'[1].vc \in LivePages
      BY <3>2 DEF Instance
    <3> QED
      BY <3>3, LivePageFacts DEF Num
  <2> QED
    BY <1>3, <2>2 DEF Enters, Climbs, FinalIsTop, CoveredBelowTop, Cap
<1>4. CASE PopsTop
  <2>1. \A i \in DOMAIN stack' : i \in DOMAIN stack /\ stack'[i] = stack[i]
                                  /\ i # Len(stack)
    BY <1>4 DEF PopsTop
  <2> QED
    BY <2>1 DEF Climbs, FinalIsTop, CoveredBelowTop
<1>5. ASSUME NEW vc \in LivePages,
             PushesOver(vc), Leads(Num(Top), Page[vc].num)
      PROVE  Shape'
  <2>1. /\ \A i \in DOMAIN stack : /\ Num(stack'[i]) = Num(stack[i])
                                   /\ Kind(stack'[i]) = Kind(stack[i])
        /\ Num(stack'[Len(stack) + 1]) = Page[vc].num
        /\ Num(stack[Len(stack)]) = Num(Top)
        /\ Kind(stack[Len(stack)]) = Kind(Top)
    BY <1>5, PushedNums
  <2>2. /\ Len(stack) \in Nat \ {0} /\ DOMAIN stack = 1..Len(stack)
        /\ Len(stack') = Len(stack) + 1
        /\ DOMAIN stack' = 1..(Len(stack) + 1)
        /\ Kind(Top) \in {"No", "NA"}
        /\ \A i \in 1..(Len(stack) - 1) : stack'[i] = stack[i]
        /\ stack'[Len(stack)].covered
    BY <1>5 DEF PushesOver
  <2>3. \A i \in DOMAIN stack : Num(stack[i]) \in 1..7
    BY StackNums
  <2>4. Page[vc].num \in 1..7
    BY LivePageFacts
  <2>5. Climbs'
    <3>1. Cap(Num(Top)) <= Cap(Page[vc].num)
      BY <1>5, <2>1, <2>2, <2>3, <2>4 DEF Leads, Cap
    <3> SUFFICES ASSUME NEW i \in DOMAIN stack', NEW j \in DOMAIN stack',
                        i <= j
                 PROVE  Cap(Num(stack'[i])) <= Cap(Num(stack'[j]))
      BY DEF Climbs
    <3>2. CASE j <= Len(stack)
      <4>1. i \in DOMAIN stack /\ j \in DOMAIN stack
        BY <3>2, <2>2
      <4> QED
        BY <4>1, <2>1 DEF Climbs
    <3>3. CASE j = Len(stack) + 1 /\ i <= Len(stack)
      <4>1. i \in DOMAIN stack /\ Len(stack) \in DOMAIN stack
        BY <3>3, <2>2
      <4>2. Cap(Num(stack[i])) <= Cap(Num(Top))
        BY <4>1, <3>3, <2>1 DEF Climbs
      <4>3. /\ Cap(Num(stack[i])) \in Int /\ Cap(Num(Top)) \in Int
            /\ Cap(Page[vc].num) \in Int
        BY <4>1, <2>1, <2>3, <2>4 DEF Cap
      <4> QED
        BY <4>1, <4>2, <4>3, <3>1, <3>3, <2>1
    <3>4. CASE i = Len(stack) + 1 /\ j = Len(stack) + 1
      BY <3>4, <2>1, <2>4 DEF Cap
    <3> QED
      BY <3>2, <3>3, <3>4, <2>2
  <2>6. FinalIsTop'
    <3> SUFFICES ASSUME NEW i \in DOMAIN stack', Kind(stack'[i]) = "Final"
                 PROVE  i = Len(stack')
      BY DEF FinalIsTop
    <3>1. CASE i \in DOMAIN stack
      <4>1. i = Len(stack)
        BY <3>1, <2>1 DEF FinalIsTop
      <4> QED
        BY <4>1, <3>1, <2>1, <2>2
    <3> QED
      BY <3>1, <2>2
  <2>7. CoveredBelowTop'
    <3> SUFFICES ASSUME NEW i \in DOMAIN stack', ~stack'[i].covered
                 PROVE  i = Len(stack')
      BY DEF CoveredBelowTop
    <3>1. CASE i \in 1..(Len(stack) - 1)
      BY <3>1, <2>2 DEF CoveredBelowTop
    <3> QED
      BY <3>1, <2>2
  <2> QED
    BY <2>5, <2>6, <2>7
<1> QED
  BY <1>1, <1>2, <1>3, <1>4, <1>5, StepMoves

----------------------------------------------------------------------------
(* Shown, stored and enabled stay in step.                                 *)

(* What FreshPageInSync says of one page.                                  *)
InSync(inst, ans) ==
    Kind(inst) = "No" /\ ~inst.covered =>
        /\ inst.shown = ans[Num(inst)]
        /\ inst.next <=> inst.shown \in Ratings
        /\ inst.kept # {} => Num(inst) = 4

LEMMA SyncPages ==
    FreshPageInSync <=> \A i \in DOMAIN stack : InSync(stack[i], answers)
BY DEF FreshPageInSync, InSync

LEMMA SyncPagesPrime ==
    FreshPageInSync' <=> \A i \in DOMAIN stack' : InSync(stack'[i], answers')
BY DEF FreshPageInSync, InSync, Kind, Num

LEMMA SyncFresh ==
    ASSUME NEW vc, NEW ans
    PROVE  InSync(Fresh(vc, ans), ans)
BY FreshFields DEF InSync, Kind, Num

(* A step that only touches the top of the stack.                          *)
LEMMA SyncTop ==
    ASSUME TypeOK, CoveredBelowTop, stack # <<>>, KeepsPages,
           InSync(stack'[Len(stack)], answers')
    PROVE  FreshPageInSync'
<1>1. /\ Len(stack) \in Nat \ {0} /\ DOMAIN stack = 1..Len(stack)
      /\ DOMAIN stack' = DOMAIN stack
  BY TopType DEF TypeOK, KeepsPages
<1>2. ASSUME NEW i \in DOMAIN stack
      PROVE  InSync(stack'[i], answers')
  <2>1. CASE i = Len(stack)
    BY <2>1
  <2>2. CASE i # Len(stack)
    <3>1. stack'[i].covered
      BY <2>2 DEF KeepsPages, CoveredBelowTop
    <3> QED
      BY <3>1 DEF InSync
  <2> QED
    BY <2>1, <2>2
<1> QED
  BY <1>1, <1>2, SyncPagesPrime

LEMMA SyncPush ==
    ASSUME CoveredBelowTop, NEW vc, PushesOver(vc)
    PROVE  FreshPageInSync'
<1> SUFFICES ASSUME NEW i \in DOMAIN stack'
             PROVE  InSync(stack'[i], answers')
  BY SyncPagesPrime
<1>1. CASE i = Len(stack) + 1
  BY <1>1, SyncFresh DEF PushesOver
<1>2. CASE i # Len(stack) + 1
  <2>1. i \in DOMAIN stack /\ stack'[i].covered
    BY <1>2 DEF PushesOver, CoveredBelowTop
  <2> QED
    BY <2>1 DEF InSync
<1> QED
  BY <1>1, <1>2

LEMMA SyncEnter ==
    ASSUME NEW vc \in LivePages, NEW ans \in [Pages -> Answers],
           Enter(vc, ans)
    PROVE  FreshPageInSync'
<1>1. /\ DOMAIN stack' = {1}
      /\ stack'[1] = Fresh(vc, answers')
  BY EnterStep
<1> QED
  BY <1>1, SyncFresh, SyncPagesPrime

LEMMA SyncStep ==
    ASSUME TypeOK, CoveredBelowTop, FreshPageInSync, [Next]_vars
    PROVE  FreshPageInSync'
<1>a. stack \in Seq(Instance) /\ answers \in [Pages -> Answers]
  BY DEF TypeOK
<1>b. stack # <<>> => InSync(Top, answers) /\ stack[Len(stack)] = Top
                      /\ Top \in Instance
  <2>1. stack # <<>> => Len(stack) \in DOMAIN stack /\ stack[Len(stack)] = Top
                        /\ Top \in Instance
    BY <1>a, TopType
  <2> QED
    BY <2>1, SyncPages
<1>c. stack' = stack /\ answers' = answers => FreshPageInSync'
  BY SyncPages, SyncPagesPrime
<1>1. ASSUME NEW w \in WorkOrders, AddDuringJob(w)
      PROVE  FreshPageInSync'
  <2>1. [answers EXCEPT ![1] = "--CHOOSE NOW--"] \in [Pages -> Answers]
    BY <1>a DEF Answers, Unanswered
  <2> QED
    BY <1>1, <2>1, SyncEnter, NamedPageFacts DEF AddDuringJob
<1>2. ASSUME NEW w \in WorkOrders, AddCompletedJob(w)
      PROVE  FreshPageInSync'
  BY <1>2, <1>a, SyncEnter, NamedPageFacts DEF AddCompletedJob
<1>3. ASSUME NEW answer \in Ratings \cup {"N/A"},
             DropDownOnNoPage(answer) \/ DropDownOnNAPage(answer)
      PROVE  FreshPageInSync'
  <2> DEFINE e == [Top EXCEPT !.shown = answer,
                              !.next = @ \/ EnablesNext(answer)]
  <2>1. /\ stack # <<>> /\ Top \in Instance /\ Num(Top) \in Pages
        /\ \/ /\ KeepsPages
              /\ \A i \in 1..(Len(stack) - 1) : stack'[i] = stack[i]
              /\ stack'[Len(stack)] = e
              /\ Kind(Top) = "No" => answer # "N/A"
              /\ answers' = [answers EXCEPT ![Num(Top)] = answer]
           \/ \E vc \in LivePages : PushesOver(vc)
    BY <1>3, SelectEffect
  <2>2. /\ e.vc = Top.vc /\ e.covered = Top.covered /\ e.kept = Top.kept
        /\ e.shown = answer /\ (EnablesNext(answer) => e.next)
    BY <2>1 DEF Instance
  <2>3. Kind(e) = Kind(Top) /\ Num(e) = Num(Top)
    BY <2>2 DEF Kind, Num
  <2> HIDE DEF e
  <2>4. CASE \E vc \in LivePages : PushesOver(vc)
    BY <2>4, SyncPush
  <2>5. CASE /\ KeepsPages
             /\ \A i \in 1..(Len(stack) - 1) : stack'[i] = stack[i]
             /\ stack'[Len(stack)] = e
             /\ Kind(Top) = "No" => answer # "N/A"
             /\ answers' = [answers EXCEPT ![Num(Top)] = answer]
    <3>1. answers'[Num(Top)] = answer
      BY <2>1, <2>5, <1>a
    <3>2. Kind(Top) = "No" => answer \in Ratings
      BY <2>5
    <3>3. InSync(e, answers')
      BY <1>b, <2>1, <2>2, <2>3, <3>1, <3>2 DEF InSync, EnablesNext
    <3> QED
      BY <2>1, <2>5, <3>3, SyncTop
  <2> QED
    BY <2>1, <2>4, <2>5
<1>4. ASSUME NEW r \in Reasons, ToggleReason(r)
      PROVE  FreshPageInSync'
  <2> DEFINE e == [Top EXCEPT !.ticked =
                      IF r \in @ THEN @ \ {r} ELSE @ \cup {r}]
  <2>1. stack # <<>> /\ answers' = answers
    BY <1>4 DEF ToggleReason, Showing
  <2>2. /\ e \in Instance /\ e.vc = Top.vc /\ e.covered = Top.covered
        /\ e.shown = Top.shown /\ e.next = Top.next /\ e.kept = Top.kept
    BY <2>1, <1>b DEF Instance
  <2>3. stack' = Append(Below, e)
    BY <1>4 DEF ToggleReason
  <2> HIDE DEF e
  <2>4. InSync(e, answers)
    BY <1>b, <2>1, <2>2 DEF InSync, Kind, Num
  <2> QED
    BY <1>a, <2>1, <2>2, <2>3, <2>4, KeepMove, SyncTop
<1>5. ASSUME NEW s \in Slots, NEW image \in Images, PickImage(s, image)
      PROVE  FreshPageInSync'
  <2> DEFINE e == [Top EXCEPT !.pics[s] = image]
  <2>1. stack # <<>> /\ answers' = answers
    BY <1>5 DEF PickImage, Showing
  <2>2. /\ e \in Instance /\ e.vc = Top.vc /\ e.covered = Top.covered
        /\ e.shown = Top.shown /\ e.next = Top.next /\ e.kept = Top.kept
    BY <2>1, <1>b DEF Instance, Picks
  <2>3. stack' = Append(Below, e)
    BY <1>5 DEF PickImage
  <2> HIDE DEF e
  <2>4. InSync(e, answers)
    BY <1>b, <2>1, <2>2 DEF InSync, Kind, Num
  <2> QED
    BY <1>a, <2>1, <2>2, <2>3, <2>4, KeepMove, SyncTop
<1>6. ASSUME NextClick
      PROVE  FreshPageInSync'
  <2>1. /\ stack # <<>>
        /\ \/ /\ Num(Top) = 4
              /\ KeepsPages
              /\ \A i \in 1..(Len(stack) - 1) : stack'[i] = stack[i]
              /\ stack'[Len(stack)] = SavedTop
              /\ answers' = answers
           \/ \E vc \in LivePages : PushesOver(vc)
    BY <1>6, NextEffect
  <2>2. /\ SavedTop.vc = Top.vc /\ SavedTop.covered = Top.covered
        /\ SavedTop.shown = Top.shown /\ SavedTop.next = Top.next
    BY <2>1, <1>b DEF SavedTop, Instance
  <2>3. CASE /\ Num(Top) = 4
             /\ KeepsPages
             /\ \A i \in 1..(Len(stack) - 1) : stack'[i] = stack[i]
             /\ stack'[Len(stack)] = SavedTop
             /\ answers' = answers
    <3>1. InSync(SavedTop, answers)
      BY <1>b, <2>1, <2>2, <2>3 DEF InSync, Kind, Num
    <3> QED
      BY <2>1, <2>3, <3>1, SyncTop
  <2> QED
    BY <2>1, <2>3, SyncPush
<1>7. ASSUME Back
      PROVE  FreshPageInSync'
  <2>1. stack # <<>> /\ stack' = Below
    BY <1>7 DEF Back, Showing
  <2>2. /\ DOMAIN stack' = 1..(Len(stack) - 1)
        /\ \A i \in 1..(Len(stack) - 1) : stack'[i] = stack[i]
        /\ Len(stack) \in Nat \ {0} /\ DOMAIN stack = 1..Len(stack)
    BY <1>a, <2>1, PopTop, TopType
  <2>3. \A i \in DOMAIN stack' : stack'[i].covered
    BY <2>2 DEF CoveredBelowTop
  <2> QED
    BY <2>3, SyncPagesPrime DEF InSync
<1>8. FinalClick => stack' = stack /\ answers' = answers
  BY DEF FinalClick
<1>9. ASSUME RestartApp \/ HomeButtonTapped
      PROVE  FreshPageInSync'
  BY <1>9, SyncPagesPrime DEF RestartApp, HomeButtonTapped
<1>10. ASSUME NEW n \in DOMAIN batches, NEW s \in Slots, Callback(n, s)
       PROVE  stack' = stack /\ answers' = answers
  BY <1>10 DEF Callback, PutCompleted, UrlReceived, UrlMissing
<1>11. UNCHANGED vars => stack' = stack /\ answers' = answers
  BY DEF vars
<1> QED
  BY <1>c, <1>1, <1>2, <1>3, <1>4, <1>5, <1>6, <1>7, <1>8, <1>9, <1>10, <1>11
     DEF Next

LEMMA SafetyInit ==
    ASSUME Init
    PROVE  Shape /\ FreshPageInSync /\ EarlierAnswersCleared
<1>1. stack = <<>>
  BY DEF Init
<1> QED
  BY <1>1 DEF Shape, Climbs, FinalIsTop, CoveredBelowTop, FreshPageInSync,
              EarlierAnswersCleared

(* Until another page covers it, a rating page shows what the form will    *)
(* record, offers Next exactly for a rating, and (page four apart) has     *)
(* recorded nothing yet: for every sequence of taps, with any number of    *)
(* pages on the stack.                                                     *)
THEOREM FreshPagesInSync == Spec => []FreshPageInSync
<1>1. Init => TypeOK /\ Shape /\ FreshPageInSync
  BY InitType, SafetyInit
<1>2. TypeOK /\ Shape /\ FreshPageInSync /\ [Next]_vars
        => (TypeOK /\ Shape /\ FreshPageInSync)'
  BY TypeStep, ShapeStep, SyncStep DEF Shape
<1> QED
  BY <1>1, <1>2, PTL DEF Spec

----------------------------------------------------------------------------
(* What is recorded is what is shown.  An N/A page that nothing covered    *)
(* shows "N/A", because choosing "N/A" is the only way to it; and as long  *)
(* as nobody goes back, the page on top is one that nothing has covered.   *)

NAShows(inst) == Kind(inst) = "NA" /\ ~inst.covered => inst.shown = "N/A"
NAPagesShowNA == \A i \in DOMAIN stack : NAShows(stack[i])
TopUncovered ==
    backs = 0 => \A i \in DOMAIN stack : stack[i].covered => i < Len(stack)
ShownInv == NAPagesShowNA /\ TopUncovered

(* How a step moves the pages, and what it leaves on them.                 *)
ShownMoves ==
    \/ /\ KeepsPages
       /\ \A i \in DOMAIN stack : NAShows(stack[i]) => NAShows(stack'[i])
    \/ stack' = <<>>
    \/ /\ DOMAIN stack' = {1} /\ Len(stack') = 1
       /\ Kind(stack'[1]) = "No" /\ ~stack'[1].covered
    \/ PopsTop /\ backs' # 0
    \/ /\ Len(stack) \in Nat /\ DOMAIN stack' = 1..(Len(stack) + 1)
       /\ Len(stack') = Len(stack) + 1
       /\ \A i \in 1..(Len(stack) - 1) : stack'[i] = stack[i]
       /\ DOMAIN stack = 1..Len(stack)
       /\ stack'[Len(stack)].covered
       /\ NAShows(stack'[Len(stack) + 1])
       /\ ~stack'[Len(stack) + 1].covered

LEMMA ShownPush ==
    ASSUME NEW vc \in LivePages, PushesOver(vc),
           Page[vc].kind = "NA" => answers'[Page[vc].num] = "N/A"
    PROVE  ShownMoves
<1>1. /\ Fresh(vc, answers').vc = vc /\ ~Fresh(vc, answers').covered
      /\ Page[vc].kind = "NA" =>
            Fresh(vc, answers').shown = answers'[Page[vc].num]
  BY FreshFields
<1>2. NAShows(Fresh(vc, answers'))
  BY <1>1 DEF NAShows, Kind
<1> QED
  BY <1>1, <1>2 DEF PushesOver, ShownMoves

(* A step that only changes the top, and not what it shows.                *)
LEMMA ShownTop ==
    ASSUME TypeOK, stack # <<>>, KeepsPages,
           \A i \in 1..(Len(stack) - 1) : stack'[i] = stack[i],
           NAShows(Top) => NAShows(stack'[Len(stack)])
    PROVE  ShownMoves
<1>1. /\ Len(stack) \in Nat \ {0} /\ DOMAIN stack = 1..Len(stack)
      /\ stack[Len(stack)] = Top
  BY TopType DEF TypeOK
<1>2. ASSUME NEW i \in DOMAIN stack, NAShows(stack[i])
      PROVE  NAShows(stack'[i])
  <2>1. CASE i = Len(stack)
    BY <1>1, <1>2, <2>1
  <2>2. CASE i # Len(stack)
    BY <1>1, <1>2, <2>2
  <2> QED
    BY <2>1, <2>2
<1> QED
  BY <1>2 DEF ShownMoves

LEMMA ShownEnter ==
    ASSUME NEW vc \in LivePages, NEW ans \in [Pages -> Answers],
           Enter(vc, ans), Page[vc].kind = "No"
    PROVE  ShownMoves
<1>1. /\ DOMAIN stack' = {1} /\ Len(stack') = 1
      /\ stack'[1] = Fresh(vc, answers')
  BY EnterStep
<1>2. Fresh(vc, answers').vc = vc /\ ~Fresh(vc, answers').covered
  BY FreshFields
<1> QED
  BY <1>1, <1>2 DEF ShownMoves, Kind

LEMMA ShownMovesStep ==
    ASSUME TypeOK, [Next]_vars
    PROVE  ShownMoves
<1>a. stack \in Seq(Instance) /\ answers \in [Pages -> Answers]
  BY DEF TypeOK
<1>b. stack' = stack => ShownMoves
  BY DEF ShownMoves, KeepsPages
<1>1. ASSUME NEW w \in WorkOrders, AddDuringJob(w)
      PROVE  ShownMoves
  <2>1. [answers EXCEPT ![1] = "--CHOOSE NOW--"] \in [Pages -> Answers]
    BY <1>a DEF Answers, Unanswered
  <2> QED
    BY <1>1, <2>1, ShownEnter, NamedPageFacts DEF AddDuringJob
<1>2. ASSUME NEW w \in WorkOrders, AddCompletedJob(w)
      PROVE  ShownMoves
  BY <1>2, <1>a, ShownEnter, NamedPageFacts DEF AddCompletedJob
<1>3. ASSUME NEW answer \in Ratings \cup {"N/A"},
             DropDownOnNoPage(answer) \/ DropDownOnNAPage(answer)
      PROVE  ShownMoves
  <2> DEFINE e   == [Top EXCEPT !.shown = answer,
                                !.next = @ \/ EnablesNext(answer)]
             ans == [answers EXCEPT ![Num(Top)] = answer]
  <2>1. /\ stack # <<>> /\ Top \in Instance /\ Num(Top) \in Pages
        /\ Kind(Top) \in {"No", "NA"}
        /\ \/ /\ KeepsPages
              /\ \A i \in 1..(Len(stack) - 1) : stack'[i] = stack[i]
              /\ stack'[Len(stack)] = e
              /\ Kind(Top) = "No" <=> answer # "N/A"
           \/ \E vc \in LivePages :
                 /\ PushesOver(vc)
                 /\ Page[vc].kind = "NA" =>
                       Page[vc].num = Num(Top) /\ answer = "N/A"
                 /\ answers' = Cleared(vc, ans)
    BY <1>3, SelectEffect
  <2>2. e.vc = Top.vc /\ e.covered = Top.covered /\ e.shown = answer
    BY <2>1 DEF Instance
  <2>3. ans[Num(Top)] = answer
    BY <1>a, <2>1
  <2> HIDE DEF e, ans
  <2>4. CASE /\ KeepsPages
             /\ \A i \in 1..(Len(stack) - 1) : stack'[i] = stack[i]
             /\ stack'[Len(stack)] = e
             /\ Kind(Top) = "No" <=> answer # "N/A"
    <3>1. NAShows(e)
      BY <2>1, <2>2, <2>4 DEF NAShows, Kind
    <3> QED
      BY <2>1, <2>4, <3>1, ShownTop
  <2>5. ASSUME NEW vc \in LivePages, PushesOver(vc),
               Page[vc].kind = "NA" =>
                  Page[vc].num = Num(Top) /\ answer = "N/A",
               answers' = Cleared(vc, ans)
        PROVE  ShownMoves
    <3>1. ASSUME Page[vc].kind = "NA"
          PROVE  answers'[Page[vc].num] = "N/A"
      <4>1. Page[vc].clears = {} /\ Page[vc].num \in Pages
        BY <2>1, <2>5, <3>1, LivePageFacts
      <4> QED
        BY <2>3, <2>5, <3>1, <4>1 DEF Cleared
    <3> QED
      BY <2>5, <3>1, ShownPush
  <2> QED
    BY <2>1, <2>4, <2>5
<1>4. ASSUME NEW r \in Reasons, ToggleReason(r)
      PROVE  ShownMoves
  <2> DEFINE e == [Top EXCEPT !.ticked =
                      IF r \in @ THEN @ \ {r} ELSE @ \cup {r}]
  <2>1. stack # <<>> /\ Top \in Instance
    BY <1>4, <1>a, TopType DEF ToggleReason, Showing
  <2>2. /\ e \in Instance /\ e.vc = Top.vc /\ e.covered = Top.covered
        /\ e.shown = Top.shown
    BY <2>1 DEF Instance
  <2>3. stack' = Append(Below, e)
    BY <1>4 DEF ToggleReason
  <2> HIDE DEF e
  <2>4. NAShows(Top) => NAShows(e)
    BY <2>2 DEF NAShows, Kind
  <2> QED
    BY <1>a, <2>1, <2>2, <2>3, <2>4, KeepMove, ShownTop
<1>5. ASSUME NEW s \in Slots, NEW image \in Images, PickImage(s, image)
      PROVE  ShownMoves
  <2> DEFINE e == [Top EXCEPT !.pics[s] = image]
  <2>1. stack # <<>> /\ Top \in Instance
    BY <1>5, <1>a, TopType DEF PickImage, Showing
  <2>2. /\ e \in Instance /\ e.vc = Top.vc /\ e.covered = Top.covered
        /\ e.shown = Top.shown
    BY <2>1 DEF Instance, Picks
  <2>3. stack' = Append(Below, e)
    BY <1>5 DEF PickImage
  <2> HIDE DEF e
  <2>4. NAShows(Top) => NAShows(e)
    BY <2>2 DEF NAShows, Kind
  <2> QED
    BY <1>a, <2>1, <2>2, <2>3, <2>4, KeepMove, ShownTop
<1>6. ASSUME NextClick
      PROVE  ShownMoves
  <2>1. /\ stack # <<>> /\ Top \in Instance
        /\ \/ /\ KeepsPages
              /\ \A i \in 1..(Len(stack) - 1) : stack'[i] = stack[i]
              /\ stack'[Len(stack)] = SavedTop
           \/ \E vc \in LivePages : PushesOver(vc) /\ Page[vc].kind # "NA"
    BY <1>6, NextEffect
  <2>2. /\ SavedTop.vc = Top.vc /\ SavedTop.covered = Top.covered
        /\ SavedTop.shown = Top.shown
    BY <2>1 DEF SavedTop, Instance
  <2>3. NAShows(Top) => NAShows(SavedTop)
    BY <2>2 DEF NAShows, Kind
  <2> QED
    BY <2>1, <2>3, ShownTop, ShownPush
<1>7. ASSUME Back
      PROVE  ShownMoves
  <2>1. backs' # 0
    BY <1>7 DEF Back, TypeOK
  <2> QED
    BY <1>7, <1>a, <2>1, BackMove DEF ShownMoves
<1>8. FinalClick => stack' = stack
  BY DEF FinalClick
<1>9. RestartApp \/ HomeButtonTapped => ShownMoves
  BY DEF RestartApp, HomeButtonTapped, ShownMoves
<1>10. ASSUME NEW n \in DOMAIN batches, NEW s \in Slots, Callback(n, s)
       PROVE  stack' = stack
  BY <1>10 DEF Callback, PutCompleted, UrlReceived, UrlMissing
<1>11. UNCHANGED vars => stack' = stack
  BY DEF vars
<1> QED
  BY <1>b, <1>1, <1>2, <1>3, <1>4, <1>5, <1>6, <1>7, <1>8, <1>9, <1>10, <1>11
     DEF Next

LEMMA BacksGrow ==
    ASSUME TypeOK, [Next]_vars, backs' = 0
    PROVE  backs = 0
<1>1. ASSUME \/ \E w \in WorkOrders : AddDuringJob(w) \/ AddCompletedJob(w)
             \/ \E answer \in Ratings \cup {"N/A"} :
                   DropDownOnNoPage(answer) \/ DropDownOnNAPage(answer)
             \/ \E r \in Reasons : ToggleReason(r)
             \/ \E s \in Slots, image \in Images : PickImage(s, image)
      PROVE  backs' = backs
  BY <1>1 DEF AddDuringJob, AddCompletedJob, OpenForm, DropDownOnNoPage,
              DropDownOnNAPage, ToggleReason, PickImage
<1>2. NextClick \/ FinalClick \/ RestartApp \/ HomeButtonTapped
         => backs' = backs
  BY DEF NextClick, FinalClick, RestartApp, HomeButtonTapped
<1>3. ASSUME NEW n, NEW s, Callback(n, s) PROVE backs' = backs
  BY <1>3 DEF Callback, PutCompleted, UrlReceived, UrlMissing
<1>4. Back => backs' = backs + 1
  BY DEF Back
<1>5. UNCHANGED vars => backs' = backs
  BY DEF vars
<1>6. backs' = backs \/ backs' = backs + 1
  BY <1>1, <1>2, <1>3, <1>4, <1>5 DEF Next
<1> QED
  BY <1>6 DEF TypeOK

LEMMA ShownInvStep ==
    ASSUME TypeOK, ShownInv, [Next]_vars
    PROVE  ShownInv'
<1>a. backs' = 0 => backs = 0
  BY BacksGrow
<1>b. Len(stack) \in Nat /\ DOMAIN stack = 1..Len(stack)
  BY DEF TypeOK
<1> USE DEF ShownInv
<1>1. CASE /\ KeepsPages
           /\ \A i \in DOMAIN stack : NAShows(stack[i]) => NAShows(stack'[i])
  BY <1>1, <1>a DEF KeepsPages, NAPagesShowNA, TopUncovered, NAShows, Kind
<1>2. CASE stack' = <<>>
  BY <1>2 DEF NAPagesShowNA, TopUncovered
<1>3. CASE /\ DOMAIN stack' = {1} /\ Len(stack') = 1
           /\ Kind(stack'[1]) = "No" /\ ~stack'[1].covered
  BY <1>3 DEF NAPagesShowNA, TopUncovered, NAShows, Kind
<1>4. CASE PopsTop /\ backs' # 0
  BY <1>4, <1>b DEF PopsTop, NAPagesShowNA, TopUncovered, NAShows, Kind
<1>5. CASE /\ Len(stack) \in Nat /\ DOMAIN stack' = 1..(Len(stack) + 1)
           /\ Len(stack') = Len(stack) + 1
           /\ \A i \in 1..(Len(stack) - 1) : stack'[i] = stack[i]
           /\ DOMAIN stack = 1..Len(stack)
           /\ stack'[Len(stack)].covered
           /\ NAShows(stack'[Len(stack) + 1])
           /\ ~stack'[Len(stack) + 1].covered
  <2>1. ASSUME NEW i \in DOMAIN stack'
        PROVE  \/ i \in 1..(Len(stack) - 1) \/ i = Len(stack)
               \/ i = Len(stack) + 1
    BY <1>5
  <2>2. ASSUME NEW i \in DOMAIN stack' PROVE NAShows(stack'[i])
    BY <1>5, <2>1 DEF NAPagesShowNA, NAShows
  <2>3. ASSUME NEW i \in DOMAIN stack', stack'[i].covered
        PROVE  i < Len(stack')
    BY <1>5, <2>1, <2>3
  <2> QED
    BY <2>2, <2>3 DEF NAPagesShowNA, TopUncovered, NAShows, Kind
<1> QED
  BY <1>1, <1>2, <1>3, <1>4, <1>5, ShownMovesStep DEF ShownMoves

----------------------------------------------------------------------------
(* The globals of the pages before are cleared.                            *)

(* What EarlierAnswersCleared says of one page.                            *)
ClearedBefore(inst, ans) ==
    /\ \A p \in 1..3 : p < Num(inst) => ans[p] = ""
    /\ Kind(inst) = "Final" => \A p \in Pages \ {5} : ans[p] = ""

LEMMA ClearPages ==
    /\ EarlierAnswersCleared
          <=> \A i \in DOMAIN stack : ClearedBefore(stack[i], answers)
    /\ EarlierAnswersCleared'
          <=> \A i \in DOMAIN stack' : ClearedBefore(stack'[i], answers')
BY DEF EarlierAnswersCleared, ClearedBefore, Num, Kind

LEMMA PageCases ==
    /\ \A p \in Pages \ {5} : p \in Pages /\ (p \in 1..3 \/ p \in {4, 6})
    /\ \A p \in 1..3 : p \in Pages /\ p < 7
BY DEF Pages

LEMMA ClearedFields ==
    ASSUME NEW vc, NEW ans, NEW p \in Pages
    PROVE  /\ p \in Page[vc].clears => Cleared(vc, ans)[p] = ""
           /\ ans[p] = "" => Cleared(vc, ans)[p] = ""
BY DEF Cleared

(* An answer given on the top page is not one that has to stay cleared.    *)
LEMMA TopAnswer ==
    ASSUME TypeOK, Shape, stack # <<>>, EarlierAnswersCleared,
           Kind(Top) \in {"No", "NA"}, Num(Top) \in Pages,
           NEW ans,
           \A p \in Pages : p # Num(Top) => ans[p] = answers[p],
           NEW i \in DOMAIN stack
    PROVE  /\ ClearedBefore(stack[i], ans)
           /\ \A p \in 1..3 : p < Num(Top) => ans[p] = ""
<1>1. /\ Len(stack) \in DOMAIN stack /\ stack[Len(stack)] = Top
      /\ \A j \in DOMAIN stack : j <= Len(stack)
  <2>1. /\ Len(stack) \in Nat \ {0} /\ DOMAIN stack = 1..Len(stack)
        /\ stack[Len(stack)] = Top
    BY TopType DEF TypeOK
  <2> QED
    BY <2>1
<1>2. /\ ClearedBefore(stack[i], answers) /\ ClearedBefore(Top, answers)
      /\ Cap(Num(stack[i])) <= Cap(Num(Top))
      /\ Kind(stack[i]) # "Final"
  BY <1>1, ClearPages DEF Shape, Climbs, FinalIsTop
<1>3. Num(stack[i]) \in 1..7
  BY StackNums
<1>4. \A p \in 1..3 : p < Num(stack[i]) \/ p < Num(Top) => p # Num(Top)
  BY <1>2, <1>3 DEF Cap, Pages
<1>5. 1..3 \subseteq Pages
  BY DEF Pages
<1> QED
  BY <1>2, <1>4, <1>5 DEF ClearedBefore

LEMMA ClearPush ==
    ASSUME TypeOK, Shape, EarlierAnswersCleared, Num(Top) \in Pages,
           NEW vc \in LivePages, PushesOver(vc),
           Leads(Num(Top), Page[vc].num),
           Page[vc].num = Num(Top) + 1 => Page[vc].kind # "NA",
           NEW ans \in [Pages -> Answers], answers' = Cleared(vc, ans),
           \A p \in Pages : p # Num(Top) => ans[p] = answers[p]
    PROVE  EarlierAnswersCleared'
<1>1. /\ stack # <<>> /\ Kind(Top) \in {"No", "NA"}
      /\ DOMAIN stack = 1..Len(stack) /\ Len(stack) \in Nat \ {0}
      /\ DOMAIN stack' = 1..(Len(stack) + 1)
  BY DEF PushesOver
<1>2. /\ \A i \in DOMAIN stack : ClearedBefore(stack[i], ans)
      /\ \A p \in 1..3 : p < Num(Top) => ans[p] = ""
  <2>1. Len(stack) \in DOMAIN stack
    BY <1>1
  <2> QED
    BY <1>1, <2>1, TopAnswer
<1>3. /\ \A i \in DOMAIN stack : /\ Num(stack'[i]) = Num(stack[i])
                                 /\ Kind(stack'[i]) = Kind(stack[i])
      /\ Num(stack'[Len(stack) + 1]) = Page[vc].num
      /\ Kind(stack'[Len(stack) + 1]) = Page[vc].kind
  BY PushedNums
<1>4. 1..3 \subseteq Pages
  BY DEF Pages
<1>5. ASSUME NEW i \in DOMAIN stack
      PROVE  ClearedBefore(stack'[i], answers')
  <2>1. \A p \in Pages : ans[p] = "" => answers'[p] = ""
    BY ClearedFields
  <2>2. \A p \in Pages \ {5} : p \in Pages
    OBVIOUS
  <2> QED
    BY <1>2, <1>3, <1>4, <2>1, <2>2 DEF ClearedBefore
<1>6. ClearedBefore(stack'[Len(stack) + 1], answers')
  <2>0. \A p \in Pages : p \in Page[vc].clears => answers'[p] = ""
    BY ClearedFields
  <2>1. ASSUME NEW p \in 1..3, p < Page[vc].num
        PROVE  answers'[p] = ""
    <3>1. CASE p < Num(Top)
      BY <3>1, <1>2, <1>4, ClearedFields
    <3>2. CASE ~(p < Num(Top))
      <4>1. Page[vc].num = Num(Top) + 1 /\ p = Num(Top)
        BY <3>2, <2>1 DEF Leads, Pages
      <4>2. Page[vc].kind = "No" /\ Page[vc].num > 1
        BY <4>1, <2>1, LivePageFacts
      <4>3. p \in Page[vc].clears
        BY <4>1, <4>2, LivePageFacts
      <4> QED
        BY <4>3, <1>4, ClearedFields
    <3> QED
      BY <3>1, <3>2
  <2>2. ASSUME Page[vc].kind = "Final", NEW p \in Pages \ {5}
        PROVE  answers'[p] = ""
    <3>1. Page[vc].num = 7 /\ Page[vc].clears = {4, 6}
      BY <2>2, LivePageFacts
    <3>2. CASE p \in 1..3
      BY <3>1, <3>2, <2>1, PageCases
    <3>3. CASE p \in {4, 6}
      <4>1. p \in Pages /\ p \in Page[vc].clears
        BY <3>1, <3>3, PageCases
      <4> QED
        BY <4>1, <2>0
    <3> QED
      BY <3>2, <3>3, PageCases
  <2> QED
    BY <1>3, <2>1, <2>2 DEF ClearedBefore
<1>7. \A i \in DOMAIN stack' : i \in DOMAIN stack \/ i = Len(stack) + 1
  BY <1>1
<1> QED
  BY <1>5, <1>6, <1>7, ClearPages

LEMMA ClearEnter ==
    ASSUME NEW vc \in {"firstNoPage", "secondNoPage"},
           NEW ans \in [Pages -> Answers], Enter(vc, ans)
    PROVE  EarlierAnswersCleared'
<1>1. /\ vc \in LivePages /\ Page[vc].kind = "No" /\ Page[vc].num \in {1, 2}
      /\ Page[vc].num = 2 => Page[vc].clears = {1}
  BY NamedPageFacts, LivePageFacts
<1>2. /\ DOMAIN stack' = {1} /\ stack'[1] = Fresh(vc, answers')
      /\ answers' = Cleared(vc, ans)
  BY <1>1, EnterStep
<1>3. Num(stack'[1]) = Page[vc].num /\ Kind(stack'[1]) = "No"
  BY <1>1, <1>2, FreshFields DEF Num, Kind
<1>4. ASSUME NEW p \in 1..3, p < Page[vc].num
      PROVE  answers'[p] = ""
  <2>1. p \in Page[vc].clears /\ p \in Pages
    BY <1>1, <1>4 DEF Pages
  <2> QED
    BY <1>2, <2>1, ClearedFields
<1> QED
  BY <1>2, <1>3, <1>4, ClearPages, ZenonT(60) DEF ClearedBefore

LEMMA ClearStep ==
    ASSUME TypeOK, Shape, EarlierAnswersCleared, [Next]_vars
    PROVE  EarlierAnswersCleared'
<1>a. stack \in Seq(Instance) /\ answers \in [Pages -> Answers]
  BY DEF TypeOK
<1>b. ASSUME KeepsPages, answers' = answers
      PROVE  EarlierAnswersCleared'
  BY <1>b, ClearPages DEF KeepsPages, ClearedBefore, Num, Kind
<1>c. stack' = stack => KeepsPages
  BY DEF KeepsPages
<1>1. ASSUME NEW w \in WorkOrders, AddDuringJob(w)
      PROVE  EarlierAnswersCleared'
  <2>1. [answers EXCEPT ![1] = "--CHOOSE NOW--"] \in [Pages -> Answers]
    BY <1>a DEF Answers, Unanswered
  <2> QED
    BY <1>1, <2>1, ClearEnter DEF AddDuringJob
<1>2. ASSUME NEW w \in WorkOrders, AddCompletedJob(w)
      PROVE  EarlierAnswersCleared'
  BY <1>2, <1>a, ClearEnter DEF AddCompletedJob
<1>3. ASSUME NEW answer \in Ratings \cup {"N/A"},
             DropDownOnNoPage(answer) \/ DropDownOnNAPage(answer)
      PROVE  EarlierAnswersCleared'
  <2> DEFINE ans == [answers EXCEPT ![Num(Top)] = answer]
  <2>1. /\ stack # <<>> /\ Kind(Top) \in {"No", "NA"} /\ Num(Top) \in Pages
        /\ \/ KeepsPages /\ answers' = ans
           \/ \E vc \in LivePages :
                 /\ PushesOver(vc)
                 /\ Page[vc].num = Num(Top)
                      \/ (Num(Top) = 6 /\ Page[vc].num = 4)
                 /\ answers' = Cleared(vc, ans)
    BY <1>3, SelectEffect
  <2>2. \A p \in Pages : p # Num(Top) => ans[p] = answers[p]
    BY <1>a
  <2>5. ans \in [Pages -> Answers]
    BY <1>3, SelectEffect
  <2> HIDE DEF ans
  <2>3. CASE KeepsPages /\ answers' = ans
    <3>1. \A i \in DOMAIN stack : ClearedBefore(stack[i], ans)
      BY <2>1, <2>2, TopAnswer
    <3> QED
      BY <3>1, <2>3, ClearPages DEF KeepsPages, ClearedBefore, Num, Kind
  <2>4. ASSUME NEW vc \in LivePages, PushesOver(vc),
               Page[vc].num = Num(Top)
                 \/ (Num(Top) = 6 /\ Page[vc].num = 4),
               answers' = Cleared(vc, ans)
        PROVE  EarlierAnswersCleared'
    <3>1. Leads(Num(Top), Page[vc].num) /\ Page[vc].num # Num(Top) + 1
      BY <2>1, <2>4 DEF Leads, Pages
    <3> QED
      BY <2>1, <2>2, <2>4, <2>5, <3>1, ClearPush
  <2> QED
    BY <2>1, <2>3, <2>4
<1>4. ASSUME \/ \E r \in Reasons : ToggleReason(r)
             \/ \E s \in Slots, image \in Images : PickImage(s, image)
      PROVE  EarlierAnswersCleared'
  <2>1. answers' = answers
    BY <1>4 DEF ToggleReason, PickImage
  <2> QED
    BY <1>4, <1>a, <1>b, <2>1, TouchMove
<1>6. ASSUME NextClick
      PROVE  EarlierAnswersCleared'
  <2>1. /\ Num(Top) \in Pages
        /\ \/ KeepsPages /\ answers' = answers
           \/ \E vc \in LivePages :
                 /\ PushesOver(vc)
                 /\ IF Num(Top) = 4
                    THEN Page[vc].num = IF alternatePage THEN 7 ELSE 5
                    ELSE Page[vc].num = Num(Top) + 1
                 /\ Page[vc].kind # "NA"
                 /\ answers' = Cleared(vc, answers)
    BY <1>6, NextEffect
  <2>2. ASSUME NEW vc \in LivePages, PushesOver(vc),
               IF Num(Top) = 4
               THEN Page[vc].num = IF alternatePage THEN 7 ELSE 5
               ELSE Page[vc].num = Num(Top) + 1,
               Page[vc].kind # "NA",
               answers' = Cleared(vc, answers)
        PROVE  EarlierAnswersCleared'
    <3>1. Leads(Num(Top), Page[vc].num)
      BY <2>1, <2>2 DEF Leads, Pages
    <3> QED
      BY <1>a, <2>1, <2>2, <3>1, ClearPush
  <2> QED
    BY <1>b, <2>1, <2>2
<1>7. ASSUME Back
      PROVE  EarlierAnswersCleared'
  <2>1. answers' = answers /\ PopsTop
    BY <1>7, <1>a, BackMove DEF Back
  <2>2. \A i \in DOMAIN stack' : i \in DOMAIN stack /\ stack'[i] = stack[i]
    BY <2>1 DEF PopsTop
  <2> QED
    BY <2>1, <2>2, ClearPages
<1>8. FinalClick => stack' = stack /\ answers' = answers
  BY DEF FinalClick
<1>9. ASSUME RestartApp \/ HomeButtonTapped
      PROVE  EarlierAnswersCleared'
  BY <1>9, ClearPages DEF RestartApp, HomeButtonTapped
<1>10. ASSUME NEW n \in DOMAIN batches, NEW s \in Slots, Callback(n, s)
       PROVE  stack' = stack /\ answers' = answers
  BY <1>10 DEF Callback, PutCompleted, UrlReceived, UrlMissing
<1>11. UNCHANGED vars => stack' = stack /\ answers' = answers
  BY DEF vars
<1> QED
  BY <1>b, <1>c, <1>1, <1>2, <1>3, <1>4, <1>6, <1>7, <1>8, <1>9, <1>10,
     <1>11 DEF Next

(* The globals of the pages before the one on screen are cleared whatever  *)
(* way the inspector took through the pages, and a form that reaches its   *)
(* final page leaves only the fifth answer for the next form to show.      *)
THEOREM AnswersCleared == Spec => []EarlierAnswersCleared
<1>1. Init => TypeOK /\ Shape /\ EarlierAnswersCleared
  BY InitType, SafetyInit
<1>2. TypeOK /\ Shape /\ EarlierAnswersCleared /\ [Next]_vars
        => (TypeOK /\ Shape /\ EarlierAnswersCleared)'
  BY TypeStep, ShapeStep, ClearStep
<1> QED
  BY <1>1, <1>2, PTL DEF Spec

----------------------------------------------------------------------------
(* A picture that cannot be encoded stops page four.                       *)

LEMMA StopStep ==
    ASSUME TypeOK, Next, stack # <<>>, Num(Top) = 4, ReturnsEarly(Top),
           Len(stack') > Len(stack)
    PROVE  stack'[Len(stack')].vc = Page[Top.vc].onSelect
<1>a. stack \in Seq(Instance) /\ Len(stack) \in Nat \ {0}
  BY DEF TypeOK
<1>b. KeepsPages \/ PopsTop \/ stack' = <<>> \/ stack' = stack => FALSE
  BY <1>a DEF KeepsPages, PopsTop
<1>1. ASSUME NEW answer \in Ratings \cup {"N/A"},
             DropDownOnNoPage(answer) \/ DropDownOnNAPage(answer)
      PROVE  stack'[Len(stack')].vc = Page[Top.vc].onSelect
  <2>1. PICK vc : PushesOver(vc) /\ vc = Page[Top.vc].onSelect
    BY <1>1, <1>b, SelectEffect
  <2> QED
    BY <2>1, FreshFields DEF PushesOver
<1>2. ASSUME NextClick PROVE FALSE
  <2>1. NextPage(Top) = "none"
    BY DEF NextPage
  <2>2. SavedTop \in Instance /\ SavedTop.vc = Top.vc
        /\ SavedTop.covered = Top.covered
    BY <1>a, TopType DEF SavedTop, KeptReasons, Instance
  <2>3. stack' = Append(Below, SavedTop)
    BY <1>2, <2>1 DEF NextClick
  <2> QED
    BY <1>a, <1>b, <2>2, <2>3, KeepMove
<1>3. ASSUME NEW w \in WorkOrders, AddDuringJob(w) \/ AddCompletedJob(w)
      PROVE  FALSE
  BY <1>3 DEF AddDuringJob, AddCompletedJob, OpenForm, Idle
<1>4. ASSUME NEW n \in DOMAIN batches, NEW s \in Slots, Callback(n, s)
      PROVE  FALSE
  BY <1>4, <1>b DEF Callback, PutCompleted, UrlReceived, UrlMissing
<1>5. ASSUME FinalClick \/ RestartApp \/ HomeButtonTapped
      PROVE  FALSE
  BY <1>5, <1>b DEF FinalClick, RestartApp, HomeButtonTapped
<1> QED
  BY <1>a, <1>b, <1>1, <1>2, <1>3, <1>4, <1>5, TouchMove, BackMove DEF Next

(* While a picture that jpegData cannot encode is selected on page four,   *)
(* its Next button pushes nothing.                                         *)
THEOREM UndecodableStops == Spec => UndecodableStopsFour
<1>1. TypeOK /\ [Next]_vars =>
        [ stack # <<>> /\ Num(Top) = 4 /\ ReturnsEarly(Top)
             /\ Len(stack') > Len(stack)
           => stack'[Len(stack')].vc = Page[Top.vc].onSelect ]_vars
  BY StopStep
<1> QED
  BY <1>1, TypeCorrect, PTL DEF Spec, UndecodableStopsFour
=============================================================================
