------------------------- MODULE FormRecordProofs -------------------------
(***************************************************************************)
(* Proofs about the work orders of InspectionForm: their records have no   *)
(* gap, and pictures are filed where they belong.                          *)
(***************************************************************************)
EXTENDS FormProofs

(* The record of the open form, against the pages on the stack.            *)
SavedBefore ==
    \A i \in DOMAIN stack : \A p \in Pages :
        p < Num(stack[i]) /\ (Kind(stack[i]) = "Final" => p <= 4)
            => Saved(db[futureReference], p)
OnItsPath ==
    stack # <<>> /\ db[futureReference].when = "Completed Job" =>
        /\ alert \/ alternatePage
        /\ \A i \in DOMAIN stack : Num(stack[i]) \notin NotApplicablePages
FullUnlessShort ==
    \A i \in DOMAIN stack :
        Kind(stack[i]) = "Final" /\ ~alternatePage /\ ~alert =>
            \A p \in Pages : Saved(db[futureReference], p)
PathInv == SavedBefore /\ OnItsPath /\ FullUnlessShort
RecordInv == PathInv /\ RecordHasNoGaps /\ CompletedJobKeepsNA

(* The form pictures are filed under, against the forms they are taken for. *)
CurrentIsLast ==
    futureReference # Nil =>
        opened # <<>> /\ futureReference = opened[Len(opened)]
FormsKnown == \A n \in DOMAIN batches : batches[n].form \in 1..Len(opened)
PictureInv ==
    CurrentIsLast /\ FormsKnown /\ FiledWhereOpen /\ PictureFiledOnce

----------------------------------------------------------------------------
(* How the steps change the records.                                       *)

LEMMA HeaderFields ==
    ASSUME NEW when \in Jobs
    PROVE  /\ Header(when).when = when /\ ~Header(when).final
           /\ \A p \in Pages : Header(when).pages[p] =
                 IF when = "Completed Job" /\ p \in NotApplicablePages
                 THEN Node("N/A", {}) ELSE NoNode
<1> DEFINE pages == [p \in Pages |->
                IF when = "Completed Job" /\ p \in NotApplicablePages
                THEN Node("N/A", {}) ELSE NoNode]
<1>1. Header(when) = [NoOrder EXCEPT !.when = when, !.pages = pages]
  BY DEF Header
<1>2. NoOrder = [when |-> "none", pages |-> [p \in Pages |-> NoNode],
                 final |-> FALSE]
  BY DEF NoOrder
<1>3. \A p \in Pages : pages[p] =
         IF when = "Completed Job" /\ p \in NotApplicablePages
         THEN Node("N/A", {}) ELSE NoNode
  OBVIOUS
<1> HIDE DEF pages
<1>4. Header(when) = [when |-> when, pages |-> pages, final |-> FALSE]
  BY <1>1, <1>2
<1>5. /\ Header(when).when = when /\ Header(when).final = FALSE
      /\ Header(when).pages = pages
  BY <1>4
<1> QED
  BY <1>3, <1>5

LEMMA NodeFields ==
    ASSUME NEW a, NEW r
    PROVE  /\ Node(a, r).answer = a
           /\ \A s \in Slots : Node(a, r).pics[s] = 0
BY DEF Node, NoPics

(* A write to one page node of a record.                                   *)
WithNode(w, q, node) == [db EXCEPT ![w].pages[q] = node]

LEMMA PageWrite ==
    ASSUME db \in [WorkOrders -> Orders],
           NEW w \in WorkOrders, NEW q \in Pages, NEW node,
           db' = WithNode(w, q, node)
    PROVE  \A v \in WorkOrders :
              /\ db'[v].when = db[v].when /\ db'[v].final = db[v].final
              /\ \A p \in Pages : db'[v].pages[p] =
                    IF v = w /\ p = q THEN node ELSE db[v].pages[p]
<1> SUFFICES ASSUME NEW v \in WorkOrders
             PROVE  /\ db'[v].when = db[v].when /\ db'[v].final = db[v].final
                    /\ \A p \in Pages : db'[v].pages[p] =
                          IF v = w /\ p = q THEN node ELSE db[v].pages[p]
  OBVIOUS
<1>0. db' = [db EXCEPT ![w].pages[q] = node]
  BY DEF WithNode
<1>1. CASE v # w
  BY <1>0, <1>1
<1>2. CASE v = w
  <2> DEFINE pages == [db[w].pages EXCEPT ![q] = node]
  <2>1. db[w] \in Orders
    OBVIOUS
  <2>2. \A p \in Pages : pages[p] = IF p = q THEN node ELSE db[w].pages[p]
    BY <2>1 DEF Orders
  <2>3. db'[w] = [db[w] EXCEPT !.pages = pages]
    BY <1>0
  <2> HIDE DEF pages
  <2>4. /\ db'[w].when = db[w].when /\ db'[w].final = db[w].final
        /\ db'[w].pages = pages
    BY <2>1, <2>3 DEF Orders
  <2> QED
    BY <1>2, <2>2, <2>4
<1> QED
  BY <1>1, <1>2

(* The arrival of a picture's URL.                                         *)
LEMMA UrlWrite ==
    ASSUME TypeOK, NEW n \in DOMAIN batches, NEW s \in Slots,
           UrlReceived(n, s)
    PROVE  /\ futureReference \in WorkOrders /\ batches[n].page \in Pages
           /\ n \in Nat \ {0}
           /\ \A v \in WorkOrders :
                 /\ db'[v].when = db[v].when /\ db'[v].final = db[v].final
                 /\ \A p \in Pages :
                       /\ db'[v].pages[p].answer = db[v].pages[p].answer
                       /\ db'[v].pages[p].reasons = db[v].pages[p].reasons
                       /\ \A t \in Slots : db'[v].pages[p].pics[t] =
                             IF v = futureReference /\ p = batches[n].page
                                  /\ t = s
                             THEN n ELSE db[v].pages[p].pics[t]
<1> DEFINE w    == futureReference
           q    == batches[n].page
           node == [db[w].pages[q] EXCEPT !.pics[s] = n]
<1>1. w \in WorkOrders /\ q \in Pages /\ n \in Nat \ {0}
  <2>1. batches # <<>> /\ batches[n] \in Batches /\ n \in Nat \ {0}
    BY DEF TypeOK
  <2> QED
    BY <2>1 DEF TypeOK, Batches
<1>2. db \in [WorkOrders -> Orders]
  BY DEF TypeOK
<1>3. db' = WithNode(w, q, node)
  BY DEF UrlReceived, FilingOrder, WithNode
<1>4. db[w].pages[q] \in Nodes
  BY <1>1, <1>2 DEF Orders
<1>5. /\ node.answer = db[w].pages[q].answer
      /\ node.reasons = db[w].pages[q].reasons
      /\ \A t \in Slots : node.pics[t] =
            IF t = s THEN n ELSE db[w].pages[q].pics[t]
  BY <1>4 DEF Nodes
<1> HIDE DEF w, q, node
<1>6. \A v \in WorkOrders :
         /\ db'[v].when = db[v].when /\ db'[v].final = db[v].final
         /\ \A p \in Pages : db'[v].pages[p] =
               IF v = w /\ p = q THEN node ELSE db[v].pages[p]
  BY <1>1, <1>2, <1>3, PageWrite
<1> QED
  BY <1>1, <1>5, <1>6 DEF w, q

(* A new header.                                                           *)
LEMMA OpenWrite ==
    ASSUME TypeOK, NEW w \in WorkOrders, NEW when \in Jobs, OpenForm(w, when)
    PROVE  /\ \A v \in WorkOrders :
                 db'[v] = IF v = w THEN Header(when) ELSE db[v]
           /\ futureReference' = w /\ opened' = Append(opened, w)
           /\ stack = <<>> /\ ~alert /\ ~alert' /\ batches' = batches
BY DEF TypeOK, OpenForm, Idle

(* The Next button of a question page.                                     *)
LEMMA NextWrite ==
    ASSUME TypeOK, NextClick
    PROVE  /\ futureReference \in WorkOrders /\ Num(Top) \in Pages
           /\ Recorded(Top) # Absent
           /\ \A v \in WorkOrders :
                 /\ db'[v].when = db[v].when /\ db'[v].final = db[v].final
                 /\ \A p \in Pages : db'[v].pages[p] =
                       IF v = futureReference /\ p = Num(Top)
                       THEN Node(Recorded(Top), KeptReasons(Top))
                       ELSE db[v].pages[p]
<1>1. /\ stack # <<>> /\ Num(Top) \in Pages
      /\ Submits[Top.vc].node = Num(Top)
  BY QuestionTop DEF TypeOK, NextClick
<1>2. futureReference \in WorkOrders
  BY <1>1 DEF TypeOK
<1>3. Recorded(Top) # Absent
  <2>1. Recorded(Top) \in Answers
    BY <1>1 DEF TypeOK, Recorded, Answers
  <2> QED
    BY <2>1, FormAssumption DEF Answers, Unanswered, Absent
<1>4. db' = WithNode(futureReference, Num(Top),
                     Node(Recorded(Top), KeptReasons(Top)))
  BY <1>1 DEF NextClick, WithNode
<1>5. db \in [WorkOrders -> Orders]
  BY DEF TypeOK
<1> QED
  BY <1>1, <1>2, <1>3, <1>4, <1>5, PageWrite

LEMMA FinalWrite ==
    ASSUME TypeOK, FinalClick
    PROVE  /\ futureReference \in WorkOrders
           /\ \A v \in WorkOrders :
                 /\ db'[v].when = db[v].when /\ db'[v].pages = db[v].pages
                 /\ v # futureReference => db'[v].final = db[v].final
<1>1. futureReference \in WorkOrders
  BY DEF TypeOK, FinalClick, Showing
<1>2. db' = [db EXCEPT ![futureReference].final = TRUE]
  BY DEF FinalClick
<1>3. \A v \in WorkOrders : db[v] \in Orders
  BY DEF TypeOK
<1> QED
  BY <1>1, <1>2, <1>3 DEF TypeOK, Orders

----------------------------------------------------------------------------
(* The record of the open form follows the pages on the stack.             *)

(* What PathInv says of one page, for a record, a flag and an alert.       *)
PathOf(inst, order, flag, done) ==
    /\ \A p \in Pages :
          p < Num(inst) /\ (Kind(inst) = "Final" => p <= 4)
             => Saved(order, p)
    /\ order.when = "Completed Job" =>
          (done \/ flag) /\ Num(inst) \notin NotApplicablePages
    /\ Kind(inst) = "Final" /\ ~flag /\ ~done =>
          \A p \in Pages : Saved(order, p)

Path(inst) == PathOf(inst, db[futureReference], alternatePage, alert)

LEMMA PathPages ==
    ASSUME TypeOK
    PROVE  PathInv <=> \A i \in DOMAIN stack : Path(stack[i])
<1>1. stack # <<>> => 1 \in DOMAIN stack
  BY TopType DEF TypeOK
<1>2. \A i \in DOMAIN stack : stack # <<>>
  OBVIOUS
<1> QED
  BY <1>1, <1>2 DEF PathInv, SavedBefore, OnItsPath, FullUnlessShort, Path,
                    PathOf

LEMMA PathPagesPrime ==
    ASSUME TypeOK'
    PROVE  PathInv' <=> \A i \in DOMAIN stack' : Path(stack[i])'
<1>1. stack' # <<>> => 1 \in DOMAIN stack'
  BY DEF TypeOK
<1>2. \A i \in DOMAIN stack' : stack' # <<>>
  OBVIOUS
<1> QED
  BY <1>1, <1>2 DEF PathInv, SavedBefore, OnItsPath, FullUnlessShort, Path,
                    PathOf, Num, Kind

(* The record of the open form only gains pages, and nobody looks away.    *)
Gains ==
    /\ UNCHANGED <<futureReference, alternatePage, alert>>
    /\ db'[futureReference].when = db[futureReference].when
    /\ \A p \in Pages : Saved(db[futureReference], p)
                            => Saved(db'[futureReference], p)

LEMMA PathStays ==
    ASSUME NEW inst, NEW other, other.vc = inst.vc, Gains, Path(inst)
    PROVE  PathOf(other, db'[futureReference'], alternatePage', alert')
BY DEF Gains, Path, PathOf, Num, Kind

(* A step that pushes no page.                                             *)
LEMMA PathKeep ==
    ASSUME TypeOK, TypeOK', PathInv, Gains,
           \A i \in DOMAIN stack' :
              i \in DOMAIN stack /\ stack'[i].vc = stack[i].vc
    PROVE  PathInv'
<1>1. \A i \in DOMAIN stack :
         stack'[i].vc = stack[i].vc =>
            PathOf(stack'[i], db'[futureReference'], alternatePage', alert')
  BY PathPages, PathStays
<1> QED
  BY <1>1, PathPagesPrime DEF Path

(* The pages that can be pushed.                                           *)
LEMMA PathPush ==
    ASSUME TypeOK, TypeOK', PathInv, Gains, ~alert,
           NEW vc \in LivePages, PushesOver(vc), Num(Top) \in Pages,
           \/ /\ Page[vc].kind # "Final"
              /\ \/ Page[vc].num = Num(Top)
                 \/ Num(Top) = 6 /\ Page[vc].num = 4
           \/ /\ Saved(db'[futureReference], Num(Top))
              /\ IF Num(Top) = 4
                 THEN Page[vc].num = IF alternatePage THEN 7 ELSE 5
                 ELSE Page[vc].num = Num(Top) + 1
    PROVE  PathInv'
<1> DEFINE order == db'[futureReference']
           new   == stack'[Len(stack) + 1]
<1>1. /\ Kind(Top) \in {"No", "NA"}
      /\ DOMAIN stack = 1..Len(stack) /\ Len(stack) \in Nat \ {0}
      /\ DOMAIN stack' = 1..(Len(stack) + 1)
      /\ Len(stack) \in DOMAIN stack /\ stack[Len(stack)] = Top
      /\ new = Fresh(vc, answers')
  BY DEF PushesOver
<1>2. \A i \in DOMAIN stack : stack'[i].vc = stack[i].vc
  <2>1. ASSUME NEW i \in DOMAIN stack PROVE stack'[i].vc = stack[i].vc
    <3>1. CASE i = Len(stack)
      BY <3>1, <1>1 DEF PushesOver
    <3>2. CASE i # Len(stack)
      BY <3>2, <1>1 DEF PushesOver
    <3> QED
      BY <3>1, <3>2
  <2> QED
    BY <2>1
<1>3. Num(new) = Page[vc].num /\ Kind(new) = Page[vc].kind
  BY <1>1, FreshFields DEF Num, Kind
<1>4. \A i \in DOMAIN stack :
         PathOf(stack'[i], order, alternatePage', alert')
  BY <1>2, PathPages, PathStays
<1>5. /\ \A p \in Pages : p < Num(Top) => Saved(order, p)
      /\ order.when = "Completed Job" =>
            alternatePage /\ Num(Top) \notin NotApplicablePages
      /\ alternatePage' = alternatePage /\ ~alert'
      /\ futureReference' = futureReference
  <2>1. PathOf(Top, db[futureReference], alternatePage, alert)
    BY <1>1, PathPages DEF Path
  <2>2. /\ \A p \in Pages : p < Num(Top) => Saved(db[futureReference], p)
        /\ db[futureReference].when = "Completed Job" =>
              alternatePage /\ Num(Top) \notin NotApplicablePages
    BY <1>1, <2>1 DEF PathOf
  <2> QED
    BY <2>2 DEF Gains
<1>6. Page[vc].num \in 1..7 /\ (Page[vc].kind = "Final" <=> Page[vc].num = 7)
  BY LivePageFacts
<1> HIDE DEF order, new
<1>7. PathOf(new, order, alternatePage', alert')
  <2>1. CASE /\ Page[vc].kind # "Final"
             /\ \/ Page[vc].num = Num(Top)
                \/ Num(Top) = 6 /\ Page[vc].num = 4
    <3>1. \A p \in Pages : p < Page[vc].num => p < Num(Top)
      BY <2>1 DEF Pages
    <3>2. Num(Top) \notin NotApplicablePages =>
             Page[vc].num \notin NotApplicablePages
      BY <2>1 DEF NotApplicablePages
    <3> QED
      BY <1>3, <1>5, <2>1, <3>1, <3>2 DEF PathOf
  <2>2. CASE /\ Saved(db'[futureReference], Num(Top))
             /\ IF Num(Top) = 4
                THEN Page[vc].num = IF alternatePage THEN 7 ELSE 5
                ELSE Page[vc].num = Num(Top) + 1
    <3>1. Saved(order, Num(Top))
      BY <1>5, <2>2 DEF order
    <3>2. \A p \in Pages : p <= Num(Top) => Saved(order, p)
      <4>1. \A p \in Pages : p <= Num(Top) => p < Num(Top) \/ p = Num(Top)
        BY DEF Pages
      <4> QED
        BY <1>5, <3>1, <4>1
    <3>3. \A p \in Pages :
             p < Page[vc].num /\ (Page[vc].kind = "Final" => p <= 4)
                => p <= Num(Top)
      BY <1>6, <2>2 DEF Pages
    <3>4. alternatePage /\ Num(Top) \notin NotApplicablePages =>
             Page[vc].num \notin NotApplicablePages
      BY <2>2 DEF NotApplicablePages, Pages
    <3>5. Page[vc].kind = "Final" /\ ~alternatePage =>
             \A p \in Pages : p <= Num(Top)
      BY <1>6, <2>2 DEF Pages
    <3> QED
      BY <1>3, <1>5, <3>2, <3>3, <3>4, <3>5 DEF PathOf
  <2> QED
    BY <2>1, <2>2
<1>8. \A i \in DOMAIN stack' : i \in DOMAIN stack \/ i = Len(stack) + 1
  BY <1>1
<1> QED
  BY <1>4, <1>7, <1>8, PathPagesPrime DEF Path, order, new

----------------------------------------------------------------------------
(* Records without gaps.                                                   *)

(* What RecordHasNoGaps and CompletedJobKeepsNA say of one record.         *)
NoGaps(order) ==
    /\ \A p \in Pages : Saved(order, p) =>
          \/ \A q \in Pages : q < p => Saved(order, q)
          \/ order.when = "Completed Job" /\ p \in NotApplicablePages
    /\ order.final => \A p \in 1..4 : Saved(order, p)
KeepsNA(order) ==
    order.when = "Completed Job" =>
        \A p \in NotApplicablePages : order.pages[p].answer = "N/A"

LEMMA GapsOrders ==
    /\ RecordHasNoGaps /\ CompletedJobKeepsNA <=>
          \A w \in WorkOrders : NoGaps(db[w]) /\ KeepsNA(db[w])
    /\ RecordHasNoGaps' /\ CompletedJobKeepsNA' <=>
          \A w \in WorkOrders : NoGaps(db'[w]) /\ KeepsNA(db'[w])
BY DEF RecordHasNoGaps, CompletedJobKeepsNA, NoGaps, KeepsNA

LEMMA SomePages == NotApplicablePages \subseteq Pages /\ 1..4 \subseteq Pages
BY DEF NotApplicablePages, Pages

(* A step that changes no answer.                                          *)
LEMMA SameAnswers ==
    ASSUME NEW old, NEW new, NoGaps(old), KeepsNA(old),
           new.when = old.when,
           \A p \in Pages : new.pages[p].answer = old.pages[p].answer,
           new.final => \A p \in 1..4 : Saved(old, p)
    PROVE  NoGaps(new) /\ KeepsNA(new)
<1>1. \A p \in Pages : Saved(new, p) <=> Saved(old, p)
  BY DEF Saved
<1>2. NoGaps(new)
  BY <1>1, SomePages DEF NoGaps
<1>3. KeepsNA(new)
  BY SomePages DEF KeepsNA
<1> QED
  BY <1>2, <1>3

LEMMA NewHeader ==
    ASSUME NEW when \in Jobs
    PROVE  /\ NoGaps(Header(when)) /\ KeepsNA(Header(when))
           /\ when = "Completed Job" => Saved(Header(when), 1)
<1>1. /\ Header(when).when = when /\ ~Header(when).final
      /\ \A p \in Pages : Header(when).pages[p] =
            IF when = "Completed Job" /\ p \in NotApplicablePages
            THEN Node("N/A", {}) ELSE NoNode
  BY HeaderFields
<1>2. /\ Node("N/A", {}).answer = "N/A" /\ NoNode.answer = Absent
      /\ "N/A" # Absent
  BY NodeFields DEF NoNode, Absent
<1>3. \A p \in Pages : Saved(Header(when), p) <=>
                          when = "Completed Job" /\ p \in NotApplicablePages
  BY <1>1, <1>2 DEF Saved
<1>4. 1 \in Pages /\ 1 \in NotApplicablePages
  BY DEF Pages, NotApplicablePages
<1>5. NoGaps(Header(when))
  BY <1>1, <1>3 DEF NoGaps
<1>6. KeepsNA(Header(when))
  BY <1>1, <1>2, SomePages DEF KeepsNA
<1> QED
  BY <1>3, <1>4, <1>5, <1>6

(* A page is saved whose predecessors are.                                 *)
LEMMA SaveNext ==
    ASSUME NEW old, NEW new, NEW n \in Pages, NoGaps(old), KeepsNA(old),
           new.when = old.when, new.final = old.final,
           \A p \in Pages : p # n => new.pages[p] = old.pages[p],
           Saved(new, n),
           \A q \in Pages : q < n => Saved(old, q),
           old.when = "Completed Job" => n \notin NotApplicablePages
    PROVE  /\ NoGaps(new) /\ KeepsNA(new)
           /\ \A p \in Pages : Saved(old, p) => Saved(new, p)
<1>1. \A p \in Pages : Saved(old, p) => Saved(new, p)
  BY DEF Saved
<1>2. \A p \in Pages : Saved(new, p) => Saved(old, p) \/ p = n
  BY DEF Saved
<1>3. NoGaps(new)
  BY <1>1, <1>2, SomePages DEF NoGaps
<1>4. KeepsNA(new)
  BY SomePages DEF KeepsNA
<1> QED
  BY <1>1, <1>3, <1>4

LEMMA FirstPages ==
    /\ \A p \in Pages : ~(p < 1) /\ (p < 2 => p = 1)
    /\ 2 \notin NotApplicablePages
    /\ "During job" # "Completed Job"
BY DEF Pages, NotApplicablePages

LEMMA RecordOpen ==
    ASSUME TypeOK, TypeOK', RecordInv, NEW w \in WorkOrders,
           NEW when \in Jobs, OpenForm(w, when),
           NEW vc \in {"firstNoPage", "secondNoPage"},
           NEW ans \in [Pages -> Answers], Enter(vc, ans),
           when = "Completed Job" => vc = "secondNoPage" /\ alternatePage',
           when = "During job" => vc = "firstNoPage"
    PROVE  RecordInv'
<1>1. /\ \A v \in WorkOrders :
            db'[v] = IF v = w THEN Header(when) ELSE db[v]
      /\ futureReference' = w
  BY OpenWrite
<1>2. RecordHasNoGaps' /\ CompletedJobKeepsNA'
  BY <1>1, NewHeader, GapsOrders DEF RecordInv
<1>3. /\ DOMAIN stack' = {1}
      /\ Num(stack'[1]) = Page[vc].num /\ Kind(stack'[1]) = "No"
  <2>1. vc \in LivePages /\ Page[vc].kind = "No"
    BY NamedPageFacts
  <2>2. DOMAIN stack' = {1} /\ stack'[1] = Fresh(vc, answers')
    BY <2>1, EnterStep
  <2>3. Fresh(vc, answers').vc = vc
    BY FreshFields
  <2> QED
    BY <2>1, <2>2, <2>3 DEF Num, Kind
<1>4. db'[futureReference'] = Header(when) /\ Header(when).when = when
  BY <1>1, HeaderFields
<1>5. /\ \A p \in Pages : p < Page[vc].num => Saved(Header(when), p)
      /\ when = "Completed Job" => Page[vc].num \notin NotApplicablePages
  <2>1. CASE when = "Completed Job"
    <3>1. Page[vc].num = 2
      BY <2>1, NamedPageFacts
    <3>2. Saved(Header(when), 1)
      BY <2>1, NewHeader
    <3> QED
      BY <3>1, <3>2, FirstPages
  <2>2. CASE when = "During job"
    <3>1. Page[vc].num = 1
      BY <2>2, NamedPageFacts
    <3> QED
      BY <2>2, <3>1, FirstPages
  <2> QED
    BY <2>1, <2>2 DEF Jobs
<1>6. PathOf(stack'[1], db'[futureReference'], alternatePage', alert')
  BY <1>3, <1>4, <1>5 DEF PathOf
<1>7. PathInv'
  BY <1>3, <1>6, PathPagesPrime DEF Path
<1> QED
  BY <1>2, <1>7 DEF RecordInv

LEMMA RecordNext ==
    ASSUME TypeOK, TypeOK', RecordInv, NextClick
    PROVE  RecordInv'
<1> DEFINE n == Num(Top)
           r == futureReference
<1>1. /\ r \in WorkOrders /\ n \in Pages
      /\ \A v \in WorkOrders :
            /\ db'[v].when = db[v].when /\ db'[v].final = db[v].final
            /\ \A p \in Pages : db'[v].pages[p] =
                  IF v = r /\ p = n
                  THEN Node(Recorded(Top), KeptReasons(Top))
                  ELSE db[v].pages[p]
      /\ Recorded(Top) # Absent
  BY NextWrite
<1>2. /\ stack # <<>> /\ ~alert /\ Kind(Top) \in {"No", "NA"}
  BY NextEffect
<1>3. Path(Top)
  <2>1. Len(stack) \in DOMAIN stack /\ stack[Len(stack)] = Top
    BY <1>2, TopType DEF TypeOK
  <2> QED
    BY <2>1, PathPages DEF RecordInv
<1>4. /\ \A q \in Pages : q < n => Saved(db[r], q)
      /\ db[r].when = "Completed Job" => n \notin NotApplicablePages
  BY <1>2, <1>3 DEF Path, PathOf
<1>5. Saved(db'[r], n)
  BY <1>1, NodeFields DEF Saved
<1>6. /\ NoGaps(db'[r]) /\ KeepsNA(db'[r])
      /\ \A p \in Pages : Saved(db[r], p) => Saved(db'[r], p)
  <2>1. NoGaps(db[r]) /\ KeepsNA(db[r])
    BY <1>1, GapsOrders DEF RecordInv
  <2>2. \A p \in Pages : p # n => db'[r].pages[p] = db[r].pages[p]
    BY <1>1
  <2>3. db'[r].when = db[r].when /\ db'[r].final = db[r].final
    BY <1>1
  <2> HIDE DEF n, r
  <2> QED
    BY <1>1, <1>4, <1>5, <2>1, <2>2, <2>3, SaveNext
<1>7. ASSUME NEW v \in WorkOrders, v # r
      PROVE  NoGaps(db'[v]) /\ KeepsNA(db'[v])
  <2>1. NoGaps(db[v]) /\ KeepsNA(db[v])
    BY GapsOrders DEF RecordInv
  <2>2. /\ db'[v].when = db[v].when /\ db'[v].final = db[v].final
        /\ \A p \in Pages : db'[v].pages[p].answer = db[v].pages[p].answer
    BY <1>1, <1>7
  <2>3. db'[v].final => \A p \in 1..4 : Saved(db[v], p)
    BY <2>1, <2>2 DEF NoGaps
  <2> QED
    BY <2>1, <2>2, <2>3, SameAnswers
<1>8. RecordHasNoGaps' /\ CompletedJobKeepsNA'
  BY <1>6, <1>7, GapsOrders
<1>9. Gains
  BY <1>1, <1>6 DEF Gains, NextClick
<1>10. PathInv'
  <2>1. \/ KeepsPages
        \/ \E vc \in LivePages :
              /\ PushesOver(vc)
              /\ IF Num(Top) = 4
                 THEN Page[vc].num = IF alternatePage THEN 7 ELSE 5
                 ELSE Page[vc].num = Num(Top) + 1
    BY NextEffect
  <2>2. CASE KeepsPages
    BY <1>9, <2>2, PathKeep DEF RecordInv, KeepsPages
  <2>3. ASSUME NEW vc \in LivePages, PushesOver(vc),
               IF Num(Top) = 4
               THEN Page[vc].num = IF alternatePage THEN 7 ELSE 5
               ELSE Page[vc].num = Num(Top) + 1
        PROVE  PathInv'
    BY <1>1, <1>2, <1>5, <1>9, <2>3, PathPush DEF RecordInv
  <2> QED
    BY <2>1, <2>2, <2>3
<1> QED
  BY <1>8, <1>10 DEF RecordInv

LEMMA RecordFinal ==
    ASSUME TypeOK, TypeOK', RecordInv, FinalClick
    PROVE  RecordInv'
<1>1. /\ futureReference \in WorkOrders
      /\ \A v \in WorkOrders :
            /\ db'[v].when = db[v].when /\ db'[v].pages = db[v].pages
            /\ v # futureReference => db'[v].final = db[v].final
  BY FinalWrite
<1>2. /\ stack' = stack /\ futureReference' = futureReference /\ alert'
      /\ stack # <<>> /\ Kind(Top) = "Final"
  BY DEF FinalClick, Showing
<1>3. Path(Top)
  <2>1. Len(stack) \in DOMAIN stack /\ stack[Len(stack)] = Top
    BY <1>2, TopType DEF TypeOK
  <2> QED
    BY <2>1, PathPages DEF RecordInv
<1>4. \A p \in 1..4 : Saved(db[futureReference], p)
  <2>1. Num(Top) = 7
    <3>1. Top.vc \in LivePages /\ Num(Top) = Page[Top.vc].num
          /\ Kind(Top) = Page[Top.vc].kind
      BY <1>2, TopType DEF TypeOK, Instance
    <3> QED
      BY <1>2, <3>1, LivePageFacts
  <2>2. \A p \in 1..4 : p \in Pages /\ p < 7 /\ p <= 4
    BY DEF Pages
  <2> QED
    BY <1>3, <2>1, <2>2 DEF Path, PathOf
<1>5. ASSUME NEW v \in WorkOrders
      PROVE  NoGaps(db'[v]) /\ KeepsNA(db'[v])
  <2>1. NoGaps(db[v]) /\ KeepsNA(db[v])
    BY GapsOrders DEF RecordInv
  <2>2. /\ db'[v].when = db[v].when
        /\ \A p \in Pages : db'[v].pages[p].answer = db[v].pages[p].answer
    BY <1>1
  <2>3. db'[v].final => \A p \in 1..4 : Saved(db[v], p)
    BY <1>1, <1>4, <2>1 DEF NoGaps
  <2> QED
    BY <2>1, <2>2, <2>3, SameAnswers
<1>6. RecordHasNoGaps' /\ CompletedJobKeepsNA'
  BY <1>5, GapsOrders
<1>7. ASSUME NEW i \in DOMAIN stack
      PROVE  PathOf(stack'[i], db'[futureReference'], alternatePage', alert')
  <2>1. PathOf(stack[i], db[futureReference], alternatePage, alert)
    BY PathPages DEF RecordInv, Path
  <2>2. /\ db'[futureReference].when = db[futureReference].when
        /\ \A p \in Pages : Saved(db[futureReference], p)
                                => Saved(db'[futureReference], p)
    BY <1>1 DEF Saved
  <2> QED
    BY <1>2, <2>1, <2>2 DEF PathOf
<1>8. PathInv'
  BY <1>2, <1>7, PathPagesPrime DEF Path
<1> QED
  BY <1>6, <1>8 DEF RecordInv

LEMMA RecordStep ==
    ASSUME TypeOK, RecordInv, [Next]_vars
    PROVE  RecordInv'
<1>0. /\ TypeOK' /\ PathInv
      /\ stack \in Seq(Instance) /\ answers \in [Pages -> Answers]
  BY TypeStep DEF TypeOK, RecordInv
<1>a. ASSUME db' = db PROVE RecordHasNoGaps' /\ CompletedJobKeepsNA'
  BY <1>a, GapsOrders DEF RecordInv
<1>b. ASSUME UNCHANGED <<db, futureReference, alternatePage, alert>>
      PROVE  Gains
  BY <1>b DEF Gains
<1>c. ASSUME UNCHANGED <<db, futureReference, alternatePage, alert>>,
             KeepsPages \/ PopsTop \/ stack' = <<>>
      PROVE  RecordInv'
  <2>1. \A i \in DOMAIN stack' :
           i \in DOMAIN stack /\ stack'[i].vc = stack[i].vc
    <3>1. CASE PopsTop
      BY <3>1 DEF PopsTop
    <3> QED
      BY <1>c, <3>1 DEF KeepsPages
  <2> QED
    BY <1>0, <1>a, <1>b, <1>c, <2>1, PathKeep DEF RecordInv
<1>1. ASSUME NEW w \in WorkOrders, AddDuringJob(w)
      PROVE  RecordInv'
  <2>1. [answers EXCEPT ![1] = "--CHOOSE NOW--"] \in [Pages -> Answers]
    BY <1>0 DEF Answers, Unanswered
  <2> QED
    BY <1>0, <1>1, <2>1, RecordOpen DEF AddDuringJob, Jobs
<1>2. ASSUME NEW w \in WorkOrders, AddCompletedJob(w)
      PROVE  RecordInv'
  BY <1>0, <1>2, RecordOpen DEF AddCompletedJob, Jobs
<1>3. ASSUME NEW answer \in Ratings \cup {"N/A"},
             DropDownOnNoPage(answer) \/ DropDownOnNAPage(answer)
      PROVE  RecordInv'
  <2>1. UNCHANGED <<db, futureReference, alternatePage, alert>>
    BY <1>3 DEF DropDownOnNoPage, DropDownOnNAPage
  <2>2. /\ ~alert /\ Num(Top) \in Pages
        /\ \/ KeepsPages
           \/ \E vc \in LivePages :
                 /\ PushesOver(vc)
                 /\ Page[vc].num = Num(Top)
                      \/ (Num(Top) = 6 /\ Page[vc].num = 4)
                 /\ Page[vc].kind # "Final"
    BY <1>3, SelectEffect
  <2>3. ASSUME NEW vc \in LivePages, PushesOver(vc),
               Page[vc].num = Num(Top)
                 \/ (Num(Top) = 6 /\ Page[vc].num = 4),
               Page[vc].kind # "Final"
        PROVE  RecordInv'
    BY <1>0, <1>a, <1>b, <2>1, <2>2, <2>3, PathPush DEF RecordInv
  <2> QED
    BY <1>c, <2>1, <2>2, <2>3
<1>4. ASSUME \/ \E r \in Reasons : ToggleReason(r)
             \/ \E s \in Slots, image \in Images : PickImage(s, image)
      PROVE  RecordInv'
  <2>1. UNCHANGED <<db, futureReference, alternatePage, alert>>
    BY <1>4 DEF ToggleReason, PickImage
  <2>2. KeepsPages
    BY <1>0, <1>4, TouchMove
  <2> QED
    BY <1>c, <2>1, <2>2
<1>5. ASSUME Back
      PROVE  RecordInv'
  <2>1. UNCHANGED <<db, futureReference, alternatePage, alert>>
    BY <1>5 DEF Back
  <2>2. PopsTop
    BY <1>0, <1>5, BackMove
  <2> QED
    BY <1>c, <2>1, <2>2
<1>6. ASSUME RestartApp \/ HomeButtonTapped
      PROVE  RecordInv'
  <2>1. stack' = <<>> /\ db' = db
    BY <1>6 DEF RestartApp, HomeButtonTapped
  <2> QED
    BY <1>0, <1>a, <2>1, PathPagesPrime DEF RecordInv
<1>7. ASSUME NEW n \in DOMAIN batches, NEW s \in Slots, Callback(n, s)
      PROVE  RecordInv'
  <2>1. stack' = stack /\ UNCHANGED <<futureReference, alternatePage, alert>>
    BY <1>7 DEF Callback, PutCompleted, UrlReceived, UrlMissing
  <2>2. stack' = stack => KeepsPages
    BY DEF KeepsPages
  <2>3. CASE UrlReceived(n, s)
    <3>1. /\ futureReference \in WorkOrders
          /\ \A v \in WorkOrders :
                /\ db'[v].when = db[v].when /\ db'[v].final = db[v].final
                /\ \A p \in Pages :
                      db'[v].pages[p].answer = db[v].pages[p].answer
      BY <2>3, UrlWrite
    <3>2. ASSUME NEW v \in WorkOrders
          PROVE  NoGaps(db'[v]) /\ KeepsNA(db'[v])
      <4>1. NoGaps(db[v]) /\ KeepsNA(db[v])
        BY GapsOrders DEF RecordInv
      <4>2. db'[v].final => \A p \in 1..4 : Saved(db[v], p)
        BY <3>1, <4>1 DEF NoGaps
      <4> QED
        BY <3>1, <4>1, <4>2, SameAnswers
    <3>3. Gains
      BY <2>1, <3>1 DEF Gains, Saved
    <3>4. PathInv'
      BY <1>0, <2>1, <3>3, PathKeep
    <3> QED
      BY <3>2, <3>4, GapsOrders DEF RecordInv
  <2>4. CASE db' = db
    BY <1>c, <2>1, <2>2, <2>4
  <2> QED
    BY <1>7, <2>3, <2>4 DEF Callback, PutCompleted, UrlMissing
<1>8. UNCHANGED vars =>
         KeepsPages /\ UNCHANGED <<db, futureReference, alternatePage, alert>>
  BY DEF vars, KeepsPages
<1> QED
  BY <1>0, <1>c, <1>1, <1>2, <1>3, <1>4, <1>5, <1>6, <1>7, <1>8, RecordNext,
     RecordFinal DEF Next

LEMMA RecordInit == Init => RecordInv
<1> SUFFICES ASSUME Init PROVE RecordInv
  OBVIOUS
<1>1. stack = <<>> /\ \A w \in WorkOrders : db[w] = NoOrder
  BY DEF Init
<1>2. \A p \in Pages : NoOrder.pages[p].answer = Absent
  BY NodeFields DEF NoOrder, NoNode
<1>3. NoOrder.when = "none" /\ ~NoOrder.final
  BY DEF NoOrder
<1>4. NoGaps(NoOrder) /\ KeepsNA(NoOrder)
  BY <1>2, <1>3 DEF NoGaps, KeepsNA, Saved
<1>5. PathInv
  BY <1>1 DEF PathInv, SavedBefore, OnItsPath, FullUnlessShort
<1> QED
  BY <1>1, <1>4, <1>5, GapsOrders DEF RecordInv

LEMMA RecordAlways == Spec => [](TypeOK /\ RecordInv)
<1>1. Init => TypeOK /\ RecordInv
  BY InitType, RecordInit
<1>2. TypeOK /\ RecordInv /\ [Next]_vars => (TypeOK /\ RecordInv)'
  BY TypeStep, RecordStep
<1> QED
  BY <1>1, <1>2, PTL DEF Spec

(* Whatever the inspector rewinds, resumes or abandons, a record has a     *)
(* page only with all the pages before it, and is closed only with its     *)
(* first four.                                                             *)
THEOREM NoGapInRecords == Spec => []RecordHasNoGaps
<1>1. RecordInv => RecordHasNoGaps
  BY DEF RecordInv
<1> QED
  BY <1>1, RecordAlways, PTL

(* Nothing the pages or the late callbacks write changes the pages a       *)
(* completed job is not asked about.                                       *)
THEOREM CompletedJobsKeepNA == Spec => []CompletedJobKeepsNA
<1>1. RecordInv => CompletedJobKeepsNA
  BY DEF RecordInv
<1> QED
  BY <1>1, RecordAlways, PTL

(* A completed job keeps its flag while it is filled in, and the final     *)
(* page is on screen without the flag only over six saved pages.           *)
THEOREM FlagGuardsShortcut == Spec => []ShortcutNeedsFlag
<1>1. TypeOK /\ RecordInv => ShortcutNeedsFlag
  <2> SUFFICES ASSUME TypeOK, RecordInv, stack # <<>>, ~alert
               PROVE  /\ db[futureReference].when = "Completed Job"
                            => alternatePage
                      /\ Kind(Top) = "Final" /\ ~alternatePage =>
                            \A p \in Pages : Saved(db[futureReference], p)
    BY DEF ShortcutNeedsFlag
  <2>1. Len(stack) \in DOMAIN stack /\ stack[Len(stack)] = Top
    BY TopType DEF TypeOK
  <2> QED
    BY <2>1 DEF RecordInv, PathInv, OnItsPath, FullUnlessShort
<1> QED
  BY <1>1, RecordAlways, PTL

----------------------------------------------------------------------------
(* Which steps write answers: outside them a record keeps its answers and  *)
(* its header.                                                             *)

SameRecords ==
    \A v \in WorkOrders :
        /\ db'[v].when = db[v].when
        /\ \A p \in Pages : db'[v].pages[p].answer = db[v].pages[p].answer

LEMMA CallbackMoves ==
    ASSUME TypeOK, NEW n \in DOMAIN batches, NEW s \in Slots, Callback(n, s)
    PROVE  /\ SameRecords
           /\ UNCHANGED <<stack, futureReference, alternatePage, alert>>
<1>1. UNCHANGED <<stack, futureReference, alternatePage, alert>>
  BY DEF Callback, PutCompleted, UrlReceived, UrlMissing
<1>2. CASE UrlReceived(n, s)
  BY <1>1, <1>2, UrlWrite DEF SameRecords
<1>3. CASE db' = db
  BY <1>1, <1>3 DEF SameRecords
<1> QED
  BY <1>2, <1>3 DEF Callback, PutCompleted, UrlMissing

LEMMA RecordMoves ==
    ASSUME TypeOK, [Next]_vars
    PROVE  \/ SameRecords
           \/ NextClick
           \/ \E w \in WorkOrders : AddDuringJob(w) \/ AddCompletedJob(w)
<1>1. ASSUME NEW n \in DOMAIN batches, NEW s \in Slots, Callback(n, s)
      PROVE  SameRecords
  BY <1>1, CallbackMoves
<1>2. FinalClick => SameRecords
  BY FinalWrite DEF SameRecords
<1>3. db' = db => SameRecords
  BY DEF SameRecords
<1>4. ASSUME \/ \E answer \in Ratings \cup {"N/A"} :
                   DropDownOnNoPage(answer) \/ DropDownOnNAPage(answer)
             \/ \E r \in Reasons : ToggleReason(r)
             \/ \E s \in Slots, image \in Images : PickImage(s, image)
             \/ RestartApp \/ HomeButtonTapped \/ Back \/ UNCHANGED vars
      PROVE  db' = db
  BY <1>4 DEF DropDownOnNoPage, DropDownOnNAPage, ToggleReason, PickImage,
              RestartApp, HomeButtonTapped, Back, vars
<1> QED
  BY <1>1, <1>2, <1>3, <1>4 DEF Next

----------------------------------------------------------------------------
(* What is recorded is what is shown.                                      *)

Answered ==
    backs = 0 => \A w \in WorkOrders, p \in Pages :
        db[w].pages[p].answer \in Ratings \cup {"N/A", Absent}

ShownAsRecorded ==
    \A i \in DOMAIN stack :
        Kind(stack[i]) # "Final" /\ ~stack[i].covered /\ stack[i].next =>
            Recorded(stack[i]) = stack[i].shown

LEMMA UncoveredRecord ==
    ASSUME TypeOK, FreshPageInSync, NAPagesShowNA
    PROVE  /\ ShownAsRecorded
           /\ \A i \in DOMAIN stack :
                 Kind(stack[i]) # "Final" /\ ~stack[i].covered
                    /\ stack[i].next
                    => Recorded(stack[i]) \in Ratings \cup {"N/A"}
<1> SUFFICES ASSUME NEW i \in DOMAIN stack, Kind(stack[i]) # "Final",
                    ~stack[i].covered, stack[i].next
             PROVE  /\ Recorded(stack[i]) = stack[i].shown
                    /\ Recorded(stack[i]) \in Ratings \cup {"N/A"}
  BY DEF ShownAsRecorded
<1>1. stack[i].vc \in LivePages /\ Kind(stack[i]) \in {"No", "NA"}
  BY StackNums DEF Instance
<1>2. Submits[stack[i].vc].answer =
         IF Kind(stack[i]) = "No" THEN "global" ELSE "N/A"
  BY <1>1, QuestionPageFacts DEF Kind
<1>3. CASE Kind(stack[i]) = "No"
  BY <1>2, <1>3 DEF FreshPageInSync, Recorded
<1>4. CASE Kind(stack[i]) = "NA"
  BY <1>2, <1>4 DEF NAPagesShowNA, NAShows, Recorded
<1> QED
  BY <1>1, <1>3, <1>4

LEMMA AnsweredStep ==
    ASSUME TypeOK, FreshPageInSync, ShownInv, Answered, [Next]_vars
    PROVE  Answered'
<1> SUFFICES ASSUME backs' = 0, NEW w \in WorkOrders, NEW p \in Pages
             PROVE  db'[w].pages[p].answer \in Ratings \cup {"N/A", Absent}
  BY DEF Answered
<1>1. /\ backs = 0
      /\ db[w].pages[p].answer \in Ratings \cup {"N/A", Absent}
  BY BacksGrow DEF Answered
<1>2. CASE SameRecords
  BY <1>1, <1>2 DEF SameRecords
<1>3. CASE NextClick
  <2>1. /\ Len(stack) \in DOMAIN stack /\ stack[Len(stack)] = Top
        /\ Kind(Top) \in {"No", "NA"} /\ Top.next
    BY <1>3, NextEffect, TopType DEF TypeOK, NextClick
  <2>2. ~Top.covered
    BY <1>1, <2>1 DEF ShownInv, TopUncovered, TypeOK
  <2>3. Recorded(Top) \in Ratings \cup {"N/A"}
    BY <2>1, <2>2, UncoveredRecord DEF ShownInv
  <2>4. db'[w].pages[p] = IF w = futureReference /\ p = Num(Top)
                          THEN Node(Recorded(Top), KeptReasons(Top))
                          ELSE db[w].pages[p]
    BY <1>3, NextWrite
  <2>5. Node(Recorded(Top), KeptReasons(Top)).answer = Recorded(Top)
    BY NodeFields
  <2> QED
    BY <1>1, <2>3, <2>4, <2>5
<1>4. ASSUME NEW v \in WorkOrders, NEW when \in Jobs, OpenForm(v, when)
      PROVE  db'[w].pages[p].answer \in Ratings \cup {"N/A", Absent}
  <2>1. db'[w] = IF w = v THEN Header(when) ELSE db[w]
    BY <1>4, OpenWrite
  <2>2. Header(when).pages[p] \in {Node("N/A", {}), Node(Absent, {})}
    BY HeaderFields DEF NoNode
  <2>3. Header(when).pages[p].answer \in {"N/A", Absent}
    BY <2>2, NodeFields
  <2> QED
    BY <1>1, <2>1, <2>3
<1> QED
  BY <1>2, <1>3, <1>4, RecordMoves DEF AddDuringJob, AddCompletedJob, Jobs

(* On every page that nothing has covered, Next records what the page      *)
(* shows; and while nobody goes back every answer in every record is a     *)
(* rating or "N/A": an empty answer is always the work of the Back button. *)
THEOREM RecordsTheShown == Spec => []RecordsWhatIsShown
<1> DEFINE Inv == TypeOK /\ Shape /\ FreshPageInSync /\ ShownInv /\ Answered
<1>1. Init => Inv
  <2> SUFFICES ASSUME Init PROVE Inv
    OBVIOUS
  <2>1. stack = <<>> /\ \A w \in WorkOrders : db[w] = NoOrder
    BY DEF Init
  <2>2. \A p \in Pages : NoOrder.pages[p].answer = Absent
    BY NodeFields DEF NoOrder, NoNode
  <2>3. ShownInv /\ Answered
    BY <2>1, <2>2 DEF ShownInv, NAPagesShowNA, TopUncovered, Answered
  <2> QED
    BY <2>3, InitType, SafetyInit
<1>2. Inv /\ [Next]_vars => Inv'
  BY TypeStep, ShapeStep, SyncStep, ShownInvStep, AnsweredStep DEF Shape
<1>3. Inv => RecordsWhatIsShown
  BY UncoveredRecord DEF RecordsWhatIsShown, ShownAsRecorded, Answered,
                         ShownInv
<1> QED
  BY <1>1, <1>2, <1>3, PTL DEF Spec

----------------------------------------------------------------------------
(* The shortcut of a completed job.                                        *)

(* A completed job is left at the home page with its flag still raised.    *)
AbandonsCompletedJob ==
    (HomeButtonTapped \/ Back) /\ stack' = <<>> /\ alternatePage

(* The flag is raised only while a completed job is being filled in.       *)
FlagIsOfThisForm ==
    alternatePage =>
        stack # <<>> /\ ~alert /\ db[futureReference].when = "Completed Job"

LEMMA FlagStep ==
    ASSUME TypeOK, FlagIsOfThisForm, [Next]_vars, ~AbandonsCompletedJob
    PROVE  FlagIsOfThisForm'
<1> SUFFICES ASSUME alternatePage'
             PROVE  /\ stack' # <<>> /\ ~alert'
                    /\ db'[futureReference'].when = "Completed Job"
  BY DEF FlagIsOfThisForm
<1>a. ASSUME stack # <<>>, alternatePage PROVE futureReference \in WorkOrders
  BY <1>a DEF TypeOK
<1>b. ASSUME KeepsPages PROVE stack # <<>> => stack' # <<>>
  <2>1. stack \in Seq(Instance) /\ stack' \in Seq(Instance)
    BY TypeStep DEF TypeOK
  <2> QED
    BY <1>b, <2>1 DEF KeepsPages
<1>1. ASSUME alternatePage, SameRecords,
             UNCHANGED <<futureReference, alternatePage, alert>>,
             stack # <<>> => stack' # <<>>
      PROVE  /\ stack' # <<>> /\ ~alert'
             /\ db'[futureReference'].when = "Completed Job"
  BY <1>1, <1>a DEF FlagIsOfThisForm, SameRecords
<1>2. ASSUME NEW w \in WorkOrders, AddDuringJob(w)
      PROVE  FALSE
  <2>1. stack = <<>> /\ alternatePage' = alternatePage
    BY <1>2 DEF AddDuringJob, OpenForm, Idle
  <2> QED
    BY <2>1 DEF FlagIsOfThisForm
<1>3. ASSUME NEW w \in WorkOrders, AddCompletedJob(w)
      PROVE  /\ stack' # <<>> /\ ~alert'
             /\ db'[futureReference'].when = "Completed Job"
  <2>1. OpenForm(w, "Completed Job") /\ "Completed Job" \in Jobs
    BY <1>3 DEF AddCompletedJob, Jobs
  <2>2. /\ futureReference' = w /\ ~alert'
        /\ db'[w] = Header("Completed Job")
    BY <2>1, OpenWrite
  <2>3. stack' # <<>>
    BY <1>3 DEF AddCompletedJob, Enter
  <2> QED
    BY <2>1, <2>2, <2>3, HeaderFields
<1>4. ASSUME NEW answer \in Ratings \cup {"N/A"},
             DropDownOnNoPage(answer) \/ DropDownOnNAPage(answer)
      PROVE  /\ alternatePage /\ SameRecords
             /\ UNCHANGED <<futureReference, alternatePage, alert>>
             /\ stack # <<>> => stack' # <<>>
  <2>1. db' = db /\ UNCHANGED <<futureReference, alternatePage, alert>>
    BY <1>4 DEF DropDownOnNoPage, DropDownOnNAPage
  <2>2. stack' # <<>>
    <3>1. stack # <<>> /\ (KeepsPages \/ \E vc \in LivePages : PushesOver(vc))
      BY <1>4, SelectEffect
    <3>2. (\E vc \in LivePages : PushesOver(vc))
             => Len(stack') # 0
      BY DEF PushesOver
    <3> QED
      BY <1>b, <3>1, <3>2
  <2> QED
    BY <2>1, <2>2 DEF SameRecords
<1>5. ASSUME \/ \E r \in Reasons : ToggleReason(r)
             \/ \E s \in Slots, image \in Images : PickImage(s, image)
      PROVE  /\ alternatePage /\ SameRecords
             /\ UNCHANGED <<futureReference, alternatePage, alert>>
             /\ stack # <<>> => stack' # <<>>
  <2>1. db' = db /\ UNCHANGED <<futureReference, alternatePage, alert>>
    BY <1>5 DEF ToggleReason, PickImage
  <2>2. KeepsPages
    BY <1>5, TouchMove DEF TypeOK
  <2> QED
    BY <1>b, <2>1, <2>2 DEF SameRecords
<1>6. ASSUME NextClick
      PROVE  /\ stack' # <<>> /\ ~alert'
             /\ db'[futureReference'].when = "Completed Job"
  <2>1. UNCHANGED <<futureReference, alternatePage, alert>>
    BY <1>6 DEF NextClick
  <2>2. stack' # <<>>
    BY <1>6 DEF NextClick, Push
  <2>3. /\ futureReference \in WorkOrders
        /\ db'[futureReference].when = db[futureReference].when
    BY <1>6, NextWrite
  <2> QED
    BY <2>1, <2>2, <2>3 DEF FlagIsOfThisForm
<1>7. FinalClick => ~alternatePage'
  BY DEF FinalClick
<1>8. RestartApp => FALSE
  BY DEF RestartApp, FlagIsOfThisForm
<1>9. ASSUME HomeButtonTapped \/ Back
      PROVE  /\ alternatePage /\ SameRecords
             /\ UNCHANGED <<futureReference, alternatePage, alert>>
             /\ stack # <<>> => stack' # <<>>
  <2>1. db' = db /\ UNCHANGED <<futureReference, alternatePage, alert>>
    BY <1>9 DEF HomeButtonTapped, Back
  <2> QED
    BY <1>9, <2>1 DEF SameRecords, AbandonsCompletedJob
<1>10. ASSUME NEW n \in DOMAIN batches, NEW s \in Slots, Callback(n, s)
       PROVE  /\ alternatePage /\ SameRecords
              /\ UNCHANGED <<futureReference, alternatePage, alert>>
              /\ stack # <<>> => stack' # <<>>
  BY <1>10, CallbackMoves
<1>11. ASSUME UNCHANGED vars
       PROVE  /\ alternatePage /\ SameRecords
              /\ UNCHANGED <<futureReference, alternatePage, alert>>
              /\ stack # <<>> => stack' # <<>>
  BY <1>11 DEF vars, SameRecords
<1> QED
  BY <1>1, <1>2, <1>3, <1>4, <1>5, <1>6, <1>7, <1>8, <1>9, <1>10, <1>11
     DEF Next

LEMMA PathFollowsStep ==
    ASSUME TypeOK, RecordInv, FlagIsOfThisForm, PathFollowsJob, [Next]_vars,
           ~AbandonsCompletedJob
    PROVE  PathFollowsJob'
<1>0. TypeOK' /\ RecordInv' /\ FlagIsOfThisForm'
  BY TypeStep, RecordStep, FlagStep
<1>a. stack' # <<>> => Len(stack') \in DOMAIN stack'
  <2>1. stack' \in Seq(Instance)
    BY <1>0 DEF TypeOK
  <2> QED
    BY <2>1
<1> SUFFICES ASSUME stack' # <<>>, Kind(stack'[Len(stack')]) = "Final",
                    db'[futureReference'].when = "During job",
                    NEW p \in Pages
             PROVE  Saved(db'[futureReference'], p)
  BY DEF PathFollowsJob, Top, Kind, Saved
<1>1. CASE ~alert'
  <2>1. ~alternatePage'
    BY <1>0 DEF FlagIsOfThisForm
  <2>2. FullUnlessShort'
    BY <1>0 DEF RecordInv, PathInv
  <2> QED
    BY <1>1, <1>a, <2>1, <2>2 DEF FullUnlessShort, Kind
<1>2. CASE alert'
  <2>1. stack' = stack /\ futureReference' = futureReference /\ SameRecords
    <3>1. FinalClick => /\ UNCHANGED <<stack, futureReference>>
                        /\ SameRecords
      BY FinalWrite DEF FinalClick, SameRecords
    <3>2. ~RestartApp
      BY <1>2 DEF RestartApp
    <3>3. ASSUME \/ \E w \in WorkOrders : AddDuringJob(w) \/ AddCompletedJob(w)
                 \/ \E answer \in Ratings \cup {"N/A"} :
                       DropDownOnNoPage(answer) \/ DropDownOnNAPage(answer)
                 \/ \E r \in Reasons : ToggleReason(r)
                 \/ \E s \in Slots, image \in Images : PickImage(s, image)
                 \/ NextClick \/ HomeButtonTapped \/ Back
          PROVE  FALSE
      BY <1>2, <3>3 DEF AddDuringJob, AddCompletedJob, OpenForm, Idle,
            DropDownOnNoPage, DropDownOnNAPage, ToggleReason, PickImage,
            NextClick, HomeButtonTapped, Back, Showing
    <3>4. ASSUME NEW n \in DOMAIN batches, NEW s \in Slots, Callback(n, s)
          PROVE  UNCHANGED <<stack, futureReference>> /\ SameRecords
      BY <3>4, CallbackMoves
    <3>5. UNCHANGED vars => UNCHANGED <<stack, futureReference>> /\ SameRecords
      BY DEF vars, SameRecords
    <3> QED
      BY <3>1, <3>2, <3>3, <3>4, <3>5 DEF Next
  <2>2. futureReference \in WorkOrders
    BY <2>1 DEF TypeOK
  <2>3. /\ db[futureReference].when = "During job"
        /\ Kind(Top) = "Final" /\ stack # <<>>
    BY <2>1, <2>2 DEF SameRecords, Top, Kind
  <2>4. Saved(db[futureReference], p)
    BY <2>3 DEF PathFollowsJob
  <2> QED
    BY <2>1, <2>2, <2>4 DEF SameRecords, Saved
<1> QED
  BY <1>1, <1>2

(* The shortcut past pages five and six is taken only by completed jobs as *)
(* long as no completed job is left half-way: with Home, or with Back from *)
(* its first page, while its flag is raised.  Nothing else, no order of    *)
(* taps and callbacks and no number of forms, leads a form opened "During  *)
(* job" to the final page without its six pages.                           *)
THEOREM PathFollowsUnlessAbandoned ==
    Spec /\ [][~AbandonsCompletedJob]_vars => []PathFollowsJob
<1>1. Init => TypeOK /\ RecordInv /\ FlagIsOfThisForm /\ PathFollowsJob
  BY InitType, RecordInit DEF Init, FlagIsOfThisForm, PathFollowsJob
<1>2. /\ TypeOK /\ RecordInv /\ FlagIsOfThisForm /\ PathFollowsJob
      /\ [Next]_vars /\ [~AbandonsCompletedJob]_vars
      => (TypeOK /\ RecordInv /\ FlagIsOfThisForm /\ PathFollowsJob)'
  <2>1. UNCHANGED vars => ~AbandonsCompletedJob
    BY DEF vars, AbandonsCompletedJob, HomeButtonTapped, Back, Showing
  <2> QED
    BY <2>1, TypeStep, RecordStep, FlagStep, PathFollowsStep
<1> QED
  BY <1>1, <1>2, PTL DEF Spec

----------------------------------------------------------------------------
(* Pictures are filed where they belong.                                   *)

(* Forms and batches are only added to, and what is filed stays filed.     *)
Extends ==
    /\ Len(opened) <= Len(opened')
    /\ \A f \in 1..Len(opened) : opened'[f] = opened[f]
    /\ \A n \in DOMAIN batches :
          /\ n \in DOMAIN batches'
          /\ batches'[n].page = batches[n].page
          /\ batches'[n].form = batches[n].form
          /\ \A s \in Slots : batches[n].stage[s] = "filed"
                                => batches'[n].stage[s] = "filed"

LEMMA FormsTyped ==
    ASSUME TypeOK
    PROVE  /\ Len(opened) \in Nat
           /\ DOMAIN opened = 1..Len(opened)
           /\ \A n \in DOMAIN batches :
                 n \in Nat \ {0} /\ batches[n].form \in Nat
<1>1. Len(opened) \in Nat /\ DOMAIN opened = 1..Len(opened)
  BY DEF TypeOK
<1>2. ASSUME NEW n \in DOMAIN batches
      PROVE  n \in Nat \ {0} /\ batches[n].form \in Nat
  <2>1. batches \in Seq(Batches)
    BY DEF TypeOK
  <2>2. n \in 1..Len(batches) /\ Len(batches) \in Nat
    BY <2>1
  <2>3. batches[n] \in Batches
    BY <2>1
  <2> QED
    BY <2>2, <2>3 DEF Batches
<1> QED
  BY <1>1, <1>2

LEMMA SameForms ==
    ASSUME UNCHANGED <<opened, batches>>, TypeOK
    PROVE  Extends
BY FormsTyped DEF Extends

(* What FiledWhereOpen says of the picture n in a slot.                    *)
FiledWell(n, w, p, s) ==
    /\ n \in DOMAIN batches
    /\ batches[n].page = p /\ batches[n].stage[s] = "filed"
    /\ \E f \in batches[n].form..Len(opened) : opened[f] = w

LEMMA FiledPages ==
    /\ FiledWhereOpen <=>
          \A w \in WorkOrders, p \in Pages, s \in Slots :
             db[w].pages[p].pics[s] # 0
                => FiledWell(db[w].pages[p].pics[s], w, p, s)
    /\ FiledWhereOpen' <=>
          \A w \in WorkOrders, p \in Pages, s \in Slots :
             db'[w].pages[p].pics[s] # 0
                => FiledWell(db[w].pages[p].pics[s], w, p, s)'
BY DEF FiledWhereOpen, FiledWell

LEMMA FiledStays ==
    ASSUME TypeOK, FormsKnown, Extends, TypeOK',
           NEW n, NEW w, NEW p, NEW s \in Slots, FiledWell(n, w, p, s)
    PROVE  /\ n \in DOMAIN batches'
           /\ batches'[n].page = p /\ batches'[n].stage[s] = "filed"
           /\ \E f \in batches'[n].form..Len(opened') : opened'[f] = w
<1>1. PICK f \in batches[n].form..Len(opened) : opened[f] = w
  BY DEF FiledWell
<1>2. n \in DOMAIN batches /\ batches[n].page = p
      /\ batches[n].stage[s] = "filed"
  BY DEF FiledWell
<1>3. batches[n].form \in 1..Len(opened) /\ Len(opened) \in Nat
  BY <1>2, FormsTyped DEF FormsKnown
<1>4. f \in 1..Len(opened)
  BY <1>1, <1>3
<1>5. Len(opened') \in Nat /\ Len(opened) <= Len(opened')
  BY DEF Extends, TypeOK
<1>6. f \in batches[n].form..Len(opened')
  BY <1>1, <1>3, <1>5
<1> QED
  BY <1>1, <1>2, <1>4, <1>6 DEF Extends

(* A step that puts no picture in a record.                                *)
LEMMA NothingFiled ==
    ASSUME TypeOK, TypeOK', FormsKnown, FiledWhereOpen, PictureFiledOnce,
           Extends,
           \A w \in WorkOrders, p \in Pages, s \in Slots :
              \/ db'[w].pages[p].pics[s] = 0
              \/ db'[w].pages[p].pics[s] = db[w].pages[p].pics[s]
    PROVE  FiledWhereOpen' /\ PictureFiledOnce'
<1>1. ASSUME NEW w \in WorkOrders, NEW p \in Pages, NEW s \in Slots,
             db'[w].pages[p].pics[s] # 0
      PROVE  FiledWell(db[w].pages[p].pics[s], w, p, s)'
  <2> DEFINE n == db[w].pages[p].pics[s]
  <2>1. db'[w].pages[p].pics[s] = n
    BY <1>1
  <2>2. FiledWell(n, w, p, s)
    BY <1>1, <2>1, FiledPages
  <2> HIDE DEF n
  <2>3. /\ n \in DOMAIN batches'
        /\ batches'[n].page = p /\ batches'[n].stage[s] = "filed"
        /\ \E f \in batches'[n].form..Len(opened') : opened'[f] = w
    BY <2>2, FiledStays
  <2> QED
    BY <2>1, <2>3 DEF FiledWell
<1>2. PictureFiledOnce'
  BY DEF PictureFiledOnce
<1> QED
  BY <1>1, <1>2, FiledPages

(* A step that leaves the records' pages, the forms and the batches alone. *)
LEMMA NothingMoved ==
    ASSUME TypeOK, TypeOK', PictureInv,
           UNCHANGED <<opened, batches, futureReference>>,
           \A w \in WorkOrders : db'[w].pages = db[w].pages
    PROVE  PictureInv'
<1>1. Extends
  BY SameForms
<1>2. FiledWhereOpen' /\ PictureFiledOnce'
  BY <1>1, NothingFiled DEF PictureInv
<1>3. CurrentIsLast' /\ FormsKnown'
  BY DEF PictureInv, CurrentIsLast, FormsKnown
<1> QED
  BY <1>2, <1>3 DEF PictureInv

LEMMA PictureOpen ==
    ASSUME TypeOK, TypeOK', PictureInv,
           NEW w \in WorkOrders, NEW when \in Jobs, OpenForm(w, when)
    PROVE  PictureInv'
<1>1. /\ \A v \in WorkOrders :
            db'[v] = IF v = w THEN Header(when) ELSE db[v]
      /\ futureReference' = w /\ opened' = Append(opened, w)
      /\ batches' = batches
  BY OpenWrite
<1>2. /\ Len(opened) \in Nat
      /\ Len(opened') = Len(opened) + 1
      /\ opened'[Len(opened')] = w
      /\ \A f \in 1..Len(opened) : opened'[f] = opened[f]
  BY <1>1, AppendProperties DEF TypeOK
<1>3. opened' # <<>>
  BY <1>2 DEF TypeOK
<1>4. CurrentIsLast'
  BY <1>1, <1>2, <1>3 DEF CurrentIsLast
<1>5. Len(opened) <= Len(opened')
  BY <1>2
<1>6. Extends
  BY <1>1, <1>2, <1>5 DEF Extends
<1>7. FormsKnown'
  <2>1. ASSUME NEW n \in DOMAIN batches
        PROVE  batches[n].form \in 1..Len(opened')
    <3>1. batches[n].form \in 1..Len(opened)
      BY DEF PictureInv, FormsKnown
    <3> QED
      BY <3>1, <1>2
  <2> QED
    BY <1>1, <2>1 DEF FormsKnown
<1>8. \A v \in WorkOrders, p \in Pages, s \in Slots :
         \/ db'[v].pages[p].pics[s] = 0
         \/ db'[v].pages[p].pics[s] = db[v].pages[p].pics[s]
  <2>1. \A p \in Pages : \A s \in Slots : Header(when).pages[p].pics[s] = 0
    <3>1. \A s \in Slots :
             Node("N/A", {}).pics[s] = 0 /\ NoNode.pics[s] = 0
      BY NodeFields DEF NoNode
    <3> QED
      BY <3>1, HeaderFields
  <2> QED
    BY <1>1, <2>1
<1>9. FiledWhereOpen' /\ PictureFiledOnce'
  BY <1>6, <1>8, NothingFiled DEF PictureInv
<1> QED
  BY <1>4, <1>7, <1>9 DEF PictureInv

LEMMA PictureNext ==
    ASSUME TypeOK, TypeOK', PictureInv, NextClick
    PROVE  PictureInv'
<1>1. UNCHANGED <<opened, futureReference>>
  BY DEF NextClick
<1>2. \A v \in WorkOrders, p \in Pages, s \in Slots :
         \/ db'[v].pages[p].pics[s] = 0
         \/ db'[v].pages[p].pics[s] = db[v].pages[p].pics[s]
  BY NextWrite, NodeFields
<1>3. futureReference # Nil
  BY DEF TypeOK, NextClick, Showing
<1>4. Len(opened) \in 1..Len(opened)
  BY <1>3 DEF TypeOK, PictureInv, CurrentIsLast
<1>5. CASE batches' = batches
  <2>1. Extends
    BY <1>1, <1>5, SameForms
  <2>2. FiledWhereOpen' /\ PictureFiledOnce'
    BY <1>2, <2>1, NothingFiled DEF PictureInv
  <2> QED
    BY <1>1, <1>5, <2>2 DEF PictureInv, CurrentIsLast, FormsKnown
<1>6. ASSUME NEW b, batches' = Append(batches, b), b.form = Len(opened)
      PROVE  PictureInv'
  <2>1. /\ DOMAIN batches = 1..Len(batches) /\ Len(batches) \in Nat
        /\ DOMAIN batches' = 1..(Len(batches) + 1)
        /\ batches'[Len(batches) + 1] = b
        /\ \A n \in DOMAIN batches : batches'[n] = batches[n]
    BY <1>6, AppendProperties DEF TypeOK
  <2>2. \A n \in DOMAIN batches : n \in DOMAIN batches'
    BY <2>1
  <2>3. Extends
    BY <1>1, <2>1, <2>2, FormsTyped DEF Extends
  <2>4. FormsKnown'
    <3>1. \A n \in DOMAIN batches' :
             n \in DOMAIN batches \/ n = Len(batches) + 1
      BY <2>1
    <3> QED
      BY <1>1, <1>4, <1>6, <2>1, <3>1 DEF PictureInv, FormsKnown
  <2>5. FiledWhereOpen' /\ PictureFiledOnce'
    BY <1>2, <2>3, NothingFiled DEF PictureInv
  <2> QED
    BY <1>1, <2>4, <2>5 DEF PictureInv, CurrentIsLast
<1>7. \/ batches' = batches
      \/ \E b : batches' = Append(batches, b) /\ b.form = Len(opened)
  BY DEF NextClick, StartUploads
<1> QED
  BY <1>5, <1>6, <1>7

(* A change of one upload's stage, from "put" or "url".                    *)
LEMMA StageStep ==
    ASSUME TypeOK, PictureInv, NEW n \in DOMAIN batches, NEW s \in Slots,
           batches[n].stage[s] # "filed",
           NEW stage, SetStage(n, s, stage), opened' = opened
    PROVE  /\ Extends
           /\ FormsKnown'
           /\ batches'[n].stage[s] = stage
<1> DEFINE b == [batches[n] EXCEPT !.stage[s] = stage]
<1>1. batches \in Seq(Batches) /\ batches[n] \in Batches
  BY DEF TypeOK
<1>2. /\ b.page = batches[n].page /\ b.form = batches[n].form
      /\ \A t \in Slots : b.stage[t] = IF t = s THEN stage
                                       ELSE batches[n].stage[t]
  BY <1>1 DEF Batches
<1>3. /\ DOMAIN batches' = DOMAIN batches
      /\ \A m \in DOMAIN batches :
            batches'[m] = IF m = n THEN b ELSE batches[m]
  BY DEF SetStage
<1> HIDE DEF b
<1>4. \A m \in DOMAIN batches :
         /\ batches'[m].page = batches[m].page
         /\ batches'[m].form = batches[m].form
         /\ \A t \in Slots : batches[m].stage[t] = "filed"
                               => batches'[m].stage[t] = "filed"
  BY <1>2, <1>3
<1>5. Extends
  BY <1>3, <1>4, FormsTyped DEF Extends
<1>6. FormsKnown'
  BY <1>3, <1>4 DEF PictureInv, FormsKnown
<1> QED
  BY <1>2, <1>3, <1>5, <1>6

LEMMA PictureUrl ==
    ASSUME TypeOK, TypeOK', PictureInv,
           NEW n \in DOMAIN batches, NEW s \in Slots, UrlReceived(n, s)
    PROVE  PictureInv'
<1> DEFINE w == futureReference
           q == batches[n].page
<1>1. /\ w \in WorkOrders /\ q \in Pages /\ n \in Nat \ {0}
      /\ \A v \in WorkOrders, p \in Pages, t \in Slots :
            db'[v].pages[p].pics[t] =
               IF v = w /\ p = q /\ t = s
               THEN n ELSE db[v].pages[p].pics[t]
  BY UrlWrite
<1>2. /\ batches[n].stage[s] = "url" /\ SetStage(n, s, "filed")
      /\ UNCHANGED <<opened, futureReference>>
  BY DEF UrlReceived
<1>3. Extends /\ FormsKnown' /\ batches'[n].stage[s] = "filed"
  BY <1>2, StageStep
<1>4. /\ n \in DOMAIN batches'
      /\ batches'[n].page = q /\ batches'[n].stage[s] = "filed"
      /\ \E f \in batches'[n].form..Len(opened') : opened'[f] = w
  <2>1. batches[n].form \in 1..Len(opened) /\ Len(opened) \in Nat
    BY FormsTyped DEF PictureInv, FormsKnown
  <2>2. opened[Len(opened)] = w
    BY <1>1, FormAssumption DEF PictureInv, CurrentIsLast
  <2>3. Len(opened) \in batches[n].form..Len(opened)
    BY <2>1
  <2>4. n \in DOMAIN batches' /\ batches'[n].page = q
        /\ batches'[n].form = batches[n].form
    BY <1>3 DEF Extends
  <2> QED
    BY <1>2, <1>3, <2>2, <2>3, <2>4
<1>5. ASSUME NEW v \in WorkOrders, NEW p \in Pages, NEW t \in Slots,
             db[v].pages[p].pics[t] # 0
      PROVE  /\ FiledWell(db[v].pages[p].pics[t], v, p, t)
             /\ p = q /\ t = s => db[v].pages[p].pics[t] # n
  <2>1. FiledWell(db[v].pages[p].pics[t], v, p, t)
    BY <1>5, FiledPages DEF PictureInv
  <2> QED
    BY <1>2, <2>1 DEF FiledWell
<1> HIDE DEF w, q
<1>6. FiledWhereOpen'
  <2> SUFFICES ASSUME NEW v \in WorkOrders, NEW p \in Pages, NEW t \in Slots,
                      db'[v].pages[p].pics[t] # 0
               PROVE  FiledWell(db[v].pages[p].pics[t], v, p, t)'
    BY FiledPages
  <2>1. CASE v = w /\ p = q /\ t = s
    <3>1. db'[v].pages[p].pics[t] = n
      BY <1>1, <2>1
    <3> QED
      BY <1>4, <2>1, <3>1 DEF FiledWell
  <2>2. CASE ~(v = w /\ p = q /\ t = s)
    <3> DEFINE m == db[v].pages[p].pics[t]
    <3>1. db'[v].pages[p].pics[t] = m
      BY <1>1, <2>2
    <3>2. FiledWell(m, v, p, t)
      BY <1>5, <3>1
    <3> HIDE DEF m
    <3>3. /\ m \in DOMAIN batches'
          /\ batches'[m].page = p /\ batches'[m].stage[t] = "filed"
          /\ \E f \in batches'[m].form..Len(opened') : opened'[f] = v
      BY <1>3, <3>2, FiledStays DEF PictureInv
    <3> QED
      BY <3>1, <3>3 DEF FiledWell
  <2> QED
    BY <2>1, <2>2
<1>7. PictureFiledOnce'
  <2> SUFFICES ASSUME NEW v \in WorkOrders, NEW u \in WorkOrders,
                      NEW p \in Pages, NEW t \in Slots,
                      v # u, db'[v].pages[p].pics[t] # 0
               PROVE  db'[v].pages[p].pics[t] # db'[u].pages[p].pics[t]
    BY DEF PictureFiledOnce
  <2>1. db[v].pages[p].pics[t] # 0 =>
           db[v].pages[p].pics[t] # db[u].pages[p].pics[t]
    BY DEF PictureInv, PictureFiledOnce
  <2>2. n # 0
    BY <1>1
  <2>3. p = q /\ t = s => /\ db[v].pages[p].pics[t] # n
                          /\ db[u].pages[p].pics[t] # n
    BY <1>5, <2>2
  <2> QED
    BY <1>1, <2>1, <2>3
<1>8. CurrentIsLast'
  BY <1>2 DEF PictureInv, CurrentIsLast
<1> QED
  BY <1>3, <1>6, <1>7, <1>8 DEF PictureInv

LEMMA PictureStep ==
    ASSUME TypeOK, PictureInv, [Next]_vars
    PROVE  PictureInv'
<1>0. TypeOK'
  BY TypeStep
<1>1. ASSUME UNCHANGED <<opened, batches, futureReference, db>>
      PROVE  PictureInv'
  BY <1>0, <1>1, NothingMoved
<1>2. ASSUME NEW w \in WorkOrders, AddDuringJob(w) \/ AddCompletedJob(w)
      PROVE  PictureInv'
  BY <1>0, <1>2, PictureOpen DEF AddDuringJob, AddCompletedJob, Jobs
<1>3. ASSUME FinalClick
      PROVE  PictureInv'
  <2>1. UNCHANGED <<opened, batches, futureReference>>
    BY <1>3 DEF FinalClick
  <2> QED
    BY <1>0, <1>3, <2>1, FinalWrite, NothingMoved
<1>4. ASSUME NEW n \in DOMAIN batches, NEW s \in Slots, Callback(n, s)
      PROVE  PictureInv'
  <2>1. CASE UrlReceived(n, s)
    BY <1>0, <2>1, PictureUrl
  <2>2. ASSUME NEW stage, SetStage(n, s, stage),
               batches[n].stage[s] # "filed",
               UNCHANGED <<opened, futureReference, db>>
        PROVE  PictureInv'
    <3>1. Extends /\ FormsKnown'
      BY <2>2, StageStep
    <3>2. FiledWhereOpen' /\ PictureFiledOnce'
      BY <1>0, <2>2, <3>1, NothingFiled DEF PictureInv
    <3> QED
      BY <2>2, <3>1, <3>2 DEF PictureInv, CurrentIsLast
  <2> QED
    BY <1>4, <2>1, <2>2 DEF Callback, PutCompleted, UrlMissing
<1>5. ASSUME \/ \E answer \in Ratings \cup {"N/A"} :
                   DropDownOnNoPage(answer) \/ DropDownOnNAPage(answer)
             \/ \E r \in Reasons : ToggleReason(r)
             \/ \E s \in Slots, image \in Images : PickImage(s, image)
             \/ RestartApp \/ HomeButtonTapped \/ Back \/ UNCHANGED vars
      PROVE  UNCHANGED <<opened, batches, futureReference, db>>
  BY <1>5 DEF DropDownOnNoPage, DropDownOnNAPage, ToggleReason, PickImage,
              RestartApp, HomeButtonTapped, Back, vars
<1> QED
  BY <1>0, <1>1, <1>2, <1>3, <1>4, <1>5, PictureNext DEF Next

LEMMA PictureInit == Init => PictureInv
<1> SUFFICES ASSUME Init PROVE PictureInv
  OBVIOUS
<1>1. /\ futureReference = Nil /\ batches = <<>> /\ opened = <<>>
      /\ \A w \in WorkOrders : db[w] = NoOrder
  BY DEF Init
<1>2. \A p \in Pages : \A s \in Slots : NoOrder.pages[p].pics[s] = 0
  BY NodeFields DEF NoOrder, NoNode
<1> QED
  BY <1>1, <1>2 DEF PictureInv, CurrentIsLast, FormsKnown, FiledWhereOpen,
                    PictureFiledOnce

(* However long an upload takes, and whatever forms are opened meanwhile,  *)
(* a picture ends on the page and slot it was taken for, in the record of  *)
(* a form opened at its own form or after it.                              *)
THEOREM FiledForward == Spec => []FiledWhereOpen
<1>1. Init => TypeOK /\ PictureInv
  BY InitType, PictureInit
<1>2. TypeOK /\ PictureInv /\ [Next]_vars => (TypeOK /\ PictureInv)'
  BY TypeStep, PictureStep
<1>3. PictureInv => FiledWhereOpen
  BY DEF PictureInv
<1> QED
  BY <1>1, <1>2, <1>3, PTL DEF Spec

(* No URL callback writes the same picture into two records.               *)
THEOREM FiledOnce == Spec => []PictureFiledOnce
<1>1. Init => TypeOK /\ PictureInv
  BY InitType, PictureInit
<1>2. TypeOK /\ PictureInv /\ [Next]_vars => (TypeOK /\ PictureInv)'
  BY TypeStep, PictureStep
<1>3. PictureInv => PictureFiledOnce
  BY DEF PictureInv
<1> QED
  BY <1>1, <1>2, <1>3, PTL DEF Spec

----------------------------------------------------------------------------
(* The only cause of a misfiled picture.                                   *)

Pending(n) == \E s \in Slots : batches[n].stage[s] \in {"put", "url"}

(* Another work order is opened while a picture is still on its way.       *)
LeavesUploads ==
    futureReference' # futureReference /\ \E n \in DOMAIN batches : Pending(n)

(* Picture n was taken for a form of work order w.                         *)
TakenFor(n, w) == n \in DOMAIN batches /\ opened[batches[n].form] = w

PendingIsCurrent ==
    \A n \in DOMAIN batches : Pending(n) => TakenFor(n, futureReference)
FiledAtHome ==
    \A w \in WorkOrders, p \in Pages, s \in Slots :
        db[w].pages[p].pics[s] # 0 => TakenFor(db[w].pages[p].pics[s], w)
HomeInv == PendingIsCurrent /\ FiledAtHome

LEMMA TakenForStays ==
    ASSUME TypeOK, PictureInv, Extends, NEW n, NEW w, TakenFor(n, w)
    PROVE  n \in DOMAIN batches' /\ opened'[batches'[n].form] = w
<1>1. n \in DOMAIN batches /\ opened[batches[n].form] = w
  BY DEF TakenFor
<1>2. batches[n].form \in 1..Len(opened)
  BY <1>1 DEF PictureInv, FormsKnown
<1> QED
  BY <1>1, <1>2 DEF Extends

LEMMA HomeKeep ==
    ASSUME TypeOK, PictureInv, HomeInv, Extends, ~LeavesUploads,
           \A n \in DOMAIN batches' : Pending(n)' =>
              \/ n \in DOMAIN batches /\ Pending(n)
              \/ TakenFor(n, futureReference)',
           \A w \in WorkOrders, p \in Pages, s \in Slots :
              \/ db'[w].pages[p].pics[s] = 0
              \/ db'[w].pages[p].pics[s] = db[w].pages[p].pics[s]
              \/ TakenFor(db[w].pages[p].pics[s], w)'
    PROVE  HomeInv'
<1>1. ASSUME NEW n \in DOMAIN batches', Pending(n)'
      PROVE  TakenFor(n, futureReference)'
  <2>1. CASE n \in DOMAIN batches /\ Pending(n)
    <3>1. futureReference' = futureReference
      BY <2>1 DEF LeavesUploads
    <3>2. TakenFor(n, futureReference)
      BY <2>1 DEF HomeInv, PendingIsCurrent
    <3>3. n \in DOMAIN batches'
          /\ opened'[batches'[n].form] = futureReference
      BY <3>2, TakenForStays
    <3> QED
      BY <3>1, <3>3 DEF TakenFor
  <2> QED
    BY <1>1, <2>1
<1>2. ASSUME NEW w \in WorkOrders, NEW p \in Pages, NEW s \in Slots,
             db'[w].pages[p].pics[s] # 0
      PROVE  TakenFor(db[w].pages[p].pics[s], w)'
  <2>1. CASE db'[w].pages[p].pics[s] = db[w].pages[p].pics[s]
    <3> DEFINE n == db[w].pages[p].pics[s]
    <3>1. TakenFor(n, w)
      BY <1>2, <2>1 DEF HomeInv, FiledAtHome
    <3>2. db'[w].pages[p].pics[s] = n
      BY <2>1
    <3> HIDE DEF n
    <3>3. n \in DOMAIN batches' /\ opened'[batches'[n].form] = w
      BY <3>1, TakenForStays
    <3> QED
      BY <3>2, <3>3 DEF TakenFor
  <2> QED
    BY <1>2, <2>1
<1>3. PendingIsCurrent'
  BY <1>1 DEF PendingIsCurrent
<1>4. FiledAtHome'
  BY <1>2 DEF FiledAtHome
<1> QED
  BY <1>3, <1>4 DEF HomeInv

LEMMA HomeOpen ==
    ASSUME TypeOK, PictureInv, HomeInv, ~LeavesUploads,
           NEW w \in WorkOrders, NEW when \in Jobs, OpenForm(w, when)
    PROVE  HomeInv'
<1>1. /\ \A v \in WorkOrders :
            db'[v] = IF v = w THEN Header(when) ELSE db[v]
      /\ opened' = Append(opened, w) /\ batches' = batches
  BY OpenWrite
<1>2. /\ Len(opened) \in Nat /\ Len(opened') = Len(opened) + 1
      /\ \A f \in 1..Len(opened) : opened'[f] = opened[f]
  BY <1>1, AppendProperties DEF TypeOK
<1>3. Len(opened) <= Len(opened')
  BY <1>2
<1>4. Extends
  BY <1>1, <1>2, <1>3 DEF Extends
<1>5. \A n \in DOMAIN batches' :
         Pending(n)' => n \in DOMAIN batches /\ Pending(n)
  BY <1>1 DEF Pending
<1>6. \A p \in Pages : \A s \in Slots : Header(when).pages[p].pics[s] = 0
  <2>1. \A s \in Slots :
           Node("N/A", {}).pics[s] = 0 /\ NoNode.pics[s] = 0
    BY NodeFields DEF NoNode
  <2> QED
    BY <2>1, HeaderFields
<1>7. \A v \in WorkOrders, p \in Pages, s \in Slots :
         \/ db'[v].pages[p].pics[s] = 0
         \/ db'[v].pages[p].pics[s] = db[v].pages[p].pics[s]
  BY <1>1, <1>6
<1> QED
  BY <1>4, <1>5, <1>7, HomeKeep

LEMMA HomeNext ==
    ASSUME TypeOK, PictureInv, HomeInv, NextClick
    PROVE  HomeInv'
<1>1. UNCHANGED <<opened, futureReference>>
  BY DEF NextClick
<1>2. ~LeavesUploads
  BY <1>1 DEF LeavesUploads
<1>3. \A v \in WorkOrders, p \in Pages, s \in Slots :
         \/ db'[v].pages[p].pics[s] = 0
         \/ db'[v].pages[p].pics[s] = db[v].pages[p].pics[s]
  BY NextWrite, NodeFields
<1>4. futureReference # Nil
  BY DEF TypeOK, NextClick, Showing
<1>5. opened[Len(opened)] = futureReference
  BY <1>4 DEF PictureInv, CurrentIsLast
<1>6. CASE batches' = batches
  <2>1. Extends
    BY <1>1, <1>6, SameForms
  <2>2. \A n \in DOMAIN batches' :
           Pending(n)' => n \in DOMAIN batches /\ Pending(n)
    BY <1>6 DEF Pending
  <2> QED
    BY <1>2, <1>3, <2>1, <2>2, HomeKeep
<1>7. ASSUME NEW b, batches' = Append(batches, b), b.form = Len(opened)
      PROVE  HomeInv'
  <2>1. /\ DOMAIN batches = 1..Len(batches) /\ Len(batches) \in Nat
        /\ DOMAIN batches' = 1..(Len(batches) + 1)
        /\ batches'[Len(batches) + 1] = b
        /\ \A n \in DOMAIN batches : batches'[n] = batches[n]
    BY <1>7, AppendProperties DEF TypeOK
  <2>2. \A n \in DOMAIN batches : n \in DOMAIN batches'
    BY <2>1
  <2>3. Extends
    BY <1>1, <2>1, <2>2, FormsTyped DEF Extends
  <2>4. ASSUME NEW n \in DOMAIN batches', Pending(n)'
        PROVE  \/ n \in DOMAIN batches /\ Pending(n)
               \/ TakenFor(n, futureReference)'
    <3>1. CASE n \in DOMAIN batches
      BY <2>1, <2>4, <3>1 DEF Pending
    <3>2. CASE n \notin DOMAIN batches
      <4>1. n = Len(batches) + 1
        BY <2>1, <3>2
      <4>2. batches'[n].form = Len(opened)
        BY <1>7, <2>1, <4>1
      <4> QED
        BY <1>1, <1>5, <4>2 DEF TakenFor
    <3> QED
      BY <3>1, <3>2
  <2> QED
    BY <1>2, <1>3, <2>3, <2>4, HomeKeep
<1>8. \/ batches' = batches
      \/ \E b : batches' = Append(batches, b) /\ b.form = Len(opened)
  BY DEF NextClick, StartUploads
<1> QED
  BY <1>6, <1>7, <1>8

LEMMA HomeCallback ==
    ASSUME TypeOK, PictureInv, HomeInv, NEW n \in DOMAIN batches,
           NEW s \in Slots, Callback(n, s)
    PROVE  HomeInv'
<1>1. UNCHANGED <<opened, futureReference>>
  BY DEF Callback, PutCompleted, UrlReceived, UrlMissing
<1>2. ~LeavesUploads
  BY <1>1 DEF LeavesUploads
<1>3. PICK stage : SetStage(n, s, stage)
  BY DEF Callback, PutCompleted, UrlReceived, UrlMissing
<1>4. batches[n].stage[s] \in {"put", "url"}
  BY DEF Callback, PutCompleted, UrlReceived, UrlMissing
<1>5. Extends
  BY <1>1, <1>3, <1>4, StageStep
<1>6. Pending(n)
  BY <1>4 DEF Pending
<1>7. /\ DOMAIN batches' = DOMAIN batches
      /\ \A m \in DOMAIN batches : m # n => batches'[m] = batches[m]
  BY <1>3 DEF SetStage
<1>8. \A m \in DOMAIN batches' :
         Pending(m)' => m \in DOMAIN batches /\ Pending(m)
  BY <1>6, <1>7 DEF Pending
<1>9. \A v \in WorkOrders, p \in Pages, t \in Slots :
         \/ db'[v].pages[p].pics[t] = 0
         \/ db'[v].pages[p].pics[t] = db[v].pages[p].pics[t]
         \/ TakenFor(db[v].pages[p].pics[t], v)'
  <2>1. CASE db' = db
    BY <2>1
  <2>2. CASE UrlReceived(n, s)
    <3> SUFFICES ASSUME NEW v \in WorkOrders, NEW p \in Pages, NEW t \in Slots,
                        db'[v].pages[p].pics[t] # db[v].pages[p].pics[t]
                 PROVE  TakenFor(db[v].pages[p].pics[t], v)'
      OBVIOUS
    <3>1. v = futureReference /\ db'[v].pages[p].pics[t] = n
      BY <2>2, UrlWrite
    <3>2. TakenFor(n, v)
      BY <1>6, <3>1 DEF HomeInv, PendingIsCurrent
    <3>3. n \in DOMAIN batches' /\ opened'[batches'[n].form] = v
      BY <1>5, <3>2, TakenForStays
    <3> QED
      BY <3>1, <3>3 DEF TakenFor
  <2> QED
    BY <2>1, <2>2 DEF Callback, PutCompleted, UrlMissing
<1> QED
  BY <1>2, <1>5, <1>8, <1>9, HomeKeep

LEMMA HomeStep ==
    ASSUME TypeOK, PictureInv, HomeInv, [Next]_vars, ~LeavesUploads
    PROVE  HomeInv'
<1>1. ASSUME UNCHANGED <<opened, batches, futureReference>>,
             \A w \in WorkOrders : db'[w].pages = db[w].pages
      PROVE  HomeInv'
  <2>1. Extends
    BY <1>1, SameForms
  <2>2. \A n \in DOMAIN batches' :
           Pending(n)' => n \in DOMAIN batches /\ Pending(n)
    BY <1>1 DEF Pending
  <2> QED
    BY <1>1, <2>1, <2>2, HomeKeep
<1>2. ASSUME NEW w \in WorkOrders, AddDuringJob(w) \/ AddCompletedJob(w)
      PROVE  HomeInv'
  BY <1>2, HomeOpen DEF AddDuringJob, AddCompletedJob, Jobs
<1>3. ASSUME FinalClick PROVE HomeInv'
  <2>1. UNCHANGED <<opened, batches, futureReference>>
    BY <1>3 DEF FinalClick
  <2> QED
    BY <1>1, <1>3, <2>1, FinalWrite
<1>4. ASSUME \/ \E answer \in Ratings \cup {"N/A"} :
                   DropDownOnNoPage(answer) \/ DropDownOnNAPage(answer)
             \/ \E r \in Reasons : ToggleReason(r)
             \/ \E s \in Slots, image \in Images : PickImage(s, image)
             \/ RestartApp \/ HomeButtonTapped \/ Back \/ UNCHANGED vars
      PROVE  UNCHANGED <<opened, batches, futureReference, db>>
  BY <1>4 DEF DropDownOnNoPage, DropDownOnNAPage, ToggleReason, PickImage,
              RestartApp, HomeButtonTapped, Back, vars
<1> QED
  BY <1>1, <1>2, <1>3, <1>4, HomeNext, HomeCallback DEF Next

(* A late callback files a picture under another work order only if that   *)
(* one was opened while the upload was still on its way: when the          *)
(* inspector never does so, every picture found in a record was taken for  *)
(* a form of that work order.                                              *)
THEOREM PicturesStayAtHome ==
    Spec /\ [][~LeavesUploads]_vars => []FiledAtHome
<1>1. Init => TypeOK /\ PictureInv /\ HomeInv
  <2> SUFFICES ASSUME Init PROVE HomeInv
    BY InitType, PictureInit
  <2>1. batches = <<>> /\ \A w \in WorkOrders : db[w] = NoOrder
    BY DEF Init
  <2>2. \A p \in Pages : \A s \in Slots : NoOrder.pages[p].pics[s] = 0
    BY NodeFields DEF NoOrder, NoNode
  <2> QED
    BY <2>1, <2>2 DEF HomeInv, PendingIsCurrent, FiledAtHome
<1>2. TypeOK /\ PictureInv /\ HomeInv /\ [Next]_vars /\ [~LeavesUploads]_vars
         => (TypeOK /\ PictureInv /\ HomeInv)'
  <2> SUFFICES ASSUME TypeOK, PictureInv, HomeInv, [Next]_vars,
                      [~LeavesUploads]_vars
               PROVE  HomeInv'
    BY TypeStep, PictureStep
  <2>1. ~LeavesUploads
    BY DEF LeavesUploads, vars
  <2> QED
    BY <2>1, HomeStep
<1>3. HomeInv => FiledAtHome
  BY DEF HomeInv
<1> QED
  BY <1>1, <1>2, <1>3, PTL DEF Spec
=============================================================================
