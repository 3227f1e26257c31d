------------------------ MODULE FormRefinementProofs ------------------------
(***************************************************************************)
(* InspectionForm implements Navigation and InspectionLedger, for every    *)
(* set of work orders, ratings and reasons and every value of the bounds.  *)
(***************************************************************************)
EXTENDS FormRefinement, FormRecordProofs

----------------------------------------------------------------------------
(* The way through the pages.                                              *)

(* The tables, as the instance of Navigation names them.                   *)
LEMMA SamePages ==
    /\ Nav!LivePages = LivePages
    /\ Nav!EntryPages = EntryPages
    /\ \A vc : Nav!LivePushes(vc) = LivePushes(vc)
<1>1. /\ Nav!FirstNoPage = FirstNoPage /\ Nav!FirstNAPage = FirstNAPage
      /\ Nav!SecondNoPage = SecondNoPage /\ Nav!SecondNAPage = SecondNAPage
      /\ Nav!ThirdNoPage = ThirdNoPage /\ Nav!ThirdNAPage = ThirdNAPage
      /\ Nav!FourthNoPage = FourthNoPage /\ Nav!FourthNAPage = FourthNAPage
      /\ Nav!FifthNoPage = FifthNoPage /\ Nav!FifthNAPage = FifthNAPage
      /\ Nav!SixthNoPage = SixthNoPage /\ Nav!SixthNAPage = SixthNAPage
      /\ Nav!FinalPage = FinalPage
  BY DEF Nav!Controller, Controller,
         Nav!FirstNoPage, FirstNoPage, Nav!FirstNAPage, FirstNAPage,
         Nav!SecondNoPage, SecondNoPage, Nav!SecondNAPage, SecondNAPage,
         Nav!ThirdNoPage, ThirdNoPage, Nav!ThirdNAPage, ThirdNAPage,
         Nav!FourthNoPage, FourthNoPage, Nav!FourthNAPage, FourthNAPage,
         Nav!FifthNoPage, FifthNoPage, Nav!FifthNAPage, FifthNAPage,
         Nav!SixthNoPage, SixthNoPage, Nav!SixthNAPage, SixthNAPage,
         Nav!FinalPage, FinalPage
<1>2. Nav!Page = Page
  BY <1>1 DEF Nav!Page, Page
<1>3. Nav!EntryPages = EntryPages /\ Nav!FourthTargets = FourthTargets
  BY DEF Nav!EntryPages, EntryPages, Nav!FourthTargets, FourthTargets
<1>4. \A vc : Nav!LivePushes(vc) = LivePushes(vc)
  BY <1>2, <1>3 DEF Nav!LivePushes, LivePushes
<1>5. Nav!LivePages = LivePages
  BY <1>2 DEF Nav!LivePages, LivePages
<1> QED
  BY <1>3, <1>4, <1>5

LEMMA ShownType ==
    ASSUME stack \in Seq(Instance)
    PROVE  /\ ShownPages \in Seq(LivePages)
           /\ Len(ShownPages) = Len(stack)
           /\ \A i \in 1..Len(stack) : ShownPages[i] = stack[i].vc
<1>1. Len(stack) \in Nat /\ DOMAIN stack = 1..Len(stack)
  OBVIOUS
<1>2. ASSUME NEW i \in 1..Len(stack) PROVE stack[i].vc \in LivePages
  <2>1. stack[i] \in Instance
    BY <1>1, ElementOfSeq
  <2> QED
    BY <2>1 DEF Instance
<1>3. ShownPages = [i \in 1..Len(stack) |-> stack[i].vc]
  BY <1>1 DEF ShownPages
<1> QED
  BY <1>1, <1>2, <1>3

LEMMA ShownTypePrime ==
    ASSUME stack' \in Seq(Instance)
    PROVE  /\ ShownPages' \in Seq(LivePages)
           /\ Len(ShownPages') = Len(stack')
           /\ \A i \in 1..Len(stack') : ShownPages'[i] = stack'[i].vc
<1>1. Len(stack') \in Nat /\ DOMAIN stack' = 1..Len(stack')
  OBVIOUS
<1>2. ASSUME NEW i \in 1..Len(stack') PROVE stack'[i].vc \in LivePages
  <2>1. stack'[i] \in Instance
    BY <1>1, ElementOfSeq
  <2> QED
    BY <2>1 DEF Instance
<1>3. ShownPages' = [i \in 1..Len(stack') |-> stack'[i].vc]
  BY <1>1 DEF ShownPages
<1> QED
  BY <1>1, <1>2, <1>3

LEMMA KeepShown ==
    ASSUME stack \in Seq(Instance), stack' \in Seq(Instance), KeepsPages
    PROVE  ShownPages' = ShownPages
<1>1. /\ Len(stack') = Len(stack) /\ Len(stack) \in Nat
      /\ DOMAIN stack = 1..Len(stack)
      /\ \A i \in DOMAIN stack : stack'[i].vc = stack[i].vc
  BY DEF KeepsPages
<1>2. /\ ShownPages \in Seq(LivePages) /\ ShownPages' \in Seq(LivePages)
      /\ Len(ShownPages') = Len(ShownPages)
      /\ \A i \in 1..Len(ShownPages') : ShownPages'[i] = ShownPages[i]
  BY <1>1, ShownType, ShownTypePrime
<1> QED
  BY <1>2, SeqEqual

LEMMA PopShown ==
    ASSUME stack \in Seq(Instance), stack' \in Seq(Instance), PopsTop
    PROVE  Nav!Pop
<1> DEFINE s == ShownPages
           t == SubSeq(s, 1, Len(s) - 1)
<1>1. s \in Seq(LivePages) /\ Len(s) = Len(stack) /\ Len(stack) \in Nat \ {0}
  BY ShownType DEF PopsTop
<1>2. s # <<>>
  BY <1>1
<1>3. /\ t \in Seq(LivePages) /\ Len(t) = Len(s) - 1
      /\ \A i \in 1..(Len(s) - 1) : t[i] = s[i]
  BY <1>1, <1>2, FrontProperties
<1>4. ASSUME NEW i \in 1..(Len(stack) - 1)
      PROVE  ShownPages'[i] = ShownPages[i]
  <2>1. i \in DOMAIN stack' /\ i \in 1..Len(stack') /\ i \in 1..Len(stack)
    BY <1>1 DEF PopsTop
  <2>2. stack'[i] = stack[i]
    BY <2>1 DEF PopsTop
  <2>3. ShownPages[i] = stack[i].vc /\ ShownPages'[i] = stack'[i].vc
    <3>1. ShownPages[i] = stack[i].vc
      BY <2>1, ShownType
    <3>2. ShownPages'[i] = stack'[i].vc
      BY <2>1, ShownTypePrime
    <3> QED
      BY <3>1, <3>2
  <2> QED
    BY <2>2, <2>3
<1>5. ShownPages' \in Seq(LivePages) /\ Len(ShownPages') = Len(stack) - 1
  BY ShownTypePrime DEF PopsTop
<1>6. ShownPages' = t
  <2>1. /\ Len(ShownPages') = Len(t)
        /\ \A i \in 1..Len(ShownPages') : ShownPages'[i] = t[i]
    BY <1>1, <1>3, <1>4, <1>5
  <2> HIDE DEF t
  <2> QED
    BY <1>3, <1>5, <2>1, SeqEqual
<1> QED
  BY <1>2, <1>6 DEF Nav!Pop

LEMMA PushShown ==
    ASSUME stack \in Seq(Instance), stack' \in Seq(Instance),
           NEW vc \in LivePages, PushesOver(vc), vc \in LivePushes(Top.vc),
           Len(stack) < MaxDepth
    PROVE  Nav!Push
<1> DEFINE s == ShownPages
           t == Append(s, vc)
<1>1. s \in Seq(LivePages) /\ Len(s) = Len(stack) /\ Len(stack) \in Nat \ {0}
      /\ s[Len(stack)] = Top.vc
  BY ShownType DEF PushesOver
<1>2. s # <<>>
  BY <1>1
<1>3. /\ t \in Seq(LivePages) /\ Len(t) = Len(s) + 1
      /\ \A i \in 1..Len(s) : t[i] = s[i]
      /\ t[Len(s) + 1] = vc
  BY <1>1, AppendProperties
<1>4. Fresh(vc, answers').vc = vc
  BY DEF Fresh
<1>5. /\ ShownPages' \in Seq(LivePages) /\ Len(ShownPages') = Len(stack) + 1
      /\ \A i \in 1..(Len(stack) - 1) : ShownPages'[i] = ShownPages[i]
      /\ ShownPages'[Len(stack)] = Top.vc
      /\ ShownPages'[Len(stack) + 1] = vc
  <2>1. /\ Len(stack') = Len(stack) + 1
        /\ \A i \in 1..(Len(stack) - 1) : stack'[i].vc = stack[i].vc
        /\ stack'[Len(stack)].vc = Top.vc /\ stack'[Len(stack) + 1].vc = vc
    BY <1>4 DEF PushesOver
  <2>2. /\ ShownPages' \in Seq(LivePages) /\ Len(ShownPages') = Len(stack')
        /\ \A i \in 1..Len(stack') : ShownPages'[i] = stack'[i].vc
    BY ShownTypePrime
  <2>3. \A i \in 1..Len(stack) : ShownPages[i] = stack[i].vc
    BY ShownType
  <2>4. /\ Len(stack) \in 1..(Len(stack) + 1)
        /\ Len(stack) + 1 \in 1..(Len(stack) + 1)
    BY <1>1
  <2>5. ASSUME NEW i \in 1..(Len(stack) - 1)
        PROVE  ShownPages'[i] = ShownPages[i]
    <3>1. i \in 1..Len(stack) /\ i \in 1..(Len(stack) + 1)
      BY <1>1
    <3>2. ShownPages'[i] = stack'[i].vc
      BY <2>1, <2>2, <3>1
    <3>3. stack'[i].vc = stack[i].vc
      BY <2>1
    <3> QED
      BY <2>3, <3>1, <3>2, <3>3
  <2>6. /\ ShownPages'[Len(stack)] = Top.vc
        /\ ShownPages'[Len(stack) + 1] = vc
    BY <2>1, <2>2, <2>4
  <2> QED
    BY <2>1, <2>2, <2>5, <2>6
<1>6. ShownPages' = t
  <2>1. ASSUME NEW i \in 1..Len(ShownPages') PROVE ShownPages'[i] = t[i]
    <3>1. \/ i \in 1..(Len(stack) - 1) \/ i = Len(stack)
          \/ i = Len(stack) + 1
      BY <1>1, <1>5
    <3> QED
      BY <1>1, <1>3, <1>5, <3>1
  <2>2. Len(ShownPages') = Len(t)
    BY <1>1, <1>3, <1>5
  <2> HIDE DEF t
  <2> QED
    BY <1>3, <1>5, <2>1, <2>2, SeqEqual
<1>7. Nav!Top = Top.vc /\ Top.vc \in LivePages
  BY <1>1, ShownType DEF Nav!Top
<1>8. vc \in Nav!Pushes(Nav!Top)
  BY <1>7, SamePages DEF Nav!Pushes
<1> QED
  BY <1>1, <1>2, <1>6, <1>8 DEF Nav!Push

(* A drop-down keeps the pages or pushes what its page may push.           *)
LEMMA SelectShown ==
    ASSUME TypeOK, TypeOK', NEW answer \in Ratings \cup {"N/A"},
           DropDownOnNoPage(answer) \/ DropDownOnNAPage(answer)
    PROVE  Nav!Push \/ UNCHANGED ShownPages
<1>1. stack \in Seq(Instance) /\ stack' \in Seq(Instance)
  BY DEF TypeOK
<1>2. /\ stack # <<>> /\ Top \in Instance
      /\ \/ KeepsPages
         \/ \E vc \in LivePages :
               PushesOver(vc) /\ vc = Page[Top.vc].onSelect
  BY SelectEffect
<1>3. CASE KeepsPages
  BY <1>1, <1>3, KeepShown
<1>4. ASSUME NEW vc \in LivePages, PushesOver(vc), vc = Page[Top.vc].onSelect
      PROVE  Nav!Push
  <2>1. Len(stack') # Len(stack)
    <3>1. Len(stack) \in Nat /\ Len(stack') = Len(stack) + 1
      BY <1>4 DEF PushesOver
    <3> QED
      BY <3>1
  <2>2. ~Select(answer)
    <3> DEFINE e == [Top EXCEPT !.shown = answer,
                                !.next = @ \/ EnablesNext(answer)]
    <3>1. answer \in Answers
      BY DEF Answers
    <3>2. e \in Instance
      BY <1>2, <3>1 DEF Instance
    <3>3. Select(answer) => stack' = Append(Below, e)
      BY DEF Select
    <3> HIDE DEF e
    <3> QED
      BY <1>1, <1>2, <2>1, <3>2, <3>3, ReplaceTop
  <2>3. Len(stack) < MaxDepth
    BY <2>2 DEF DropDownOnNoPage, DropDownOnNAPage, SelectAndPush, Push
  <2>4. vc \in LivePushes(Top.vc)
    <3>1. "none" \notin LivePages
      BY DEF LivePages, Page
    <3> QED
      BY <1>4, <3>1 DEF LivePushes
  <2> QED
    BY <1>1, <1>4, <2>3, <2>4, PushShown
<1> QED
  BY <1>2, <1>3, <1>4

(* So does the Next button: by its segue or, on page four, in code.        *)
LEMMA NextShown ==
    ASSUME TypeOK, TypeOK', NextClick
    PROVE  Nav!Push \/ UNCHANGED ShownPages
<1>1. /\ stack \in Seq(Instance) /\ stack' \in Seq(Instance)
      /\ answers \in [Pages -> Answers]
  BY DEF TypeOK
<1>2. /\ stack # <<>> /\ Top \in Instance
      /\ Kind(Top) \in {"No", "NA"} /\ Num(Top) = Page[Top.vc].num
      /\ NextPage(Top) \in LivePages \cup {"none"}
  BY <1>1, QuestionTop DEF NextClick
<1>3. SavedTop \in Instance /\ SavedTop.vc = Top.vc
      /\ SavedTop.covered = Top.covered
  BY <1>2 DEF SavedTop, KeptReasons, Instance
<1>4. CASE NextPage(Top) = "none"
  <2>1. stack' = Append(Below, SavedTop)
    BY <1>4 DEF NextClick
  <2>2. KeepsPages
    BY <1>1, <1>2, <1>3, <2>1, KeepMove
  <2> QED
    BY <1>1, <2>2, KeepShown
<1>5. CASE NextPage(Top) # "none"
  <2> DEFINE vc == NextPage(Top)
  <2>1. vc \in LivePages /\ Push(vc, SavedTop, answers)
    BY <1>2, <1>5 DEF NextClick
  <2>2. vc \in LivePushes(Top.vc)
    BY <1>2, <1>5 DEF NextPage, LivePushes, FourthTargets
  <2>3. Len(stack) < MaxDepth
    BY <2>1 DEF Push
  <2> HIDE DEF vc
  <2>4. PushesOver(vc)
    BY <1>1, <1>2, <1>3, <2>1, PushMove
  <2> QED
    BY <1>1, <2>1, <2>2, <2>3, <2>4, PushShown
<1> QED
  BY <1>4, <1>5

LEMMA EnterShown ==
    ASSUME TypeOK, stack = <<>>, NEW vc \in EntryPages,
           NEW ans \in [Pages -> Answers], Enter(vc, ans)
    PROVE  Nav!Open
<1>1. vc \in LivePages
  BY EntryFacts
<1>2. stack' = <<Fresh(vc, Cleared(vc, ans))>>
  BY DEF Enter
<1>3. Fresh(vc, Cleared(vc, ans)).vc = vc
  BY DEF Fresh
<1>4. ShownPages' = <<vc>>
  BY <1>2, <1>3 DEF ShownPages
<1>5. ShownPages = <<>>
  BY DEF ShownPages
<1> QED
  BY <1>4, <1>5, SamePages DEF Nav!Open

LEMMA HomeShown ==
    ASSUME stack' = <<>>
    PROVE  Nav!PopToRoot \/ UNCHANGED ShownPages
<1>1. ShownPages' = <<>>
  BY DEF ShownPages
<1> QED
  BY <1>1 DEF Nav!PopToRoot

LEMMA ShownStep ==
    ASSUME TypeOK, TypeOK', [Next]_vars
    PROVE  [Nav!Next]_(Nav!navVars)
<1>0. /\ stack \in Seq(Instance) /\ stack' \in Seq(Instance)
      /\ answers \in [Pages -> Answers]
  BY DEF TypeOK
<1>1. ASSUME NEW w \in WorkOrders, AddDuringJob(w) PROVE Nav!Open
  <2>1. [answers EXCEPT ![1] = "--CHOOSE NOW--"] \in [Pages -> Answers]
    BY <1>0 DEF Answers, Unanswered
  <2>2. "firstNoPage" \in EntryPages /\ stack = <<>>
    BY <1>1 DEF EntryPages, AddDuringJob, OpenForm, Idle
  <2> QED
    BY <1>1, <2>1, <2>2, EnterShown DEF AddDuringJob
<1>2. ASSUME NEW w \in WorkOrders, AddCompletedJob(w) PROVE Nav!Open
  <2>1. "secondNoPage" \in EntryPages /\ stack = <<>>
    BY <1>2 DEF EntryPages, AddCompletedJob, OpenForm, Idle
  <2> QED
    BY <1>0, <1>2, <2>1, EnterShown DEF AddCompletedJob
<1>3. ASSUME NEW answer \in Ratings \cup {"N/A"},
             DropDownOnNoPage(answer) \/ DropDownOnNAPage(answer)
      PROVE  Nav!Push \/ UNCHANGED ShownPages
  BY <1>3, SelectShown
<1>4. ASSUME \/ \E r \in Reasons : ToggleReason(r)
             \/ \E s \in Slots, image \in Images : PickImage(s, image)
      PROVE  UNCHANGED ShownPages
  BY <1>0, <1>4, TouchMove, KeepShown
<1>5. NextClick => Nav!Push \/ UNCHANGED ShownPages
  BY NextShown
<1>6. Back => Nav!Pop
  BY <1>0, BackMove, PopShown
<1>7. RestartApp \/ HomeButtonTapped => Nav!PopToRoot \/ UNCHANGED ShownPages
  BY HomeShown DEF RestartApp, HomeButtonTapped
<1>8. FinalClick \/ UNCHANGED vars => UNCHANGED ShownPages
  BY DEF FinalClick, vars, ShownPages
<1>9. ASSUME NEW n \in DOMAIN batches, NEW s \in Slots, Callback(n, s)
      PROVE  UNCHANGED ShownPages
  BY <1>9 DEF Callback, PutCompleted, UrlReceived, UrlMissing, ShownPages
<1> QED
  BY <1>1, <1>2, <1>3, <1>4, <1>5, <1>6, <1>7, <1>8, <1>9
     DEF Next, Nav!Next, Nav!navVars

(* Taps and callbacks move through the pages only as the push table of the *)
(* controllers allows: one push, one Back or the rewind at a time.         *)
THEOREM MovesAsTheTableAllows == Spec => ImplementsNavigation
<1>1. Init => TypeOK /\ Nav!Init
  <2>1. Init => stack = <<>>
    BY DEF Init
  <2>2. stack = <<>> => ShownPages = <<>>
    BY DEF ShownPages
  <2> QED
    BY <2>1, <2>2, InitType DEF Nav!Init
<1>2. TypeOK /\ [Next]_vars => TypeOK'
  BY TypeStep
<1>3. TypeOK /\ TypeOK' /\ [Next]_vars => [Nav!Next]_(Nav!navVars)
  BY ShownStep
<1> QED
  BY <1>1, <1>2, <1>3, PTL DEF Spec, ImplementsNavigation, Nav!Spec

----------------------------------------------------------------------------
(* What the abstract specification promises holds of the form.             *)

NavP == INSTANCE NavigationProofs WITH stack <- ShownPages

LEMMA SameTables ==
    /\ NavP!Page = Nav!Page /\ NavP!EntryPages = Nav!EntryPages
    /\ NavP!LivePages = Nav!LivePages /\ NavP!LegacyPushes = Nav!LegacyPushes
    /\ \A vc : NavP!LivePushes(vc) = Nav!LivePushes(vc)
<1>1. /\ Nav!FirstNoPage = NavP!FirstNoPage
      /\ Nav!FirstNAPage = NavP!FirstNAPage
      /\ Nav!SecondNoPage = NavP!SecondNoPage
      /\ Nav!SecondNAPage = NavP!SecondNAPage
      /\ Nav!ThirdNoPage = NavP!ThirdNoPage
      /\ Nav!ThirdNAPage = NavP!ThirdNAPage
      /\ Nav!FourthNoPage = NavP!FourthNoPage
      /\ Nav!FourthNAPage = NavP!FourthNAPage
      /\ Nav!FifthNoPage = NavP!FifthNoPage
      /\ Nav!FifthNAPage = NavP!FifthNAPage
      /\ Nav!SixthNoPage = NavP!SixthNoPage
      /\ Nav!SixthNAPage = NavP!SixthNAPage
      /\ Nav!FinalPage = NavP!FinalPage
  BY DEF Nav!Controller, NavP!Controller,
         Nav!FirstNoPage, NavP!FirstNoPage, Nav!FirstNAPage, NavP!FirstNAPage,
         Nav!SecondNoPage, NavP!SecondNoPage,
         Nav!SecondNAPage, NavP!SecondNAPage,
         Nav!ThirdNoPage, NavP!ThirdNoPage, Nav!ThirdNAPage, NavP!ThirdNAPage,
         Nav!FourthNoPage, NavP!FourthNoPage,
         Nav!FourthNAPage, NavP!FourthNAPage,
         Nav!FifthNoPage, NavP!FifthNoPage, Nav!FifthNAPage, NavP!FifthNAPage,
         Nav!SixthNoPage, NavP!SixthNoPage, Nav!SixthNAPage, NavP!SixthNAPage,
         Nav!FinalPage, NavP!FinalPage
<1>2. Nav!Page = NavP!Page
  BY <1>1 DEF Nav!Page, NavP!Page
<1>3. /\ Nav!EntryPages = NavP!EntryPages
      /\ Nav!FourthTargets = NavP!FourthTargets
  BY DEF Nav!EntryPages, NavP!EntryPages, Nav!FourthTargets,
         NavP!FourthTargets
<1>4. \A vc : Nav!LivePushes(vc) = NavP!LivePushes(vc)
  BY <1>2, <1>3 DEF Nav!LivePushes, NavP!LivePushes
<1>5. Nav!LivePages = NavP!LivePages
  BY <1>2 DEF Nav!LivePages, NavP!LivePages
<1>6. Nav!LegacyPushes = NavP!LegacyPushes
  BY DEF Nav!LegacyPushes, NavP!LegacyPushes,
         Nav!FirstBasePushes, NavP!FirstBasePushes,
         Nav!SecondBasePushes, NavP!SecondBasePushes,
         Nav!ThirdBasePushes, NavP!ThirdBasePushes,
         Nav!FourthBasePushes, NavP!FourthBasePushes,
         Nav!FifthBasePushes, NavP!FifthBasePushes,
         Nav!SixthBasePushes, NavP!SixthBasePushes,
         Nav!SecondYesPushes, NavP!SecondYesPushes,
         Nav!ThirdYesPushes, NavP!ThirdYesPushes,
         Nav!FourthYesPushes, NavP!FourthYesPushes,
         Nav!FifthYesPushes, NavP!FifthYesPushes,
         Nav!SixthYesPushes, NavP!SixthYesPushes
<1> QED
  BY <1>2, <1>3, <1>4, <1>5, <1>6

LEMMA SameNavigation ==
    /\ Nav!Init => NavP!Init
    /\ [Nav!Next]_(Nav!navVars) => [NavP!Next]_(NavP!navVars)
    /\ NavP!PagesInOrder => Nav!PagesInOrder
    /\ NavP!FinalOnTop => Nav!FinalOnTop
    /\ NavP!LegacyUnreachable => Nav!LegacyUnreachable
<1>1. Nav!Init => NavP!Init
  BY DEF Nav!Init, NavP!Init
<1>2. Nav!Top = NavP!Top
  BY DEF Nav!Top, NavP!Top
<1>3. \A vc : Nav!Pushes(vc) = NavP!Pushes(vc)
  BY SameTables DEF Nav!Pushes, NavP!Pushes
<1>4. /\ Nav!Open => NavP!Open
      /\ Nav!PopToRoot => NavP!PopToRoot
  BY SameTables DEF Nav!Open, NavP!Open, Nav!PopToRoot, NavP!PopToRoot
<1>8. Nav!Pop => NavP!Pop
  BY DEF Nav!Pop, NavP!Pop
<1>9. Nav!Push => NavP!Push
  <2> DEFINE old == Nav!Top
             S == Nav!Pushes(old)
  <2>1. NavP!Pushes(NavP!Top) = S
    BY <1>2, <1>3
  <2> HIDE DEF S
  <2> QED
    BY <2>1 DEF Nav!Push, NavP!Push, S
<1>5. [Nav!Next]_(Nav!navVars) => [NavP!Next]_(NavP!navVars)
  BY <1>4, <1>8, <1>9 DEF Nav!Next, NavP!Next, Nav!navVars, NavP!navVars
<1>6. \A i : Nav!NumAt(i) = NavP!NumAt(i)
  BY SameTables DEF Nav!NumAt, NavP!NumAt
<1>7. /\ NavP!PagesInOrder => Nav!PagesInOrder
      /\ NavP!FinalOnTop => Nav!FinalOnTop
      /\ NavP!LegacyUnreachable => Nav!LegacyUnreachable
  BY <1>6, SameTables
     DEF Nav!PagesInOrder, NavP!PagesInOrder, Nav!FinalOnTop,
         NavP!FinalOnTop, Nav!LegacyUnreachable, NavP!LegacyUnreachable
<1> QED
  BY <1>1, <1>5, <1>7

(* The pages of the running app, globals, drop-downs and uploads included, *)
(* are those of the navigation: no page 2, 3 or 4 is skipped on the way to *)
(* a later one, nothing is pushed over the final page, and no page of the  *)
(* earlier YES / NO / N/A flow is shown.                                   *)
THEOREM FormKeepsTheOrder ==
    Spec => [](Nav!PagesInOrder /\ Nav!FinalOnTop /\ Nav!LegacyUnreachable)
<1>0. MaxDepth \in Nat
  BY FormAssumption
<1>1. NavP!Spec => []NavP!PagesInOrder
  BY <1>0, NavP!NoPageSkipped, PTL
<1>2. NavP!Spec => []NavP!FinalOnTop
  BY <1>0, NavP!FinalPageIsLast, PTL
<1>3. NavP!Spec => []NavP!LegacyUnreachable
  BY <1>0, NavP!EarlierFlowIsDead, PTL
<1> QED
  BY <1>1, <1>2, <1>3, MovesAsTheTableAllows, SameNavigation, PTL
     DEF ImplementsNavigation, Nav!Spec, NavP!Spec

----------------------------------------------------------------------------
(* What the records tell.                                                  *)

(* A form that is closed is behind the alert until the inspector is home.  *)
ClosedUnderAlert == stack # <<>> /\ db[futureReference].final => alert

LEMMA ClosedStep ==
    ASSUME TypeOK, ClosedUnderAlert, [Next]_vars
    PROVE  ClosedUnderAlert'
<1>1. ASSUME NEW w \in WorkOrders, NEW when \in Jobs, OpenForm(w, when)
      PROVE  ClosedUnderAlert'
  <2>1. futureReference' = w /\ db'[w] = Header(when)
    BY <1>1, OpenWrite
  <2>2. ~Header(when).final
    BY HeaderFields
  <2> QED
    BY <2>1, <2>2 DEF ClosedUnderAlert
<1>2. ASSUME \E w \in WorkOrders : AddDuringJob(w) \/ AddCompletedJob(w)
      PROVE  ClosedUnderAlert'
  BY <1>1, <1>2 DEF AddDuringJob, AddCompletedJob, Jobs
<1>3. ASSUME NEW answer \in Ratings \cup {"N/A"},
             DropDownOnNoPage(answer) \/ DropDownOnNAPage(answer)
      PROVE  ClosedUnderAlert'
  <2>1. stack # <<>> /\ UNCHANGED <<db, futureReference, alert>>
    BY <1>3 DEF DropDownOnNoPage, DropDownOnNAPage, Showing
  <2> QED
    BY <2>1 DEF ClosedUnderAlert
<1>4. ASSUME \/ \E r \in Reasons : ToggleReason(r)
             \/ \E s \in Slots, image \in Images : PickImage(s, image)
             \/ Back
      PROVE  ClosedUnderAlert'
  <2>1. stack # <<>> /\ UNCHANGED <<db, futureReference, alert>>
    BY <1>4 DEF ToggleReason, PickImage, Back, Showing
  <2> QED
    BY <2>1 DEF ClosedUnderAlert
<1>5. ASSUME NextClick PROVE ClosedUnderAlert'
  <2>1. stack # <<>> /\ UNCHANGED <<futureReference, alert>>
    BY <1>5 DEF NextClick, Showing
  <2>2. db'[futureReference].final = db[futureReference].final
    BY <1>5, NextWrite
  <2> QED
    BY <2>1, <2>2 DEF ClosedUnderAlert
<1>6. FinalClick => ClosedUnderAlert'
  BY DEF FinalClick, ClosedUnderAlert
<1>7. RestartApp \/ HomeButtonTapped => ClosedUnderAlert'
  BY DEF RestartApp, HomeButtonTapped, ClosedUnderAlert
<1>8. ASSUME NEW n \in DOMAIN batches, NEW s \in Slots, Callback(n, s)
      PROVE  ClosedUnderAlert'
  <2>1. UNCHANGED <<stack, futureReference, alert>>
    BY <1>8 DEF Callback, PutCompleted, UrlReceived, UrlMissing
  <2>2. CASE UrlReceived(n, s)
    <3>1. db'[futureReference].final = db[futureReference].final
      BY <2>2, UrlWrite
    <3> QED
      BY <2>1, <3>1 DEF ClosedUnderAlert
  <2>3. CASE db' = db
    BY <2>1, <2>3 DEF ClosedUnderAlert
  <2> QED
    BY <1>8, <2>2, <2>3 DEF Callback, PutCompleted, UrlMissing
<1>9. UNCHANGED vars => ClosedUnderAlert'
  BY DEF vars, ClosedUnderAlert
<1> QED
  BY <1>2, <1>3, <1>4, <1>5, <1>6, <1>7, <1>8, <1>9 DEF Next

(* The pages a record holds.                                               *)
Held(order) == {p \in Pages : Saved(order, p)}

LEMMA LedgerRecords ==
    /\ Ledger_record = [w \in WorkOrders |->
          [exists |-> db[w].when # "none", pages |-> Held(db[w]),
           closed |-> db[w].final]]
    /\ Ledger_record' = [w \in WorkOrders |->
          [exists |-> db'[w].when # "none", pages |-> Held(db'[w]),
           closed |-> db'[w].final]]
    /\ Ledger!Pages = Pages
BY DEF Ledger_record, Held, Ledger!Pages, Pages

(* A step that changes nothing the ledger shows.                           *)
LEMMA LedgerStays ==
    ASSUME UNCHANGED futureReference,
           \A w \in WorkOrders :
              /\ db'[w].when = db[w].when /\ db'[w].final = db[w].final
              /\ \A p \in Pages :
                    db'[w].pages[p].answer = db[w].pages[p].answer
    PROVE  UNCHANGED Ledger!ledgerVars
<1>1. \A w \in WorkOrders : Held(db'[w]) = Held(db[w])
  BY DEF Held, Saved
<1>2. Ledger_record' = Ledger_record
  BY <1>1, LedgerRecords
<1> QED
  BY <1>2 DEF Ledger!ledgerVars

LEMMA LedgerOpen ==
    ASSUME TypeOK, NEW w \in WorkOrders, NEW when \in Jobs, OpenForm(w, when)
    PROVE  \E prefilled \in {{}, {1, 5, 6}} : Ledger!Open(w, prefilled)
<1>1. /\ \A v \in WorkOrders :
            db'[v] = IF v = w THEN Header(when) ELSE db[v]
      /\ futureReference' = w
  BY OpenWrite
<1>2. /\ Header(when).when = when /\ ~Header(when).final
      /\ \A p \in Pages : Header(when).pages[p] =
            IF when = "Completed Job" /\ p \in NotApplicablePages
            THEN Node("N/A", {}) ELSE NoNode
  BY HeaderFields
<1>3. /\ Node("N/A", {}).answer = "N/A" /\ NoNode.answer = Absent
      /\ "N/A" # Absent
  BY NodeFields DEF NoNode, Absent
<1>4. \A p \in Pages : Saved(Header(when), p) <=>
                          when = "Completed Job" /\ p \in NotApplicablePages
  BY <1>2, <1>3 DEF Saved
<1> DEFINE prefilled == Held(Header(when))
<1>5. prefilled \in {{}, {1, 5, 6}}
  <2>1. CASE when = "Completed Job"
    <3>1. prefilled = NotApplicablePages
      BY <1>4, <2>1, SomePages DEF Held
    <3> QED
      BY <3>1 DEF NotApplicablePages
  <2>2. CASE when # "Completed Job"
    <3>1. prefilled = {}
      BY <1>4, <2>2 DEF Held
    <3> QED
      BY <3>1
  <2> QED
    BY <2>1, <2>2
<1> HIDE DEF prefilled
<1>6. Header(when).when # "none" /\ Header(when).final = FALSE
  <2>1. Header(when).final \in BOOLEAN
    BY HeaderType DEF Orders
  <2> QED
    BY <1>2, <2>1 DEF Jobs
<1>7. Ledger_record' = [Ledger_record EXCEPT ![w] =
         [exists |-> TRUE, pages |-> prefilled, closed |-> FALSE]]
  BY <1>1, <1>6, LedgerRecords DEF prefilled
<1> QED
  BY <1>1, <1>5, <1>7 DEF Ledger!Open

(* A record with one field replaced.                                       *)
LEMMA RecordExcept ==
    ASSUME NEW e, NEW p, NEW c, NEW x
    PROVE  /\ [[exists |-> e, pages |-> p, closed |-> c] EXCEPT !.pages = x]
                = [exists |-> e, pages |-> x, closed |-> c]
           /\ [[exists |-> e, pages |-> p, closed |-> c] EXCEPT !.closed = x]
                = [exists |-> e, pages |-> p, closed |-> x]
OBVIOUS

(* One field of one record changes.                                        *)
LEMMA PagesChange ==
    ASSUME NEW D, NEW R, NEW S, NEW w \in D, NEW x,
           R = [v \in D |-> R[v]], S = [v \in D |-> S[v]],
           S[w] = [R[w] EXCEPT !.pages = x],
           \A v \in D : v # w => S[v] = R[v]
    PROVE  S = [R EXCEPT ![w].pages = x]
<1>1. S = [R EXCEPT ![w] = [R[w] EXCEPT !.pages = x]]
  OBVIOUS
<1> QED
  BY <1>1

LEMMA ClosedChange ==
    ASSUME NEW D, NEW R, NEW S, NEW w \in D, NEW x,
           R = [v \in D |-> R[v]], S = [v \in D |-> S[v]],
           S[w] = [R[w] EXCEPT !.closed = x],
           \A v \in D : v # w => S[v] = R[v]
    PROVE  S = [R EXCEPT ![w].closed = x]
<1>1. S = [R EXCEPT ![w] = [R[w] EXCEPT !.closed = x]]
  OBVIOUS
<1> QED
  BY <1>1

LEMMA LedgerSave ==
    ASSUME TypeOK, RecordInv, ClosedUnderAlert, NextClick
    PROVE  \E p \in Ledger!Pages : Ledger!Save(p)
<1> DEFINE n == Num(Top)
           w == futureReference
<1>1. /\ w \in WorkOrders /\ n \in Pages /\ Recorded(Top) # Absent
      /\ \A v \in WorkOrders :
            /\ db'[v].when = db[v].when /\ db'[v].final = db[v].final
            /\ \A p \in Pages : db'[v].pages[p] =
                  IF v = w /\ p = n
                  THEN Node(Recorded(Top), KeptReasons(Top))
                  ELSE db[v].pages[p]
  BY NextWrite
<1>2. stack # <<>> /\ ~alert /\ Kind(Top) \in {"No", "NA"}
      /\ futureReference' = futureReference
  BY DEF NextClick, Showing
<1>3. ~db[w].final
  BY <1>2 DEF ClosedUnderAlert
<1>4. \A q \in Pages : q < n => Saved(db[w], q)
  <2>1. Len(stack) \in DOMAIN stack /\ stack[Len(stack)] = Top
    BY <1>2, TopType DEF TypeOK
  <2> QED
    BY <1>2, <2>1 DEF RecordInv, PathInv, SavedBefore
<1>5. Node(Recorded(Top), KeptReasons(Top)).answer = Recorded(Top)
  BY NodeFields
<1> HIDE DEF n, w
<1>6. \A v \in WorkOrders :
         Held(db'[v]) = IF v = w THEN Held(db[v]) \cup {n} ELSE Held(db[v])
  BY <1>1, <1>5 DEF Held, Saved
<1>7. Ledger_record' = [Ledger_record EXCEPT ![w].pages = @ \cup {n}]
  <2>1. Ledger_record' = [v \in WorkOrders |->
          [exists |-> db[v].when # "none",
           pages  |-> IF v = w THEN Held(db[v]) \cup {n} ELSE Held(db[v]),
           closed |-> db[v].final]]
    BY <1>1, <1>6, LedgerRecords
  <2>2. Ledger_record[w] = [exists |-> db[w].when # "none",
                            pages |-> Held(db[w]), closed |-> db[w].final]
    BY <1>1, LedgerRecords
  <2>3. Ledger_record = [v \in WorkOrders |-> Ledger_record[v]]
        /\ Ledger_record' = [v \in WorkOrders |-> Ledger_record'[v]]
    BY LedgerRecords
  <2>4. Ledger_record'[w] = [Ledger_record[w] EXCEPT
                               !.pages = Ledger_record[w].pages \cup {n}]
    <3>1. Ledger_record'[w] =
            [exists |-> db[w].when # "none",
             pages |-> Ledger_record[w].pages \cup {n}, closed |-> db[w].final]
      BY <1>1, <2>1, <2>2
    <3> QED
      BY ONLY <3>1, <2>2, RecordExcept
  <2>5. \A v \in WorkOrders : v # w => Ledger_record'[v] = Ledger_record[v]
    BY <2>1, LedgerRecords
  <2>6. Ledger_record' = [Ledger_record EXCEPT
                            ![w].pages = Ledger_record[w].pages \cup {n}]
    BY ONLY <1>1, <2>3, <2>4, <2>5, PagesChange
  <2> QED
    BY <2>6
<1>8. w # Nil
  BY <1>1, FormAssumption
<1>9. /\ ~Ledger_record[w].closed
      /\ \A q \in Pages : q < n => q \in Ledger_record[w].pages
  BY <1>1, <1>3, <1>4, LedgerRecords DEF Held
<1>10. Ledger!Save(n)
  BY <1>2, <1>7, <1>8, <1>9, LedgerRecords DEF Ledger!Save, w
<1> QED
  BY <1>1, <1>10, LedgerRecords

LEMMA LedgerClose ==
    ASSUME TypeOK, RecordInv, RecordInv', ClosedUnderAlert, FinalClick
    PROVE  Ledger!Close
<1> DEFINE w == futureReference
<1>1. /\ w \in WorkOrders
      /\ \A v \in WorkOrders :
            /\ db'[v].when = db[v].when /\ db'[v].pages = db[v].pages
            /\ v # w => db'[v].final = db[v].final
  BY FinalWrite
<1>2. db'[w].final = TRUE /\ futureReference' = futureReference
  <2>1. db[w] \in Orders /\ db \in [WorkOrders -> Orders]
    BY <1>1 DEF TypeOK
  <2>2. db' = [db EXCEPT ![w].final = TRUE]
        /\ futureReference' = futureReference
    BY DEF FinalClick
  <2> QED
    BY <1>1, <2>1, <2>2 DEF Orders
<1>3. ~db[w].final
  BY DEF FinalClick, Showing, ClosedUnderAlert
<1> HIDE DEF w
<1>4. \A v \in WorkOrders : Held(db'[v]) = Held(db[v])
  BY <1>1 DEF Held, Saved
<1>5. 1..4 \subseteq Held(db[w])
  <2>1. \A p \in 1..4 : Saved(db'[w], p)
    BY <1>1, <1>2 DEF RecordInv, RecordHasNoGaps
  <2> QED
    BY <1>1, <1>4, <2>1, SomePages DEF Held
<1>6. Ledger_record' = [Ledger_record EXCEPT ![w].closed = TRUE]
  <2>1. Ledger_record' = [v \in WorkOrders |->
          [exists |-> db[v].when # "none", pages |-> Held(db[v]),
           closed |-> IF v = w THEN TRUE ELSE db[v].final]]
    BY <1>1, <1>2, <1>4, LedgerRecords
  <2>2. Ledger_record[w] = [exists |-> db[w].when # "none",
                            pages |-> Held(db[w]), closed |-> db[w].final]
    BY <1>1, LedgerRecords
  <2>3. Ledger_record = [v \in WorkOrders |-> Ledger_record[v]]
        /\ Ledger_record' = [v \in WorkOrders |-> Ledger_record'[v]]
    BY LedgerRecords
  <2>4. Ledger_record'[w] = [Ledger_record[w] EXCEPT !.closed = db'[w].final]
    <3>1. Ledger_record'[w] = [exists |-> db[w].when # "none",
                               pages |-> Held(db[w]), closed |-> db'[w].final]
      BY <1>1, <1>4, LedgerRecords
    <3> QED
      BY ONLY <3>1, <2>2, RecordExcept
  <2>5. \A v \in WorkOrders : v # w => Ledger_record'[v] = Ledger_record[v]
    BY <2>1, LedgerRecords
  <2>6. Ledger_record' = [Ledger_record EXCEPT ![w].closed = db'[w].final]
    BY ONLY <1>1, <2>3, <2>4, <2>5, ClosedChange
  <2> QED
    BY ONLY <2>6, <1>2
<1>7. w # Nil
  BY <1>1, FormAssumption
<1>8. ~Ledger_record[w].closed /\ 1..4 \subseteq Ledger_record[w].pages
  BY <1>1, <1>3, <1>5, LedgerRecords
<1> QED
  BY <1>2, <1>6, <1>7, <1>8 DEF Ledger!Close, w

LEMMA LedgerStep ==
    ASSUME TypeOK, RecordInv, RecordInv', ClosedUnderAlert, [Next]_vars
    PROVE  [Ledger!Next]_(Ledger!ledgerVars)
<1>1. ASSUME \E w \in WorkOrders : AddDuringJob(w) \/ AddCompletedJob(w)
      PROVE  Ledger!Next
  <2>1. PICK w \in WorkOrders : \E when \in Jobs : OpenForm(w, when)
    BY <1>1 DEF AddDuringJob, AddCompletedJob, Jobs
  <2> QED
    BY <2>1, LedgerOpen DEF Ledger!Next
<1>2. NextClick => Ledger!Next
  BY LedgerSave DEF Ledger!Next
<1>3. FinalClick => Ledger!Next
  BY LedgerClose DEF Ledger!Next
<1>4. ASSUME UNCHANGED <<db, futureReference>>
      PROVE  UNCHANGED Ledger!ledgerVars
  BY <1>4, LedgerStays
<1>5. ASSUME \/ \E answer \in Ratings \cup {"N/A"} :
                   DropDownOnNoPage(answer) \/ DropDownOnNAPage(answer)
             \/ \E r \in Reasons : ToggleReason(r)
             \/ \E s \in Slots, image \in Images : PickImage(s, image)
             \/ RestartApp \/ HomeButtonTapped \/ Back \/ UNCHANGED vars
      PROVE  UNCHANGED <<db, futureReference>>
  BY <1>5 DEF DropDownOnNoPage, DropDownOnNAPage, ToggleReason, PickImage,
              RestartApp, HomeButtonTapped, Back, vars
<1>6. ASSUME NEW n \in DOMAIN batches, NEW s \in Slots, Callback(n, s)
      PROVE  UNCHANGED Ledger!ledgerVars
  <2>1. CASE UrlReceived(n, s)
    <3>1. UNCHANGED futureReference
      BY <2>1 DEF UrlReceived
    <3> QED
      BY <2>1, <3>1, UrlWrite, LedgerStays
  <2>2. CASE UNCHANGED <<db, futureReference>>
    BY <1>4, <2>2
  <2> QED
    BY <1>6, <2>1, <2>2 DEF Callback, PutCompleted, UrlMissing
<1> QED
  BY <1>1, <1>2, <1>3, <1>4, <1>5, <1>6 DEF Next

LEMMA LedgerInit == Init => Ledger!Init /\ ClosedUnderAlert
<1> SUFFICES ASSUME Init PROVE Ledger!Init /\ ClosedUnderAlert
  OBVIOUS
<1>1. stack = <<>> /\ futureReference = Nil
      /\ \A w \in WorkOrders : db[w] = NoOrder
  BY DEF Init
<1>2. /\ NoOrder.when = "none" /\ NoOrder.final = FALSE
      /\ \A p \in Pages : NoOrder.pages[p].answer = Absent
  BY NodeFields DEF NoOrder, NoNode
<1>3. Held(NoOrder) = {}
  BY <1>2 DEF Held, Saved
<1>4. Ledger_record = [w \in WorkOrders |->
         [exists |-> FALSE, pages |-> {}, closed |-> FALSE]]
  BY <1>1, <1>2, <1>3, LedgerRecords
<1> QED
  BY <1>1, <1>4 DEF Ledger!Init, Ledger!NoRecord, ClosedUnderAlert

(* Whatever the inspector taps and whenever the uploads end, the records   *)
(* change only as the ledger allows: the pages of the open form in order,  *)
(* and nothing of a closed form until its work order is opened again.      *)
THEOREM RecordsFollowTheLedger == Spec => ImplementsLedger
<1>1. Init => Ledger!Init /\ ClosedUnderAlert
  BY LedgerInit
<1>2. TypeOK /\ ClosedUnderAlert /\ [Next]_vars => ClosedUnderAlert'
  BY ClosedStep
<1>3. TypeOK /\ RecordInv /\ RecordInv' /\ ClosedUnderAlert /\ [Next]_vars
         => [Ledger!Next]_(Ledger!ledgerVars)
  BY LedgerStep
<1> QED
  BY <1>1, <1>2, <1>3, RecordAlways, PTL
     DEF Spec, ImplementsLedger, Ledger!Spec

----------------------------------------------------------------------------
(* What of a closed record can still change.                               *)

SameButForUrls(w) ==
    /\ db'[w].when = db[w].when /\ db'[w].final = db[w].final
    /\ \A p \in Pages :
          /\ db'[w].pages[p].answer = db[w].pages[p].answer
          /\ db'[w].pages[p].reasons = db[w].pages[p].reasons
          /\ \A s \in Slots :
                \/ db'[w].pages[p].pics[s] = db[w].pages[p].pics[s]
                \/ Arrives(db'[w].pages[p].pics[s], w, p, s)

ClosedRecordStays ==
    \A w \in WorkOrders :
        db[w].final => OpensAgain(w) \/ SameButForUrls(w)

LEMMA ClosedRecordStep ==
    ASSUME TypeOK, ClosedUnderAlert, [Next]_vars
    PROVE  ClosedRecordStays
<1> SUFFICES ASSUME NEW w \in WorkOrders, db[w].final
             PROVE  OpensAgain(w) \/ SameButForUrls(w)
  BY DEF ClosedRecordStays
<1>1. db' = db => SameButForUrls(w)
  BY DEF SameButForUrls
<1>2. db'[w] = db[w] => SameButForUrls(w)
  BY DEF SameButForUrls
<1>3. ASSUME NEW v \in WorkOrders, AddDuringJob(v) \/ AddCompletedJob(v)
      PROVE  OpensAgain(w) \/ SameButForUrls(w)
  <2>1. PICK when \in Jobs : OpenForm(v, when)
    BY <1>3 DEF AddDuringJob, AddCompletedJob, Jobs
  <2>2. /\ db'[w] = IF w = v THEN Header(when) ELSE db[w]
        /\ futureReference' = v /\ opened' = Append(opened, v)
    BY <2>1, OpenWrite
  <2> QED
    BY <1>2, <2>2 DEF OpensAgain
<1>4. ASSUME NextClick PROVE SameButForUrls(w)
  <2>1. w # futureReference
    BY <1>4 DEF NextClick, Showing, ClosedUnderAlert
  <2>2. db'[w] = db[w]
    BY <1>4, <2>1 DEF NextClick, TypeOK
  <2> QED
    BY <1>2, <2>2
<1>5. ASSUME FinalClick PROVE SameButForUrls(w)
  <2>1. w # futureReference
    BY <1>5 DEF FinalClick, Showing, ClosedUnderAlert
  <2>2. db'[w] = db[w]
    BY <1>5, <2>1 DEF FinalClick, TypeOK
  <2> QED
    BY <1>2, <2>2
<1>6. ASSUME NEW n \in DOMAIN batches, NEW s \in Slots, Callback(n, s)
      PROVE  SameButForUrls(w)
  <2>1. CASE UrlReceived(n, s)
    <3>1. /\ db'[w].when = db[w].when /\ db'[w].final = db[w].final
          /\ \A p \in Pages :
                /\ db'[w].pages[p].answer = db[w].pages[p].answer
                /\ db'[w].pages[p].reasons = db[w].pages[p].reasons
                /\ \A t \in Slots : db'[w].pages[p].pics[t] =
                      IF w = futureReference /\ p = batches[n].page /\ t = s
                      THEN n ELSE db[w].pages[p].pics[t]
      <4>1. \A v \in WorkOrders :
               /\ db'[v].when = db[v].when /\ db'[v].final = db[v].final
               /\ \A p \in Pages :
                     /\ db'[v].pages[p].answer = db[v].pages[p].answer
                     /\ db'[v].pages[p].reasons = db[v].pages[p].reasons
                     /\ \A t \in Slots : db'[v].pages[p].pics[t] =
                           IF v = futureReference /\ p = batches[n].page
                                /\ t = s
                           THEN n ELSE db[v].pages[p].pics[t]
        BY <2>1, UrlWrite, ZenonT(60)
      <4> QED
        BY ONLY <4>1, w \in WorkOrders, Zenon
    <3>2. batches[n].stage[s] = "url"
      BY <2>1 DEF UrlReceived
    <3>3. ASSUME NEW p \in Pages, NEW t \in Slots
          PROVE  \/ db'[w].pages[p].pics[t] = db[w].pages[p].pics[t]
                 \/ Arrives(db'[w].pages[p].pics[t], w, p, t)
      <4>1. CASE w = futureReference /\ p = batches[n].page /\ t = s
        <5>1. Arrives(n, w, p, t)
          BY <3>2, <4>1 DEF Arrives
        <5>2. db'[w].pages[p].pics[t] = n
          BY <3>1, <4>1
        <5> QED
          BY <5>1, <5>2
      <4>2. CASE ~(w = futureReference /\ p = batches[n].page /\ t = s)
        BY <3>1, <4>2
      <4> QED
        BY <4>1, <4>2
    <3> QED
      BY <3>1, <3>3 DEF SameButForUrls
  <2>2. CASE db' = db
    BY <1>1, <2>2
  <2> QED
    BY <1>6, <2>1, <2>2 DEF Callback, PutCompleted, UrlMissing
<1>7. ASSUME \/ \E answer \in Ratings \cup {"N/A"} :
                   DropDownOnNoPage(answer) \/ DropDownOnNAPage(answer)
             \/ \E r \in Reasons : ToggleReason(r)
             \/ \E s \in Slots, image \in Images : PickImage(s, image)
             \/ RestartApp \/ HomeButtonTapped \/ Back \/ UNCHANGED vars
      PROVE  db' = db
  BY <1>7 DEF DropDownOnNoPage, DropDownOnNAPage, ToggleReason, PickImage,
              RestartApp, HomeButtonTapped, Back, vars
<1> QED
  BY <1>1, <1>3, <1>4, <1>5, <1>6, <1>7 DEF Next

(* Once the inspector has closed a form its record is final: until the     *)
(* same work order is opened again, no answer, no reason and no flag of it *)
(* changes; only the URL of a picture of that page and slot, still on its  *)
(* way at that moment, is added, and only until another form is opened.     *)
THEOREM ClosedRecordsStay == Spec => [][ClosedRecordStays]_vars
<1>1. Init => ClosedUnderAlert
  BY LedgerInit
<1>2. TypeOK /\ ClosedUnderAlert /\ [Next]_vars => ClosedUnderAlert'
  BY ClosedStep
<1>3. TypeOK /\ ClosedUnderAlert /\ [Next]_vars => ClosedRecordStays
  BY ClosedRecordStep
<1> QED
  BY <1>1, <1>2, <1>3, RecordAlways, PTL DEF Spec

----------------------------------------------------------------------------
(* How a picture leaves a record.                                          *)

(* PicturesStay, of one step.                                              *)
PicturesKept ==
    \A w \in WorkOrders, p \in Pages, s \in Slots :
        \/ db'[w].pages[p].pics[s] = db[w].pages[p].pics[s]
        \/ OpensAgain(w)
        \/ SubmitsAgain(w, p)
        \/ Arrives(db'[w].pages[p].pics[s], w, p, s)

LEMMA PicturesKeptStep ==
    ASSUME TypeOK, ClosedUnderAlert, [Next]_vars
    PROVE  PicturesKept
<1> SUFFICES ASSUME NEW w \in WorkOrders, NEW p \in Pages, NEW s \in Slots,
                    db'[w].pages[p].pics[s] # db[w].pages[p].pics[s]
             PROVE  \/ OpensAgain(w)
                    \/ SubmitsAgain(w, p)
                    \/ Arrives(db'[w].pages[p].pics[s], w, p, s)
  BY DEF PicturesKept
<1>1. ASSUME NEW v \in WorkOrders, AddDuringJob(v) \/ AddCompletedJob(v)
      PROVE  OpensAgain(w)
  <2>1. PICK when \in Jobs : OpenForm(v, when)
    BY <1>1 DEF AddDuringJob, AddCompletedJob, Jobs
  <2>2. /\ db'[w] = IF w = v THEN Header(when) ELSE db[w]
        /\ futureReference' = v /\ opened' = Append(opened, v)
    BY <2>1, OpenWrite
  <2>3. w = v
    BY <2>2
  <2> QED
    BY <2>2, <2>3 DEF OpensAgain
<1>2. ASSUME NextClick PROVE SubmitsAgain(w, p)
  <2>1. stack # <<>> /\ ~alert /\ ~db[futureReference].final
    BY <1>2 DEF NextClick, Showing, ClosedUnderAlert
  <2>2. \A v \in WorkOrders : \A q \in Pages : db'[v].pages[q] =
           IF v = futureReference /\ q = Num(Top)
           THEN Node(Recorded(Top), KeptReasons(Top)) ELSE db[v].pages[q]
    BY <1>2, NextWrite
  <2>3. w = futureReference /\ p = Num(Top)
    BY <2>2
  <2>4. db'[w].pages[p] = Node(Recorded(Top), KeptReasons(Top))
    BY <2>2, <2>3
  <2> QED
    BY <2>1, <2>3, <2>4 DEF SubmitsAgain
<1>3. FinalClick => FALSE
  BY FinalWrite
<1>4. ASSUME NEW n \in DOMAIN batches, NEW t \in Slots, Callback(n, t)
      PROVE  Arrives(db'[w].pages[p].pics[s], w, p, s)
  <2>1. UrlReceived(n, t)
    BY <1>4 DEF Callback, PutCompleted, UrlMissing
  <2>2. /\ w = futureReference /\ p = batches[n].page /\ s = t
        /\ db'[w].pages[p].pics[s] = n
    BY <2>1, UrlWrite
  <2>3. batches[n].stage[s] = "url"
    BY <2>1, <2>2 DEF UrlReceived
  <2>4. Arrives(n, w, p, s)
    BY <2>2, <2>3 DEF Arrives
  <2> QED
    BY <2>2, <2>4
<1>5. ASSUME \/ \E answer \in Ratings \cup {"N/A"} :
                   DropDownOnNoPage(answer) \/ DropDownOnNAPage(answer)
             \/ \E r \in Reasons : ToggleReason(r)
             \/ \E u \in Slots, image \in Images : PickImage(u, image)
             \/ RestartApp \/ HomeButtonTapped \/ Back \/ UNCHANGED vars
      PROVE  db' = db
  BY <1>5 DEF DropDownOnNoPage, DropDownOnNAPage, ToggleReason, PickImage,
              RestartApp, HomeButtonTapped, Back, vars
<1> QED
  BY <1>1, <1>2, <1>3, <1>4, <1>5 DEF Next

(* A URL filed in a record leaves it in three ways only: its work order is *)
(* opened again, its page is submitted again while the record is not       *)
(* closed, or another URL on its way for that very page and slot arrives.  *)
(* No other tap, and no callback of another slot or page, touches it.      *)
THEOREM PicturesAreKept == Spec => PicturesStay
<1>1. Init => ClosedUnderAlert
  BY LedgerInit
<1>2. TypeOK /\ ClosedUnderAlert /\ [Next]_vars => ClosedUnderAlert'
  BY ClosedStep
<1>3. TypeOK /\ ClosedUnderAlert /\ [Next]_vars => PicturesKept
  BY PicturesKeptStep
<1> QED
  BY <1>1, <1>2, <1>3, RecordAlways, PTL DEF Spec, PicturesStay, PicturesKept
=============================================================================
