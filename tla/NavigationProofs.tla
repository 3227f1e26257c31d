-------------------------- MODULE NavigationProofs --------------------------
(***************************************************************************)
(* Proofs about Navigation, for every bound on the stack.                  *)
(***************************************************************************)
EXTENDS Navigation, PageGraphProofs, TLAPS

(***************************************************************************)
(* The inductive invariant.  That only live pages are on the stack makes   *)
(* LivePushFacts apply to the top; that the page below every page p > 2 on *)
(* the stack, directly or not, is p - 1 is what a push hands on.           *)
(***************************************************************************)
LiveStack == stack \in Seq(LivePages)

NavInv == LiveStack /\ PagesInOrder /\ FinalOnTop

LEMMA NavInit == Init => NavInv
BY DEF Init, NavInv, LiveStack, PagesInOrder, FinalOnTop

LEMMA NavStep == NavInv /\ [Next]_navVars => NavInv'
<1> SUFFICES ASSUME NavInv, [Next]_navVars
             PROVE  NavInv'
  OBVIOUS
<1> USE DEF NavInv, LiveStack
<1>1. CASE Open
  <2>1. PICK vc \in EntryPages : stack' = <<vc>>
    BY <1>1 DEF Open
  <2>2. vc \in LivePages /\ Page[vc].num \in {1, 2}
    BY EntryFacts
  <2> QED
    BY <2>1, <2>2 DEF PagesInOrder, FinalOnTop, NumAt
<1>2. CASE Push
  <2>1. Top \in LivePages
    BY <1>2 DEF Push, Top
  <2>2. PICK vc \in LivePushes(Top) : stack' = Append(stack, vc)
    BY <1>2, <2>1 DEF Push, Pushes
  <2>3. /\ vc \in LivePages
        /\ Page[Top].num \in 1..6
        /\ Page[vc].num \in 1..7
        /\ Page[vc].num <= Page[Top].num + 1
             \/ (Page[Top].num = 4 /\ Page[vc].num = 7)
    BY <2>1, <2>2, LivePushFacts
  <2>4. /\ Len(stack) \in Nat \ {0}
        /\ Len(stack') = Len(stack) + 1
        /\ stack'[Len(stack) + 1] = vc
        /\ \A i \in DOMAIN stack : stack'[i] = stack[i]
        /\ stack[Len(stack)] = Top
    BY <1>2, <2>2 DEF Push, Top
  <2>5. LiveStack'
    BY <2>2, <2>3
  <2>6. PagesInOrder'
    <3> SUFFICES ASSUME NEW i \in DOMAIN stack', NEW p \in 2..4,
                        p < NumAt(i)'
                 PROVE  \E j \in DOMAIN stack' : j < i /\ NumAt(j)' = p
      BY DEF PagesInOrder
    <3>1. CASE i \in DOMAIN stack
      <4>1. PICK j \in DOMAIN stack : j < i /\ NumAt(j) = p
        BY <3>1, <2>4 DEF PagesInOrder, NumAt
      <4> QED
        BY <4>1, <2>4, <2>5 DEF NumAt
    <3>2. CASE i = Len(stack) + 1 /\ p < Page[Top].num
      <4>1. PICK j \in DOMAIN stack : j < Len(stack) /\ NumAt(j) = p
        BY <3>2, <2>4 DEF PagesInOrder, NumAt
      <4> QED
        BY <4>1, <3>2, <2>4, <2>5 DEF NumAt
    <3>3. CASE i = Len(stack) + 1 /\ ~(p < Page[Top].num)
      <4>1. p = Page[Top].num
        BY <3>3, <2>3, <2>4 DEF NumAt
      <4> QED
        BY <4>1, <3>3, <2>4, <2>5 DEF NumAt
    <3> QED
      BY <3>1, <3>2, <3>3, <2>4, <2>5
  <2>7. FinalOnTop'
    BY <2>3, <2>4, <2>5 DEF FinalOnTop, NumAt
  <2> QED
    BY <2>5, <2>6, <2>7
<1>3. CASE Pop
  <2>1. /\ stack' = SubSeq(stack, 1, Len(stack) - 1)
        /\ Len(stack) \in Nat \ {0}
    BY <1>3 DEF Pop
  <2>2. /\ LiveStack'
        /\ Len(stack') = Len(stack) - 1
        /\ \A i \in DOMAIN stack' : i \in DOMAIN stack /\ stack'[i] = stack[i]
    BY <2>1, FrontProperties
  <2>3. PagesInOrder'
    <3> SUFFICES ASSUME NEW i \in DOMAIN stack', NEW p \in 2..4,
                        p < NumAt(i)'
                 PROVE  \E j \in DOMAIN stack' : j < i /\ NumAt(j)' = p
      BY DEF PagesInOrder
    <3>1. PICK j \in DOMAIN stack : j < i /\ NumAt(j) = p
      BY <2>2 DEF PagesInOrder, NumAt
    <3>2. j \in DOMAIN stack'
      BY <3>1, <2>1, <2>2
    <3> QED
      BY <3>1, <3>2, <2>2 DEF NumAt
  <2>4. FinalOnTop'
    <3> SUFFICES ASSUME NEW i \in DOMAIN stack', NumAt(i)' = 7
                 PROVE  FALSE
      BY DEF FinalOnTop
    <3>1. i \in DOMAIN stack /\ NumAt(i) = 7
      BY <2>2 DEF NumAt
    <3>2. i = Len(stack)
      BY <3>1 DEF FinalOnTop
    <3>3. i \in 1..(Len(stack) - 1)
      BY <2>1, <2>2
    <3> QED
      BY <3>2, <3>3, <2>1
  <2> QED
    BY <2>2, <2>3, <2>4
<1>4. CASE PopToRoot
  BY <1>4 DEF PopToRoot, PagesInOrder, FinalOnTop
<1>5. CASE UNCHANGED navVars
  BY <1>5 DEF navVars, PagesInOrder, FinalOnTop, NumAt
<1> QED
  BY <1>1, <1>2, <1>3, <1>4, <1>5 DEF Next

LEMMA NavInvariance == Spec => []NavInv
<1>1. Init => NavInv
  BY NavInit
<1>2. NavInv /\ [Next]_navVars => NavInv'
  BY NavStep
<1> QED
  BY <1>1, <1>2, PTL DEF Spec

(* Every identifier that is ever pushed names a scene of the storyboard.   *)
THEOREM NavTypeOK == Spec => []TypeOK
<1>1. NavInv => TypeOK
  BY DEF NavInv, LiveStack, TypeOK, Scenes
<1> QED
  BY <1>1, NavInvariance, PTL

(* The classes of the earlier YES / NO / N/A flow are dead code: no tap    *)
(* ever brings one of them on screen, however deep the stack grows.        *)
THEOREM EarlierFlowIsDead == Spec => []LegacyUnreachable
<1>1. NavInv => LegacyUnreachable
  BY DEF NavInv, LiveStack, LegacyUnreachable
<1> QED
  BY <1>1, NavInvariance, PTL

(* No way through the pages, N/A detours included, skips page 2, 3 or 4.   *)
THEOREM NoPageSkipped == Spec => []PagesInOrder
<1>1. NavInv => PagesInOrder
  BY DEF NavInv
<1> QED
  BY <1>1, NavInvariance, PTL

(* Nothing is ever pushed over the final page.                             *)
THEOREM FinalPageIsLast == Spec => []FinalOnTop
<1>1. NavInv => FinalOnTop
  BY DEF NavInv
<1> QED
  BY <1>1, NavInvariance, PTL
=============================================================================
