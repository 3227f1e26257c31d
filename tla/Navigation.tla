----------------------------- MODULE Navigation -----------------------------
(***************************************************************************)
(* The navigation controller of the app: the stack of pages above the home *)
(* page, and nothing else.  It is what the pages, the drop-downs and the   *)
(* globals together must amount to: InspectionForm implements it.          *)
(***************************************************************************)
EXTENDS PageGraph

CONSTANT MaxDepth      \* bound: the longest stack explored

ASSUME DepthAssumption == MaxDepth \in Nat

VARIABLE stack         \* the pages above the home page; <<>> is home

navVars == stack

Scenes == LivePages \cup LegacyPages

Top == stack[Len(stack)]

Pushes(vc) == IF vc \in LivePages THEN LivePushes(vc) ELSE LegacyPushes[vc]

Init == stack = <<>>

(* addCaseInfo pushes the first page of one of the two paths.              *)
Open ==
    /\ stack = <<>>
    /\ \E vc \in EntryPages : stack' = <<vc>>

(* A drop-down closure, a segue or the code of page four pushes a page.    *)
Push ==
    /\ stack # <<>>
    /\ Len(stack) < MaxDepth
    /\ \E vc \in Pushes(Top) : stack' = Append(stack, vc)

(* The Back button of the navigation bar.                                  *)
Pop ==
    /\ stack # <<>>
    /\ stack' = SubSeq(stack, 1, Len(stack) - 1)

(* popToRootViewController: the rewind button, or OK on the final page.    *)
PopToRoot ==
    /\ stack # <<>>
    /\ stack' = <<>>

Next ==
    \/ Open
    \/ Push
    \/ Pop
    \/ PopToRoot

Spec == Init /\ [][Next]_navVars

----------------------------------------------------------------------------
(* Every identifier handed to instantiateViewController or to a segue is a *)
(* scene of the storyboard.                                                *)
TypeOK == stack \in Seq(Scenes)

(* No page of the earlier YES / NO / N/A flow is ever shown: what those    *)
(* classes write ("YES" in place of a rating) never reaches a record.      *)
LegacyUnreachable == \A i \in DOMAIN stack : stack[i] \in LivePages

NumAt(i) == Page[stack[i]].num

(* Whatever detour through N/A pages led to a page, each of the pages 2,   *)
(* 3 and 4 before it lies below it on the stack: no push skips one.        *)
(* (Page 1 is skipped by the path of a completed job, pages 5 and 6 by     *)
(* its way from page 4 to the final page.)                                 *)
PagesInOrder ==
    \A i \in DOMAIN stack : \A p \in 2..4 :
        p < NumAt(i) => \E j \in DOMAIN stack : j < i /\ NumAt(j) = p

(* The final page is only ever on top, and the final page itself offers no *)
(* way on: a form is closed once on its way through the pages.             *)
FinalOnTop == \A i \in DOMAIN stack : NumAt(i) = 7 => i = Len(stack)
=============================================================================
