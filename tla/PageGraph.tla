----------------------------- MODULE PageGraph -----------------------------
(***************************************************************************)
(* The view controllers of the Work Order Inspection app and the ways they *)
(* push one another.  A controller is named by its storyboard identifier;  *)
(* what its viewDidLoad and its drop-down closure do is a record, one per  *)
(* Swift class, so that two classes that look alike stay two definitions.  *)
(*                                                                         *)
(*   num       the question the page is about; 7 is the closing page       *)
(*   kind      "No" (rating page), "NA" (not-applicable page) or "Final"   *)
(*   clears    the dropDownValue... globals its viewDidLoad sets to ""     *)
(*   onSelect  the controller its drop-down closure pushes                 *)
(*   segue     the controller the Next button's storyboard segue pushes    *)
(***************************************************************************)
EXTENDS Integers, Sequences

Pages == 1..6          \* the six question pages, "firstPage" .. "sixthPage"
Slots == 1..3          \* the three picture slots of a page, "pic1" .. "pic3"

Controller(num, kind, clears, onSelect, segue) ==
    [num |-> num, kind |-> kind, clears |-> clears,
     onSelect |-> onSelect, segue |-> segue]

----------------------------------------------------------------------------
(* Defective variants: a reset left out, a segue that skips a page, one    *)
(* left over from the earlier flow, a mistyped identifier, a way on from   *)
(* the final page.  None is part of the model.                             *)
ThirdNoPageNoReset   == Controller(3, "No", {}, "thirdNAPage", "fourthNoPage")
SecondNAPageSkipping == Controller(2, "NA", {}, "secondNoPage", "fourthNoPage")
FifthNAPageLeftover  == Controller(5, "NA", {}, "fifthNoPage", "sixthBasePage")
FirstNAPageMistyped  == Controller(1, "NA", {}, "firstNoPage", "secondPage")
FinalPageWithSegue   == Controller(7, "Final", {4, 6}, "none", "firstNoPage")

----------------------------------------------------------------------------
(* Rating pages: drop-down ["N/A", "5", .., "1"]; "N/A" pushes onSelect.   *)

FirstNoPage  == Controller(1, "No", {},  "firstNAPage",  "secondNoPage")
SecondNoPage == Controller(2, "No", {1}, "secondNAPage", "thirdNoPage")
ThirdNoPage  == Controller(3, "No", {2}, "thirdNAPage",  "fourthNoPage")
FourthNoPage == Controller(4, "No", {3}, "fourthNAPage", "none")
FifthNoPage  == Controller(5, "No", {4}, "fifthNAPage",  "sixthNoPage")
SixthNoPage  == Controller(6, "No", {5}, "sixthNAPage",  "finalPage")

(* Not-applicable pages: any rating pushes onSelect.  sixthNAPage pushes   *)
(* fourthNoPage, not sixthNoPage (sixthNAPage.swift:77).                   *)

FirstNAPage  == Controller(1, "NA", {}, "firstNoPage",  "secondNoPage")
SecondNAPage == Controller(2, "NA", {}, "secondNoPage", "thirdNoPage")
ThirdNAPage  == Controller(3, "NA", {}, "thirdNoPage",  "fourthNoPage")
FourthNAPage == Controller(4, "NA", {}, "fourthNoPage", "none")
FifthNAPage  == Controller(5, "NA", {}, "fifthNoPage",  "sixthNoPage")
SixthNAPage  == Controller(6, "NA", {}, "fourthNoPage", "finalPage")

FinalPage == Controller(7, "Final", {4, 6}, "none", "none")

Page == [firstNoPage  |-> FirstNoPage,  firstNAPage  |-> FirstNAPage,
         secondNoPage |-> SecondNoPage, secondNAPage |-> SecondNAPage,
         thirdNoPage  |-> ThirdNoPage,  thirdNAPage  |-> ThirdNAPage,
         fourthNoPage |-> FourthNoPage, fourthNAPage |-> FourthNAPage,
         fifthNoPage  |-> FifthNoPage,  fifthNAPage  |-> FifthNAPage,
         sixthNoPage  |-> SixthNoPage,  sixthNAPage  |-> SixthNAPage,
         finalPage    |-> FinalPage]

LivePages == DOMAIN Page

(* The pages addCaseInfo pushes from the home page.                        *)
EntryPages == {"firstNoPage", "secondNoPage"}

(* The two pages the Next button of page four pushes in code.              *)
FourthTargets == {"fifthNoPage", "finalPage"}

(* Everything a live page can push.                                        *)
LivePushes(vc) ==
    ({Page[vc].onSelect, Page[vc].segue} \ {"none"})
        \cup (IF Page[vc].num = 4 THEN FourthTargets ELSE {})

----------------------------------------------------------------------------
(* What the Next button of a page writes:                                  *)
(*   node     the child of the work order it replaces                      *)
(*   answer   "global" (the page's dropDownValue...) or the constant "N/A" *)
(*   reasons  how many reason check boxes it copies into inputVals         *)
(* Each of them then uploads the selected pictures of slots 1, 2, 3.       *)

Submission(node, answer, reasons) ==
    [node |-> node, answer |-> answer, reasons |-> reasons]

(* Defective variant: the answer of the N/A page, copied with the rest.    *)
SecondNoConstant == Submission(2, "N/A", 3)

FirstNoSubmission  == Submission(1, "global", 3)
SecondNoSubmission == Submission(2, "global", 3)
ThirdNoSubmission  == Submission(3, "global", 5)
FourthNoSubmission == Submission(4, "global", 4)
FifthNoSubmission  == Submission(5, "global", 2)
SixthNoSubmission  == Submission(6, "global", 4)
FirstNASubmission  == Submission(1, "N/A", 0)
SecondNASubmission == Submission(2, "N/A", 0)
ThirdNASubmission  == Submission(3, "N/A", 0)
FourthNASubmission == Submission(4, "N/A", 0)
FifthNASubmission  == Submission(5, "N/A", 0)
SixthNASubmission  == Submission(6, "N/A", 0)

Submits ==
    [firstNoPage  |-> FirstNoSubmission,  firstNAPage  |-> FirstNASubmission,
     secondNoPage |-> SecondNoSubmission, secondNAPage |-> SecondNASubmission,
     thirdNoPage  |-> ThirdNoSubmission,  thirdNAPage  |-> ThirdNASubmission,
     fourthNoPage |-> FourthNoSubmission, fourthNAPage |-> FourthNASubmission,
     fifthNoPage  |-> FifthNoSubmission,  fifthNAPage  |-> FifthNASubmission,
     sixthNoPage  |-> SixthNoSubmission,  sixthNAPage  |-> SixthNASubmission]

QuestionPages == DOMAIN Submits

----------------------------------------------------------------------------
(* The earlier YES / NO / N/A flow, whose classes are still in the target: *)
(* the controllers each of them pushes (drop-down closure and segue).      *)

FirstBasePushes  == {"firstNAPage", "firstNoPage"}
SecondBasePushes == {"secondYesPage", "secondNoPage", "secondNAPage"}
ThirdBasePushes  == {"thirdYesPage", "thirdNoPage", "thirdNAPage"}
FourthBasePushes == {"fourthYesPage", "fourthNoPage", "fourthNAPage"}
FifthBasePushes  == {"fifthYesPage", "fifthNoPage", "fifthNAPage"}
SixthBasePushes  == {"sixthYesPage", "sixthNoPage", "sixthNAPage"}
SecondYesPushes  == {"secondNoPage", "secondNAPage", "thirdBasePage"}
ThirdYesPushes   == {"thirdNoPage", "thirdNAPage", "fourthBasePage"}
FourthYesPushes  == {"fourthNoPage", "fourthNAPage", "fifthBasePage"}
FifthYesPushes   == {"fifthNoPage", "fifthNAPage", "sixthBasePage"}
SixthYesPushes   == {"sixthNoPage", "sixthNAPage"}

LegacyPushes ==
    [firstBasePage  |-> FirstBasePushes,  secondBasePage |-> SecondBasePushes,
     thirdBasePage  |-> ThirdBasePushes,  fourthBasePage |-> FourthBasePushes,
     fifthBasePage  |-> FifthBasePushes,  sixthBasePage  |-> SixthBasePushes,
     secondYesPage  |-> SecondYesPushes,  thirdYesPage   |-> ThirdYesPushes,
     fourthYesPage  |-> FourthYesPushes,  fifthYesPage   |-> FifthYesPushes,
     sixthYesPage   |-> SixthYesPushes]

LegacyPages == DOMAIN LegacyPushes
=============================================================================
