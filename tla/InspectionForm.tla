--------------------------- MODULE InspectionForm ---------------------------
(***************************************************************************)
(* One device running the Work Order Inspection app: the home page and the *)
(* twelve question pages pushed over it, the public globals they share,    *)
(* the work orders they write to the Firebase database, and the picture    *)
(* uploads that are still on their way when the inspector has moved on.    *)
(*                                                                         *)
(* Steps of the inspector (a tap) and callbacks of Firebase Storage run on *)
(* the main queue one at a time, in any order; each is one action.  A page *)
(* a tap pushes is loaded (viewDidLoad) after the tap's handler returns    *)
(* and before the next event, so loading is part of the action.            *)
(***************************************************************************)
EXTENDS PageGraph

CONSTANTS
    WorkOrders,     \* the work order numbers the inspector types
    Ratings,        \* the ratings offered: "5" .. "1" in the code
    Reasons,        \* the reason check boxes that are used, numbered from 1
    Images,         \* the pictures picked: "jpeg", or "undecodable"
    MaxForms,       \* bound: forms opened from the home page
    MaxDepth,       \* bound: pages on the navigation stack
    MaxBatches,     \* bound: submissions that upload pictures
    MaxPicked,      \* bound: pictures picked
    MaxBacks        \* bound: taps on the Back button

Unanswered == {"", "--CHOOSE NOW--"}
Answers == Ratings \cup Unanswered \cup {"N/A"}
Jobs == {"During job", "Completed Job"}
Absent == "absent"  \* no such node in the database
Nil == "nil"        \* futureReference before the first form

ASSUME FormAssumption ==
    /\ Ratings \cap (Unanswered \cup {"N/A", Absent}) = {}
    /\ Reasons \subseteq 1..5
    /\ Images \subseteq {"jpeg", "undecodable"}  \* the latter: jpegData is nil
    /\ Nil \notin WorkOrders
    /\ {MaxForms, MaxDepth, MaxBatches, MaxPicked, MaxBacks} \subseteq Nat

VARIABLES
    stack,            \* the page instances above the home page
    answers,          \* dropDownValue, dropDownValueSecond, .., by page number
    futureReference,  \* the work order the pages write to
    alternatePage,    \* page four skips pages five and six
    alert,            \* "Form was submitted successfully!" is on screen
    db,               \* the work orders in the database
    batches,          \* per submission with pictures: its uploads, by slot
    opened,           \* history: the work order of each form opened so far
    picked,           \* history: pictures picked so far
    backs             \* history: taps on Back so far

vars == <<stack, answers, futureReference, alternatePage, alert, db, batches,
          opened, picked, backs>>

----------------------------------------------------------------------------
(* Page instances.  shown is the drop-down's text, next whether the Next   *)
(* button is enabled, ticked the check boxes, kept the reasons already in  *)
(* the instance's inputVals, pics the images picked per slot.  covered is  *)
(* history: another page has been pushed over the instance.                *)

Picks == {"empty"} \cup Images

Instance == [vc : LivePages, shown : Answers, next : BOOLEAN,
             ticked : SUBSET Reasons, kept : SUBSET Reasons,
             pics : [Slots -> Picks], covered : BOOLEAN]

Num(inst)  == Page[inst.vc].num
Kind(inst) == Page[inst.vc].kind
Top        == stack[Len(stack)]
Below      == SubSeq(stack, 1, Len(stack) - 1)

(* Defective variants of the two definitions below: any text enables Next; *)
(* the optional global is set to nil instead of "".                        *)
EnablesNextOnAnyText(answer) == answer # ""
ClearedToNil(vc, ans) ==
    [p \in Pages |-> IF p \in Page[vc].clears THEN Nil ELSE ans[p]]

(* setNext: Next is enabled when a rating is already there.                *)
EnablesNext(answer) == answer \in Ratings

(* viewDidLoad, on the globals and on the instance.                        *)
Cleared(vc, ans) ==
    [p \in Pages |-> IF p \in Page[vc].clears THEN "" ELSE ans[p]]

Fresh(vc, ans) ==
    LET shown == IF Page[vc].kind = "Final" THEN "" ELSE ans[Page[vc].num]
    IN  [vc      |-> vc,
         shown   |-> shown,
         next    |-> Page[vc].kind # "No" \/ EnablesNext(shown),
         ticked  |-> {},
         kept    |-> {},
         pics    |-> [s \in Slots |-> "empty"],
         covered |-> FALSE]

(* The stack and the globals once vc has been pushed over inst, the top as *)
(* its handler left it.                                                    *)
Push(vc, inst, ans) ==
    /\ Len(stack) < MaxDepth
    /\ stack' = Append(Append(Below, [inst EXCEPT !.covered = TRUE]),
                       Fresh(vc, Cleared(vc, ans)))
    /\ answers' = Cleared(vc, ans)

----------------------------------------------------------------------------
(* Work orders in the database.  A page node holds the answer, the reasons *)
(* and, per slot, the batch whose upload's URL it holds (0 for none).      *)

NoPics == [s \in Slots |-> 0]
Node(answer, reasons) ==
    [answer |-> answer, reasons |-> reasons, pics |-> NoPics]
NoNode == Node(Absent, {})
NoOrder == [when |-> "none", pages |-> [p \in Pages |-> NoNode],
            final |-> FALSE]

Nodes == [answer : Answers \cup {Absent}, reasons : SUBSET Reasons,
          pics : [Slots -> Nat]]
Orders == [when : Jobs \cup {"none"}, pages : [Pages -> Nodes],
           final : BOOLEAN]

Saved(order, p) == order.pages[p].answer # Absent

Stages == {"none", "put", "url", "filed", "failed"}
Batches == [page : Pages, form : Nat, stage : [Slots -> Stages]]

Init ==
    /\ stack = <<>>
    /\ answers = [p \in Pages |-> ""]
    /\ futureReference = Nil
    /\ alternatePage = FALSE
    /\ alert = FALSE
    /\ db = [w \in WorkOrders |-> NoOrder]
    /\ batches = <<>>
    /\ opened = <<>>
    /\ picked = 0
    /\ backs = 0

Idle == stack = <<>> /\ ~alert            \* the home page takes taps
Showing(kinds) ==                         \* a page of such a kind takes taps
    stack # <<>> /\ ~alert /\ Kind(Top) \in kinds

----------------------------------------------------------------------------
(* addCaseInfo with every field filled in: the record of the work order is *)
(* replaced by a new header, and the first page of its path is pushed.     *)

NotApplicablePages == {1, 5, 6}     \* what a completed job is not asked

Header(when) ==
    [NoOrder EXCEPT
        !.when = when,
        !.pages = [p \in Pages |->
            IF when = "Completed Job" /\ p \in NotApplicablePages
            THEN Node("N/A", {}) ELSE NoNode]]

OpenForm(w, when) ==
    /\ Idle
    /\ Len(opened) < MaxForms
    /\ futureReference' = w
    /\ db' = [db EXCEPT ![w] = Header(when)]
    /\ opened' = Append(opened, w)
    /\ UNCHANGED <<alert, batches, picked, backs>>

Enter(vc, ans) ==
    /\ stack' = <<Fresh(vc, Cleared(vc, ans))>>
    /\ answers' = Cleared(vc, ans)

AddDuringJob(w) ==
    /\ OpenForm(w, "During job")
    /\ Enter("firstNoPage", [answers EXCEPT ![1] = "--CHOOSE NOW--"])
    /\ UNCHANGED alternatePage

AddCompletedJob(w) ==
    /\ OpenForm(w, "Completed Job")
    /\ alternatePage' = TRUE
    /\ Enter("secondNoPage", answers)

----------------------------------------------------------------------------
(* The drop-down of a page: the global and the text take the selection.    *)
(* On a rating page "N/A" pushes the N/A page and a rating enables Next;   *)
(* on an N/A page a rating pushes a page and "N/A" does nothing more.      *)

Select(answer) ==
    /\ answers' = [answers EXCEPT ![Num(Top)] = answer]
    /\ stack' = Append(Below, [Top EXCEPT
                    !.shown = answer,
                    !.next = @ \/ EnablesNext(answer)])

SelectAndPush(answer) ==
    /\ Push(Page[Top.vc].onSelect,
            [Top EXCEPT !.shown = answer],
            [answers EXCEPT ![Num(Top)] = answer])

DropDownOnNoPage(answer) ==
    /\ Showing({"No"})
    /\ IF answer = "N/A" THEN SelectAndPush(answer) ELSE Select(answer)
    /\ UNCHANGED <<futureReference, alternatePage, alert, db, batches, opened,
                   picked, backs>>

DropDownOnNAPage(answer) ==
    /\ Showing({"NA"})
    /\ IF answer = "N/A" THEN Select(answer) ELSE SelectAndPush(answer)
    /\ UNCHANGED <<futureReference, alternatePage, alert, db, batches, opened,
                   picked, backs>>

(* A reason check box.                                                     *)
ToggleReason(r) ==
    /\ Showing({"No"})
    /\ r <= Submits[Top.vc].reasons
    /\ stack' = Append(Below, [Top EXCEPT
                    !.ticked = IF r \in @ THEN @ \ {r} ELSE @ \cup {r}])
    /\ UNCHANGED <<answers, futureReference, alternatePage, alert, db, batches,
                   opened, picked, backs>>

(* imagePickerController: the first free slot, or slot 1 when all are full. *)
FillsSlot(pics, s) ==
    IF \A t \in Slots : pics[t] # "empty"
    THEN s = 1
    ELSE pics[s] = "empty" /\ \A t \in Slots : t < s => pics[t] # "empty"

PickImage(s, image) ==
    /\ Showing({"No", "NA"})
    /\ picked < MaxPicked
    /\ FillsSlot(Top.pics, s)
    /\ stack' = Append(Below, [Top EXCEPT !.pics[s] = image])
    /\ picked' = picked + 1
    /\ UNCHANGED <<answers, futureReference, alternatePage, alert, db, batches,
                   opened, backs>>

----------------------------------------------------------------------------
(* The Next button of a question page.  inputVals gains the answer and the *)
(* ticked reasons (an unticked one is never taken out of it) and replaces  *)
(* the page's node; then the pictures are uploaded slot by slot, up to the *)
(* first one jpegData cannot encode, where the handler returns.            *)

Recorded(inst) ==
    IF Submits[inst.vc].answer = "global" THEN answers[Num(inst)] ELSE "N/A"

KeptReasons(inst) == inst.kept \cup inst.ticked

ReturnsEarly(inst) == \E s \in Slots : inst.pics[s] = "undecodable"

SentSlots(inst) ==
    {s \in Slots : /\ inst.pics[s] = "jpeg"
                   /\ \A t \in Slots : t < s => inst.pics[t] # "undecodable"}

StartUploads(inst) ==
    IF SentSlots(inst) = {}
    THEN UNCHANGED batches
    ELSE batches' = Append(batches,
            [page  |-> Submits[inst.vc].node,
             form  |-> Len(opened),
             stage |-> [s \in Slots |->
                          IF s \in SentSlots(inst) THEN "put" ELSE "none"]])

(* Defective variants of NextPage: the flag is not looked at; it is read   *)
(* the wrong way round; page three has page four's branch; the upload code *)
(* does not stop the handler; it stops the navigation of every page.       *)
NextPageWithoutFlag(inst) ==
    IF Num(inst) # 4 THEN Page[inst.vc].segue
    ELSE IF ReturnsEarly(inst) THEN "none" ELSE "fifthNoPage"
NextPageSwapped(inst) ==
    IF Num(inst) # 4 THEN Page[inst.vc].segue
    ELSE IF ReturnsEarly(inst) THEN "none"
    ELSE IF alternatePage THEN "fifthNoPage" ELSE "finalPage"
NextPageOnThree(inst) ==
    IF Num(inst) \notin {3, 4} THEN Page[inst.vc].segue
    ELSE IF alternatePage THEN "finalPage" ELSE "fifthNoPage"
NextPageAnyway(inst) ==
    IF Num(inst) # 4 THEN Page[inst.vc].segue
    ELSE IF alternatePage THEN "finalPage" ELSE "fifthNoPage"
NextPageStops(inst) ==
    IF ReturnsEarly(inst) THEN "none"
    ELSE IF Num(inst) # 4 THEN Page[inst.vc].segue
    ELSE IF alternatePage THEN "finalPage" ELSE "fifthNoPage"

(* What is pushed: the segue of the button, whatever the handler did; on   *)
(* page four the handler itself pushes, if it gets that far.               *)
NextPage(inst) ==
    IF Num(inst) # 4 THEN Page[inst.vc].segue
    ELSE IF ReturnsEarly(inst) THEN "none"
    ELSE IF alternatePage THEN "finalPage" ELSE "fifthNoPage"

SavedTop == [Top EXCEPT !.kept = KeptReasons(Top)]

NextClick ==
    /\ Showing({"No", "NA"})
    /\ Top.next
    /\ Len(batches) < MaxBatches \/ SentSlots(Top) = {}
    /\ db' = [db EXCEPT ![futureReference].pages[Submits[Top.vc].node] =
                  Node(Recorded(Top), KeptReasons(Top))]
    /\ StartUploads(Top)
    /\ IF NextPage(Top) = "none"
       THEN /\ stack' = Append(Below, SavedTop)
            /\ UNCHANGED answers
       ELSE Push(NextPage(Top), SavedTop, answers)
    /\ UNCHANGED <<futureReference, alternatePage, alert, opened, picked,
                   backs>>

(* The Next button of the final page: nextButtonClick and                  *)
(* nextButtonClicked are both connected to it.                             *)
FinalClick ==
    /\ Showing({"Final"})
    /\ db' = [db EXCEPT ![futureReference].final = TRUE]
    /\ alternatePage' = FALSE
    /\ alert' = TRUE
    /\ UNCHANGED <<stack, answers, futureReference, batches, opened, picked,
                   backs>>

(* Defective variant: OK only goes back one page.                          *)
RestartAppOnePage ==
    /\ alert
    /\ alert' = FALSE
    /\ stack' = Below
    /\ UNCHANGED <<answers, futureReference, alternatePage, db, batches,
                   opened, picked, backs>>

(* OK in the alert: restartApp.                                            *)
RestartApp ==
    /\ alert
    /\ alert' = FALSE
    /\ stack' = <<>>
    /\ UNCHANGED <<answers, futureReference, alternatePage, db, batches,
                   opened, picked, backs>>

(* The rewind button in the navigation bar: no global is touched.          *)
HomeButtonTapped ==
    /\ Showing({"No", "NA", "Final"})
    /\ stack' = <<>>
    /\ UNCHANGED <<answers, futureReference, alternatePage, alert, db, batches,
                   opened, picked, backs>>

(* The Back button in the navigation bar: the page below shows again as it *)
(* was left; neither viewDidLoad nor any global assignment runs.           *)
Back ==
    /\ Showing({"No", "NA", "Final"})
    /\ stack' = Below
    /\ backs < MaxBacks
    /\ backs' = backs + 1
    /\ UNCHANGED <<answers, futureReference, alternatePage, alert, db, batches,
                   opened, picked>>

----------------------------------------------------------------------------
(* Callbacks of Firebase Storage.  putData's completion asks for the       *)
(* download URL unless there was an error; downloadURL's completion writes *)
(* the URL under the futureReference of that moment, if there is a URL.    *)

SetStage(n, s, stage) ==
    batches' = [batches EXCEPT ![n].stage[s] = stage]

(* Defective variants: the work order is the first one opened; a completed *)
(* put is not followed up; a URL callback runs again; the URL replaces the *)
(* page's node and not its child "pic1", "pic2" or "pic3".                 *)
FilingOrderFirst(n) == opened[1]
PutCompletedOnly(n, s, err) ==
    /\ batches[n].stage[s] = "put"
    /\ SetStage(n, s, IF err THEN "failed" ELSE "none")
    /\ UNCHANGED <<stack, answers, futureReference, alternatePage, alert, db,
                   opened, picked, backs>>
UrlReceivedAgain(n, s) ==
    /\ batches[n].stage[s] \in {"url", "filed"}
    /\ SetStage(n, s, "filed")
    /\ db' = [db EXCEPT
                ![futureReference].pages[batches[n].page].pics[s] = n]
    /\ UNCHANGED <<stack, answers, futureReference, alternatePage, alert,
                   opened, picked, backs>>

FilingOrder(n) == futureReference

UrlReceivedWhole(n, s) ==
    /\ batches[n].stage[s] = "url"
    /\ SetStage(n, s, "filed")
    /\ db' = [db EXCEPT ![FilingOrder(n)].pages[batches[n].page] =
                  [NoNode EXCEPT !.pics[s] = n]]
    /\ UNCHANGED <<stack, answers, futureReference, alternatePage, alert,
                   opened, picked, backs>>

PutCompleted(n, s, err) ==
    /\ batches[n].stage[s] = "put"
    /\ SetStage(n, s, IF err THEN "failed" ELSE "url")
    /\ UNCHANGED <<stack, answers, futureReference, alternatePage, alert, db,
                   opened, picked, backs>>

UrlReceived(n, s) ==
    /\ batches[n].stage[s] = "url"
    /\ SetStage(n, s, "filed")
    /\ db' = [db EXCEPT
                ![FilingOrder(n)].pages[batches[n].page].pics[s] = n]
    /\ UNCHANGED <<stack, answers, futureReference, alternatePage, alert,
                   opened, picked, backs>>

UrlMissing(n, s) ==
    /\ batches[n].stage[s] = "url"
    /\ SetStage(n, s, "failed")
    /\ UNCHANGED <<stack, answers, futureReference, alternatePage, alert, db,
                   opened, picked, backs>>

Callback(n, s) ==
    \/ \E err \in BOOLEAN : PutCompleted(n, s, err)
    \/ UrlReceived(n, s)
    \/ UrlMissing(n, s)

Next ==
    \/ \E w \in WorkOrders : AddDuringJob(w)
    \/ \E w \in WorkOrders : AddCompletedJob(w)
    \/ \E answer \in Ratings \cup {"N/A"} : DropDownOnNoPage(answer)
    \/ \E answer \in Ratings \cup {"N/A"} : DropDownOnNAPage(answer)
    \/ \E r \in Reasons : ToggleReason(r)
    \/ \E s \in Slots, image \in Images : PickImage(s, image)
    \/ NextClick
    \/ FinalClick
    \/ RestartApp
    \/ HomeButtonTapped
    \/ Back
    \/ \E n \in DOMAIN batches, s \in Slots : Callback(n, s)

Spec == Init /\ [][Next]_vars

(* Storage calls every completion handler: a put retries until it succeeds *)
(* or its retry time runs out, and so does a URL request.  Nothing is      *)
(* assumed of the inspector.                                               *)
Fairness == \A n \in 1..MaxBatches : \A s \in Slots :
                WF_vars(n \in DOMAIN batches /\ Callback(n, s))

FairSpec == Spec /\ Fairness

----------------------------------------------------------------------------
TypeOK ==
    /\ stack \in Seq(Instance)
    /\ answers \in [Pages -> Answers]
    /\ futureReference \in WorkOrders \cup {Nil}
    /\ alternatePage \in BOOLEAN
    /\ alert \in BOOLEAN
    /\ db \in [WorkOrders -> Orders]
    /\ batches \in Seq(Batches)
    /\ opened \in Seq(WorkOrders)
    /\ picked \in Nat
    /\ backs \in Nat
    /\ futureReference = Nil => stack = <<>> /\ batches = <<>>

----------------------------------------------------------------------------
(* Safety.                                                                 *)

(* A rating page no other page has covered yet shows what its global       *)
(* holds, and Next is enabled exactly when that is a rating: its first     *)
(* submission records the rating the inspector sees, with the reasons      *)
(* ticked and no other.  (Page four may be submitted again without being   *)
(* covered, when a picture stopped the handler.)  The viewDidLoad and      *)
(* didSelect closures of the six rating pages keep the three in step.      *)
FreshPageInSync ==
    \A i \in DOMAIN stack :
        Kind(stack[i]) = "No" /\ ~stack[i].covered =>
            /\ stack[i].shown = answers[Num(stack[i])]
            /\ stack[i].next <=> stack[i].shown \in Ratings
            /\ stack[i].kept # {} => Num(stack[i]) = 4

(* Next records what the page shows, on rating pages and N/A pages alike,  *)
(* until another page has covered it; so a record holds an empty answer    *)
(* only after the inspector has gone back (the page shown again still has  *)
(* its rating and its Next button, but its global is cleared or changed).  *)
RecordsWhatIsShown ==
    /\ \A i \in DOMAIN stack :
          Kind(stack[i]) # "Final" /\ ~stack[i].covered /\ stack[i].next =>
              Recorded(stack[i]) = stack[i].shown
    /\ backs = 0 => \A w \in WorkOrders, p \in Pages :
          db[w].pages[p].answer \in Ratings \cup {"N/A", Absent}

(* While a page is on the stack, the globals of pages one to three before  *)
(* it are cleared; on the final page every global but the fifth is: a form *)
(* that is closed leaves nothing behind to prefill the next form with,     *)
(* except on page five (the ratings of a form that is abandoned do stay).  *)
EarlierAnswersCleared ==
    /\ \A i \in DOMAIN stack : \A p \in 1..3 :
            p < Num(stack[i]) => answers[p] = ""
    /\ \A i \in DOMAIN stack :
            Kind(stack[i]) = "Final" => \A p \in Pages \ {5} : answers[p] = ""

(* The record of a work order has no gap, whatever the inspector rewound,  *)
(* resumed or abandoned: a page is saved only if every page before it is,  *)
(* except that a completed job's header fills pages five and six; and a    *)
(* record is closed only with its first four pages saved.                  *)
RecordHasNoGaps ==
    \A w \in WorkOrders :
        /\ \A p \in Pages : Saved(db[w], p) =>
              \/ \A q \in Pages : q < p => Saved(db[w], q)
              \/ db[w].when = "Completed Job" /\ p \in NotApplicablePages
        /\ db[w].final => \A p \in 1..4 : Saved(db[w], p)

(* The pages a completed job is not asked about stay "N/A" in its record:  *)
(* neither the way through the pages nor a late callback answers them.     *)
CompletedJobKeepsNA ==
    \A w \in WorkOrders : db[w].when = "Completed Job" =>
        \A p \in NotApplicablePages : db[w].pages[p].answer = "N/A"

(* While a form is being filled in, a completed job has its flag raised,   *)
(* and the final page is reached past pages five and six only under that   *)
(* flag: without it the record already holds all six pages.                *)
ShortcutNeedsFlag ==
    stack # <<>> /\ ~alert =>
        /\ db[futureReference].when = "Completed Job" => alternatePage
        /\ Kind(Top) = "Final" /\ ~alternatePage =>
              \A p \in Pages : Saved(db[futureReference], p)

(* A picture found in a record was filed once, on the page and slot it was *)
(* submitted for, under a work order whose form was opened no earlier than *)
(* the form it was taken for: a late callback can misfile it forward, to a *)
(* form opened since, never back to an older one.                          *)
FiledWhereOpen ==
    \A w \in WorkOrders, p \in Pages, s \in Slots :
        LET n == db[w].pages[p].pics[s]
        IN  n # 0 => /\ n \in DOMAIN batches
                     /\ batches[n].page = p /\ batches[n].stage[s] = "filed"
                     /\ \E f \in batches[n].form..Len(opened) : opened[f] = w

(* No picture is in the records of two work orders.                        *)
PictureFiledOnce ==
    \A v, w \in WorkOrders, p \in Pages, s \in Slots :
        v # w /\ db[v].pages[p].pics[s] # 0 =>
            db[v].pages[p].pics[s] # db[w].pages[p].pics[s]

(* A picture jpegData cannot encode stops page four: until the inspector   *)
(* leaves the page backwards, only its drop-down can push another page.    *)
UndecodableStopsFour ==
    [][ stack # <<>> /\ Num(Top) = 4 /\ ReturnsEarly(Top)
          /\ Len(stack') > Len(stack)
        => stack'[Len(stack')].vc = Page[Top.vc].onSelect ]_vars

(* How a picture slot of a record may change.                              *)
OpensAgain(w) == futureReference' = w /\ opened' = Append(opened, w)

SubmitsAgain(w, p) ==
    /\ w = futureReference /\ ~db[w].final
    /\ stack # <<>> /\ ~alert /\ Num(Top) = p
    /\ db'[w].pages[p] = Node(Recorded(Top), KeptReasons(Top))

Arrives(n, w, p, s) ==
    /\ w = futureReference
    /\ n \in DOMAIN batches
    /\ batches[n].page = p /\ batches[n].stage[s] = "url"

(* A URL that was filed stays in its record until the work order is opened *)
(* again, until its page, on the screen, is submitted again while the      *)
(* record is not closed (Next replaces the page's node, and every picture  *)
(* in it is gone), or until a later callback of that page and slot writes  *)
(* another URL over it.  No callback of the other slot, of another page or *)
(* of a form opened before costs a record its picture, and nothing erases  *)
(* one from a closed record.                                               *)
PicturesStay ==
    [][ \A w \in WorkOrders, p \in Pages, s \in Slots :
            \/ db'[w].pages[p].pics[s] = db[w].pages[p].pics[s]
            \/ OpensAgain(w)
            \/ SubmitsAgain(w, p)
            \/ Arrives(db'[w].pages[p].pics[s], w, p, s) ]_vars

InStage(n, s, stages) == n \in DOMAIN batches /\ batches[n].stage[s] \in stages

(* Liveness: every upload that was started is filed or given up, even when *)
(* the inspector has left the page, closed the form or opened another.     *)
UploadsSettle ==
    \A n \in 1..MaxBatches : \A s \in Slots :
        InStage(n, s, {"put"}) ~> InStage(n, s, {"filed", "failed"})

(* What homePageController.swift:163 says: "choose a path based on the     *)
(* text in the job completed bar".  A form opened "During job" would reach *)
(* the final page with its six pages saved; the flag that an abandoned     *)
(* completed job leaves raised lets it skip pages five and six.            *)
PathFollowsJob ==
    stack # <<>> /\ Kind(Top) = "Final"
        /\ db[futureReference].when = "During job" =>
            \A p \in Pages : Saved(db[futureReference], p)
=============================================================================
