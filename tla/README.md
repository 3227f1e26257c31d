# Work Order Inspections (WOI): a TLA+ model of the app

WOI is an iOS app (Swift, UIKit, Firebase). An inspector opens a form for a
work order on the home page, goes through up to six question pages, closes the
form on a final page, and every page writes its answer to the Firebase Realtime
Database and its pictures to Firebase Storage. This directory models that
program: what is on the navigation stack, what the pages share, what is in the
database, which uploads are still on their way, and what becomes of a write
between `setValue` and its completion.

Paths below are relative to `src/WOI/WOI/`, those that start with `Pods/` to
`src/WOI/`.

## 1. Inventory

### Components

| component | files | state it keeps | operations |
|---|---|---|---|
| Home page | `Controllers/homePageController.swift` | four text fields, `currentTextField`, one shared picker, `inputVals`; the globals `futureReference`, `alternatePage` | `textFieldDidBeginEditing`, picker callbacks, `addCaseInfo` (guarded by `moveOn`) |
| Rating pages 1..6 | `Controllers/*NoPage.swift` | per instance: `inputVals`, check box flags, `imageSelected`, image views, drop-down text, Next enabled; one global `dropDownValue…` per page | `viewDidLoad`, `setNext`, drop-down closure, check boxes, `imagePickerController`, `nextButtonClick`, `homeButtonTapped`, two Storage completions |
| N/A pages 1..6 | `Controllers/*NAPage.swift` | the same without check boxes; Next always enabled | the same |
| Final page | `Controllers/finalPage.swift` | `inputVals`, the alert | `viewDidLoad`, `nextButtonClick` and `nextButtonClicked` (both on one button), `restartApp`, `homeButtonTapped` |
| Navigation | UIKit, `Base.lproj/Main.storyboard` | the stack of page instances | push (code or segue), Back, `popToRootViewController` |
| Earlier flow | `Model/*BasePage.swift`, `Model/*YesPage.swift` | none shared | pushes only; its Next handlers write nothing |
| Database client: connection | `Pods/FirebaseDatabase/…/FPersistentConnection.m`, `FConnection.m`, `FIRRetryHelper.m`, `FAuthTokenProvider.m` | `connectionState`, `interruptReasons`, the scheduled retry, the token fetch, `authToken`, `forceAuthTokenRefresh`, callbacks of auth requests | open, interrupt, resume, retry, token callbacks, handshake, auth answers, loss, kill |
| Database client: writes | `FRepo.m`, `FWriteTree.m`, `FPersistentConnection.m` | pending writes, `outstandingPuts`, `putsToAck`, `unackedListensCount`, `requestCBHash` | `setValue`, `restoreState`, answers, `purgeOutstandingWrites`, listen, unlisten |
| Storage client | `Pods/FirebaseStorage` | upload and URL tasks | `putData`, `downloadURL`, retries |
| Drop-down | `Pods/iOSDropDown` | option list, selection | `didSelect` closure |

### Interactions

* Pages talk to one another through **public globals**, not through the push:
  the page a tap pushes reads its own `dropDownValue…` and clears that of the
  page before it, in `viewDidLoad`.
* `futureReference` names the work order for every write of every page, and
  for the **callbacks of uploads** started long before.
* `alternatePage` is raised on the home page, read on page four and lowered on
  the final page.
* Page four pushes its successor in code, at the end of `nextButtonClick`; the
  other pages have a storyboard segue on the same button, which fires whatever
  the handler does.
* Everything above runs on the main queue. Concurrency is the order in which
  taps and Storage completions reach that queue.
* `setValue` hands each write to the database client, which has a serial queue
  of its own: timers, token callbacks, socket events, server messages and API
  calls reach it in any order. `FRepo` numbers the write and keeps it pending;
  `FPersistentConnection` numbers the put in step, keeps it outstanding until
  it is answered, and sends it again on every new session. The answer runs
  `FRepo`'s callback, which removes the pending write and calls the completion.

### What is hard, and what makes each part correct

* *Navigation*: thirteen classes written by copying one another, each with its
  own identifiers. Correct: no page is skipped, nothing reaches the earlier
  flow, the final page is a dead end.
* *Shared answers*: set by one instance, cleared by another, kept over rewinds.
  Correct: what a fresh page shows, what it enables and what it records agree;
  a closed form leaves nothing behind that prefills the next.
* *Records*: opened, re-opened, resumed, abandoned and closed in any order.
  Correct: no gaps, a closed form is complete, a closed record changes only by
  opening its work order again.
* *The path*: correct if the pages asked match the job of the record.
* *Uploads*: in flight over page changes, form changes and re-submissions.
  Correct: each is filed once, where and when it may be; each one ends.
* *Writes*: a put is sent again after every loss of the connection, also if the
  server has stored it already; the process may be killed at any time and keeps
  nothing. Correct: what was acknowledged is never rewound, the last write wins,
  each outstanding put is sent once per session, each completion runs once and
  (without listens) in order.
* *The connection*: attempts hang on a chain of a timer, a token, a handshake
  and an auth answer, each of which may fail, be late or be cancelled. Correct:
  it is never stranded, never opened while interrupted, never opened twice.
* *Failures*: a picture that cannot be encoded, an upload or URL request that
  fails, a form that is abandoned.

`PROJECT.json` lists the hazards with their lines.

## 2. Modules

| module | what it is |
|---|---|
| `PageGraph` | the controllers: for each class one record of what its `viewDidLoad` clears, what its drop-down pushes, what its segue pushes, and one record of what its Next writes |
| `Navigation` | abstract specification: the stack of controllers and nothing else |
| `InspectionForm` | the core: stack of page instances, globals, database, uploads; one action per handler and callback |
| `InspectionLedger` | abstract specification: the records of work orders and when they may change |
| `FormRefinement` | `InspectionForm` implements both abstract specifications |
| `PersistentConnection` | the connection of the database client |
| `WriteQueue` | extends it by the writes: pending, outstanding, on the wire, at the server; restart of the process |
| `SettledWrites` | abstract specification: what `setValue` promises its caller, without connection, queue or restart |
| `QueueRefinement` | `WriteQueue` implements it |
| `MCForm`, `MCQueue` | instances for TLC |
| `PageGraphProofs`, `NavigationProofs` | facts about the tables; theorems about `Navigation` |
| `FormProofs`, `FormRecordProofs` | theorems about `InspectionForm`: its types, pages and globals; records and pictures |
| `FormRefinementProofs` | the two refinements of `FormRefinement`, and what they carry over to the form |
| `ConnectionProofs` | theorems about `PersistentConnection` |
| `WriteQueueProofs` | theorems about `WriteQueue`, and that it implements `SettledWrites` |
| `QueueOutcomeProofs` | theorems about what becomes of a write: what the caller is told, and what it takes for that to go wrong |

The two halves meet at `setValue`. In `InspectionForm` it takes effect in `db`
at once, which is what the device sees; `WriteQueue` is about when and in which
order the server and the completions see it. They are not composed: the form
passes no completion and reads nothing back, so the product of the two would
have no behaviour that the halves do not have.

### Correspondence of `InspectionForm` to the code

| variable | code |
|---|---|
| `stack` | `navigationController.viewControllers` above the home page; an instance holds the drop-down's text (`shown`), `nextButton.isEnabled` (`next`), the `…ButtonClick` flags (`ticked`), the reasons in `inputVals` (`kept`), `imageSelected` with the images (`pics`) |
| `answers` | `dropDownValue`, `dropDownValueSecond`, … `dropDownValueSixth` |
| `futureReference`, `alternatePage` | the globals of `homePageController.swift` |
| `alert` | the alert of `nextButtonClicked` is on screen |
| `db` | the children of the database root: header, six page nodes, final page |
| `batches` | the `putData` / `downloadURL` chains started by one submission, per slot |
| `opened`, `picked`, `backs`, `covered` | history: used by properties and by the bounds, read by no guard that models code |

| action | handler |
|---|---|
| `AddDuringJob`, `AddCompletedJob` | `addCaseInfo` once `moveOn` has found the four fields filled in (otherwise it shows an alert and nothing changes) |
| `DropDownOnNoPage`, `DropDownOnNAPage` | the `dropDown.didSelect` closures |
| `ToggleReason` | `firstButtonPressed` … `fifthButtonPressed` |
| `PickImage` | `imagePickerController(_:didFinishPickingMediaWithInfo:)` |
| `NextClick` | `nextButtonClick` of the twelve question pages together with the segue of the button |
| `FinalClick`, `RestartApp` | `nextButtonClick` and `nextButtonClicked`; `restartApp` |
| `HomeButtonTapped`, `Back` | the rewind button; UIKit's Back button |
| `PutCompleted`, `UrlReceived`, `UrlMissing` | the completions of `putData` and `downloadURL` |

A push includes the `viewDidLoad` of the pushed controller (`Fresh`, `Cleared`).
This is a fact about UIKit that the model relies on: the view of a pushed
controller is loaded after the handler that pushed it has returned, hence after
`nextButtonClick` has read the global that this `viewDidLoad` clears, and
before the next event of the main queue. A button with an action and a segue
runs both, in either order, with the same result for that reason. Touches are
not delivered to the page below during a transition.

Back shows the old instance again: `viewDidLoad` does not run, its text and its
Next button stay as they were although its global may have been cleared. The
model keeps this; see "What the model shows of the code".

Abstractions. Ratings are a set of model values (one is enough: the code only
tests for membership in "1".."5" and for "N/A"). The four string constants the
code compares stay as they are. The comments text, the date and the names are
left out: no control depends on them. The image data is `"jpeg"` or
`"undecodable"` (`jpegData` returns nil). A page node holds, per slot, the
number of the submission whose upload's URL it got, which is what tells one URL
from another. The database is the device's own view of it: `setValue` takes
effect locally at once.

### Correspondence of `PersistentConnection` and `WriteQueue` to the code

| variable | code |
|---|---|
| `connectionState`, `interruptReasons`, `authToken`, `forceAuthTokenRefresh` | the fields of the same names of `FPersistentConnection`; `authToken` only as present or nil |
| `scheduledRetry` | `scheduledRetry` of `FIRRetryHelper`, with the value of `forceRefresh` its block captured |
| `fetching`, `staleFetch` | the token fetch whose number is `currentFetchTokenAttempt`, and earlier ones, have not answered |
| `realtime` | the `FConnection`: none, connecting, connected |
| `pendingAuths` | the callbacks of auth requests in `requestCBHash`, each with its `restoreStateAfterComplete` |
| `issued` | what each write covers; its index is `writeId` of `FRepo`, and the number of its put |
| `allWrites` | `FWriteTree.allWrites` |
| `outstandingPuts`, `putsToAck`, `listens`, `unackedListensCount`, `requestNumber`, `requestCBHash` | the fields of `FPersistentConnection` |
| `uplink`, `listening`, `answers`, `record` | external: requests and answers on their way, the listens the server is busy with, its data |
| `settled`, `completed`, `refused` | history, read by no guard |
| `raised` | an assertion has raised an exception, which ends the process |

| action | handler |
|---|---|
| `Open`, `GoOffline`, `GoOnline` | `open`; `interrupt`, `resume` of `FRepo` |
| `RefreshAuthToken` | the listener for token changes |
| `Retry`, `TokenFetched`, `TokenFailed`, `StaleTokenFetched` | the block given to `FIRRetryHelper` and the callback of its token fetch |
| `BecameReachable` | `reachabilityCallback`, `enteringForeground` |
| `Handshake` / `OnReady` | `onReady:`, in `WriteQueue` with the `restoreState` it calls |
| `Authenticated` / `OnAuthenticated`, `AuthFailed`, `AuthRevoked` | the callback of `sendAuth…`, `onAuthRevoked…` |
| `ConnectionLost`, `ServerKill` / `OnDisconnect` | `onDisconnect:withReason:`, `onKill` |
| `SetValue`, `Listen`, `Unlisten`, `PurgeOutstandingWrites` | the API calls, through `FRepo` where it takes part |
| `PutAnswered`, `ListenAnswered` | the callbacks of `sendPut:` and `sendListen:`, with `ackPuts` |
| `ReceivePut`, `ReceiveListen`, `AnswerListen` | external: the server |
| `Relaunch` / `Restart` | the process is killed and started again |

An action of `WriteQueue` that extends one of `PersistentConnection` conjoins
what the event does to the queue; `ConnectionStep` is every event that leaves
the session as it is. A write is a set of leaves it overwrites: a page node
covers the pictures below it. Request numbers are counted from the handshake,
because the code compares them only within a session. Delays are left out: a
retry may run at any time after it was scheduled. What is assumed of server and
socket: requests arrive in the order they were sent, puts are answered in that
order, a listen's answer may overtake or follow them; after a loss the server
may still read what was on the way, until it greets the next session; whether it
refuses a write depends only on what the write covers.

## 3. Runs

| run | bounds | what it shows |
|---|---|---|
| `navigation` | 9 pages | the push tables: a complete way through the pages takes 6 pushes for a job in progress and the detour of `sixthNAPage` back to page four 9, so every edge of the graph is taken, by stacks that go past it |
| `wizard` | 1 work order, 2 forms, 9 pages, 1 Back | the second form starts from whatever globals the first one left when it was closed or abandoned; 9 pages let a form take the N/A detour twice or go back from six to four and still close |
| `pictures` | 2 orders (symmetric), 2 forms, 2 submissions with pictures, 2 pictures, 4 pages, no Back | both callbacks of both uploads, failing or not, before and after the form is closed or abandoned, the next form (of the other or of the same work order) is opened, and its page is submitted; 4 pages are what a completed job takes to its final page, so records are closed while uploads are on their way |
| `settle` | the same, 2 pages, no symmetry, `FairSpec` | every started upload ends |
| `undecodable` | 1 order, 1 form, 4 pages, 2 pictures, 1 reason | an undecodable picture in slot 1 or 2, with a good one before or after it, on every page up to four |
| `path` | as `wizard`, no Back | *violated*: see the findings below |
| `connection` | at most 3 (and one more) auth requests waiting | all orders of retries, token results, interruptions, losses, kills and auth answers; `ComesUp` under fairness. The bound is on the only counter; 3 are enough for a token change before, during and after the request that restores the state |
| `refresh` | the same | *violated*: finding |
| `app_writes` | 4 writes of 2 kinds, no auth, no listens, restarts | the client as the app uses it: two kinds of writes whose places overlap, four of them let an older page node and an older picture be sent again after newer ones were acknowledged, across losses and a restart |
| `client_writes` | 2 writes, 1 listen, auth with 1 request waiting, refused pictures, interruptions, purges | the other features of the client at once; two writes and one listen are what it takes to park one put while another is on its way |
| `purge` | 2 writes, 1 listen | *violated*: finding |
| `report` | 1 write, 1 listen, `FairSpec` | *violated*: finding |

All runs of `MCForm` have `CHECK_DEADLOCK FALSE`: an inspector may put the
device down, and behaviours end at the bounds. The other runs are checked for
deadlock.

The properties and what they are about:

* `PagesInOrder`, `LegacyUnreachable`, `FinalOnTop` (on the stack of
  controllers): no push skips a page, reaches the earlier flow or leads on from
  the final page. `PagesInOrder` is what makes `sixthNAPage` pushing
  `fourthNoPage` harmless for the record: it costs the inspector a second pass
  through pages four and five, nothing is skipped.
* `FreshPageInSync`: text, global and Next of a rating page agree until it is
  covered, and its first submission records just the reasons ticked.
* `RecordsWhatIsShown`: until a page is covered, Next records what it shows, on
  rating pages and N/A pages alike; and an empty answer gets into a record only
  after a Back.
* `EarlierAnswersCleared`: which globals are empty below the top and at the end.
* `RecordHasNoGaps`, `CompletedJobKeepsNA`, `ShortcutNeedsFlag`: the record
  against the path, the flag and the page on top.
* `FiledWhereOpen`, `PictureFiledOnce`, `UploadsSettle`: late callbacks.
* `PicturesStay`: what may take a picture out of a record again. The code has
  three ways: `addCaseInfo` replaces the whole record, Next replaces the node of
  its page, and a callback writes over the URL of its own slot. The property
  allows these three, the second only while the record is not closed, and no
  other.
* `UndecodableStopsFour`: the early return of the one page that navigates in
  code.
* `ImplementsNavigation`, `ImplementsLedger`: refinement.
* `RetriesFromDisconnected`, `SocketMatchesState`, `InterruptedIsOffline`: the
  events that reach the connection late, twice or in the wrong state; the first
  is what the assertions of `tryScheduleReconnect` say.
* `NeverStranded`, `ComesUp`: every branch schedules what moves the connection
  on, and a session restores its state once.
* `SettledSurvives`, `LastWriteWins`: resending and restarts against what the
  server has acknowledged.
* `SentOncePerSession`, `EveryWriteSettles`: a put made at any moment of a
  connection's life is sent, once, and answered.
* `CompletedOnce`, `CompletedInOrder`, `PendingIsOutstanding`: answers, parking
  and purging; the two components that keep a write agree.
* `ImplementsPromise`: refinement.

**Fairness.** `FairSpec` assumes weak fairness of the callbacks of every upload
and of nothing else. Storage retries a request, also when the device is
offline, until its retry time is over (`FIRStorage.m`, `_retryWhenOffline`;
`FIRStorageUploadTask.m`, `maxUploadRetryTime`) and then fails it; the task
keeps itself alive until it has called its completion
(`_fetcherCompletion` refers to `self`). No fairness is assumed of the
inspector. Termination of the app is part of `WriteQueue` only.

`ConnectionFairness` assumes weak fairness of what is on the client's own queue
(`Open`, `Retry`: `FIRRetryHelper` always runs a scheduled block that is not
replaced or cancelled) and strong fairness of the outside: a token fetch tried
over and over answers some time, a connection attempted over and over gets
through its handshake and its auth answer some time. `Fairness` of `WriteQueue`
adds that a session that comes up over and over lasts, some time, until the next
request is read or the next answer handled. Without strong fairness the network
could break each session before it does anything, and nothing would be
promised. Nothing is assumed of API calls, losses, kills or restarts: they may
happen for ever or never.

### What the model shows of the code

* **Finding** (`refresh`): `tryScheduleReconnect` moves `forceAuthTokenRefresh`
  into the block it schedules. If reachability, the foreground or a resume
  schedules again before the block runs, the block is replaced and the wish is
  gone: the refused token may be fetched again from the cache.
  `FPersistentConnection.m:624` says that the token is refreshed later on
  reconnect.
* **Finding** (`purge`): `FRepo`'s `purgeOutstandingWrites` first removes the
  pending writes and then lets the connection acknowledge the parked puts, whose
  writes are gone: `removeWriteId:` asserts that they are there, and raises. The
  app registers no listen and never purges, so it cannot meet this.
* **Finding** (`report`): a put answered while a listen is pending is parked in
  `putsToAck`; `onDisconnect` resets the count of listens but leaves the parked
  puts to the next listen answer. If the listen was removed meanwhile none comes,
  and the completion of an answered write is never called. Neither can the app
  meet this one.
* **Finding** (`path`): `alternatePage` is lowered only on the final page. A
  completed job that is abandoned with the rewind button or Back leaves it
  raised; the next form, opened "During job", goes from page four to the final
  page. `homePageController.swift:163` says the path is chosen "based on the
  text in the job completed bar".
* `FiledWhereOpen` is as strong as the code allows: a picture can be filed under
  a work order opened *after* the one it was taken for, because the callback
  reads `futureReference` when it runs. It is never filed under an older one.
  Opening another form before the uploads have ended is all it takes, and it is
  the only way (`PicturesStayAtHome`).
* `FreshPageInSync` stops at covered pages: after Back, a rating page shows its
  rating with Next enabled while its global is empty, and submitting it again
  records the empty string.
* A page submitted twice loses the URLs already filed in its node, and the
  callback of an earlier submission may overwrite the URL of a later one;
  `PicturesStay` says that these, and opening the work order again, are the only
  ways. A closed
  record can still get pictures of its own form, and of an earlier one of the
  same work order.

## 4. Proofs

TLAPS proves, for every value of the constants, the following.

The form:

* `NavigationProofs`: the four invariants of `Navigation`. They hold of stacks
  of any length. `PagesInOrder` is inductive together with the typing of the
  stack by `LivePages`: every push of a page numbered *n* goes to a page
  numbered at most *n* + 1, or to the final page from page four or six, which
  `LivePushFacts` reads off the push tables; the pages below stay where they
  were.
* `FormProofs`: `TypeCorrect`, the type invariant of `InspectionForm`. The
  conjunct that is not a type, `futureReference = Nil => stack = <<>> /\
  batches = <<>>`, is what makes it inductive: handlers and callbacks write to
  `db[futureReference]`.

* `FormProofs`: `FreshPageInSync`, `EarlierAnswersCleared` and
  `UndecodableStopsFour`. Neither of the first two is inductive alone. Both need
  the *shape of the stack* (`Shape`), which is: page numbers, capped at four,
  never fall from bottom to top (`Climbs`; the cap is the way `sixthNAPage`
  leads back to page four), the final page is on top, and only the top is
  uncovered. `StepMoves` says how any step moves the stack (keeps the pages,
  pushes one that may follow, pops, empties, enters), and `ShapeStep` is proved
  from that alone. Then a step touches the fields of no uncovered page but the
  top, so `FreshPageInSync` is about the selected answer, a fresh page, or a
  second submission of page four; and an answer is only ever given on the top
  page, above which no page has cleared its global, while a pushed page clears
  the one global its predecessor leaves.
* `FormRecordProofs`: the record invariants from `RecordInv`. Added to the
  properties are, for the open record: every page before a page on the stack is
  saved (`SavedBefore`), a completed job has its flag until the alert and none
  of pages one, five and six on the stack (`OnItsPath`), and a final page on
  the stack without the flag has six saved pages (`FullUnlessShort`).
  `RecordHasNoGaps` follows because Next saves the top page, whose predecessors
  are saved; `CompletedJobKeepsNA` because the top is none of its N/A pages.
* `FormRecordProofs`: the picture invariants from `PictureInv`, which adds that
  `futureReference` is the work order of the last form opened
  (`CurrentIsLast`) and that an upload's form has been opened (`FormsKnown`):
  a callback files under the last form, which is not before the upload's. An
  upload that can still be filed is "url", one found in a record is "filed", so
  no picture is filed twice.
* `RecordsTheShown` (`FormRecordProofs`): `RecordsWhatIsShown`. It rests on
  `FreshPageInSync`, on the fact that an uncovered N/A page shows "N/A"
  (`NAPagesShowNA`), and, for the empty answer, on every covered page lying
  below the top as long as Back was never tapped.

Some theorems have a hypothesis about the behaviour, `[][~A]_vars`: no step is
an `A`. They say that something the code does not guarantee fails for one reason
only.

* `PathFollowsUnlessAbandoned`: `PathFollowsJob`, which run `path` refutes,
  holds as long as no completed job is left by the rewind button or Back. The
  invariant is `FlagIsOfThisForm`: the flag is up only while a completed job is
  on the screen.
* `PicturesStayAtHome`: as long as no other work order is opened while an upload
  is on its way, every picture found in a record was taken for a form of that
  work order. The invariant is `PendingIsCurrent`: what is still on its way was
  taken for the current work order.

So every safety property of `InspectionForm` that the passing runs check on a
small instance is proved for every set of work orders, ratings, reasons and
images and for every value of the bounds; the history bounds are guards, so the
theorems hold however large they are chosen.

The lemmas are about the tables (`PageGraphProofs`: what a page of each kind
clears, pushes and writes), about the ways a handler changes the stack
(`FormProofs`: replace the top, push, pop) and about what a handler writes to a
record (`FormRecordProofs`: `PageWrite`, `UrlWrite`, `OpenWrite`, `NextWrite`,
`FinalWrite`). Assumptions: `FormAssumption` (the ratings are none of the other
strings, check boxes are numbered 1..5, the bounds are numbers) and
`DepthAssumption`, which TLC evaluates on every run.

The form's two refinements (`FormRefinementProofs`):

* `MovesAsTheTableAllows`: `StepMoves` of `FormProofs`, read through the
  mapping that keeps only the controllers of the stack. What is to be shown is
  that the page a handler pushes is one the table names for the page on top,
  which uses the types of the stack and that `NextPage` and the drop-downs
  choose among `LivePushes`.
* `RecordsFollowTheLedger`: Next saves a page in order because of `RecordInv`
  (the pages before any page on the stack are saved), and the form is closed
  only over its first four pages because of `RecordHasNoGaps` in the next state.
  The ledger also asks that a closed record is not saved to. That needs one more
  invariant, `ClosedUnderAlert`: while a form is on the screen, its record is
  closed only if the alert is up, which takes the taps until the inspector is
  home. A picture's URL changes no answer, hence nothing the ledger shows.
* `FormKeepsTheOrder`: `PagesInOrder`, `FinalOnTop` and `LegacyUnreachable` of
  the form's own pages. It cites the theorems of `NavigationProofs`, instantiated
  with the controllers of the form's stack, and the refinement.
* `ClosedRecordsStay`: what the ledger does not show, reasons and pictures
  included. Until its work order is opened again nothing of a closed record
  changes but the URLs of pictures of that page and slot still on their way. It
  rests on `ClosedUnderAlert`.
* `PicturesAreKept`: `PicturesStay`, one handler or callback at a time. It needs
  `ClosedUnderAlert` too: Next replaces a page's node only in a record that is
  not closed.

The connection (`ConnectionProofs`): the four safety properties and the type
invariant are inductive together with `FetchingOffline` (while the latest token
fetch has not answered there is no connection). `CloseInv` and `ReconnectInv`
say once what the two helpers of most handlers establish. Beyond these:

* `AttemptsGoInOrder`: the state advances one by one or falls back to
  `Disconnected`; no late token or answer makes it skip or repeat a state.
* `NoTokensWithoutAuth`: without FirebaseAuth, which the app does not use, no
  token is ever held and no auth request sent.
* `RefreshUnlessRetryDropped`: `RefusedTokenIsRefreshed`, which run `refresh`
  refutes, holds unless `BecameReachable`, `GoOnline` or `GoOffline` replaces or
  cancels a scheduled retry that had captured `forceRefresh`.

The writes (`WriteQueueProofs`): `QueueInv`, in layers, each of which uses those
before it.

* *Types*, with `ConnectionInv`. The count of unanswered listens is at first
  only known to be an integer: that it is never negative is proved last, from
  `CountInv`, which says that it is the number of listens that were sent in this
  session and whose callback waits. The invariant counts requests on the wire
  by their numbers, which `restoreState` hands out without repetition.
* *The wire* (`WireInv`): answers followed by requests are the puts of this
  session in ascending order, each once; nothing is sent before authentication;
  in a session that takes writes every outstanding put is on it. This gives
  `SentOncePerSession`.
* *What is settled* (`SettledInv`): every put on the wire or outstanding is newer
  than every settled write, and what is settled or answered is stored, by itself
  or by a later write. It holds because puts are read and answered in ascending
  order; so resending never reaches back past an acknowledged write. This gives
  `SettledSurvives` and, when nothing is left to settle, `LastWriteWins`.
* *Completions* (`CompletionInv`): a write is outstanding, parked or completed,
  and never two of them; `CompletedOnce` and `PendingIsOutstanding` follow.
* `NoListens`, for `CompletedInOrder`: without listens nothing is parked, and
  every completed write is older than what is outstanding.
* `KeepsPromise`: from `QueueInv` every step of `WriteQueue` is a step of
  `SettledWrites` or none. A put read is `Apply` (its write is newer than all
  that are settled), a put answered is `Settle` with or without its report,
  `ackPuts` is `Answer`, a purge is `Cancel`.

What becomes of a write (`QueueOutcomeProofs`):

* `QueueRunsOnConnection`: every step of `WriteQueue` is one of
  `PersistentConnection` or leaves its variables alone, so the theorems above
  hold of the connection under the queue. `NoWriteBeforeAuth` adds that no put
  is on a connection that is still authenticating.
* `KnownUnlessPurgedParked` and `AppNeverRaises`: `RemovesKnownWrites`, which
  run `purge` refutes, holds unless `purgeOutstandingWrites` finds a parked put;
  so always in a program that never purges, or has no listens. The app is both.
* `WritesAreAccountedFor`: while the process lives every write is completed,
  outstanding or parked. `AnswersReportedWithoutListens`: without listens every
  answered write has been reported, so the counterexample of run `report` takes
  a listen. `OnlyAnswersReported` is the converse, without purges.
* `EarlierWritesAreSettled`: without purges and restarts the answers leave no
  gap, so an answer to the final page's write means that the server has read
  every write of the form made before it.
* `ReportsStayTrue`: completions are only added, a cancelled write is not
  settled later, and an acknowledged value gives way only to a newer one.
* `PromiseSuffices`: `SettledWrites` alone implies `SettledSurvives`,
  `LastWriteWins` and that no completion is called twice.

So every safety property of `PersistentConnection` and of `WriteQueue` that a
passing run checks is proved for every set of leaves, footprints and refused
footprints, any number of writes and listens, and any choice of the switches.
`ConnectionAssumption` and `QueueAssumption` are all they rest on.

Only model-checked: `UploadsSettle`, `ComesUp` and `EveryWriteSettles` (liveness
under fairness is out of the prover's reach), and the four violations. For three
of these, `path`, `refresh` and `purge`, a theorem says that the cause shown is
the only one; the fourth is `EveryAnswerReported`, a liveness property, of which
`AnswersReportedWithoutListens` is the safety part.

## 5. Not modelled

* The home page's four text fields and the picker they share: which entry a
  field gets depends on when UIKit asks the picker again for its rows after
  another field became current, and no code of the repository determines that.
  The model starts at `addCaseInfo`, once `moveOn` has let it pass.
* iOSDropDown: the model starts where its closure is called with an entry of
  the option list; what it does before is layout.
* The states of Storage's upload tasks (chunks, retries, pause and resume, which
  the app does not use): `InspectionForm` assumes of them that each completion
  is called once, with a result or an error.
* Of the database client: transactions, merges, `onDisconnect` writes, the data
  that listens receive, persistence. The app uses none of them.
* Of the connection: `AuthRevoked` is modelled while a token is held; the
  `unauth` message, which nothing answers, and messages of an `FConnection` that
  has been closed already are left out. A
  revocation without a token would only ask for one more forced refresh; the
  late messages are assumed not to come.
* Keyboard offsets, fonts, colours, borders, the comments boxes: no state that
  control depends on.
* Analytics, Firestore, gRPC, BoringSSL, protobuf, leveldb and the other pods,
  which are most of the repository's lines: not called by the app, or
  infrastructure below the two clients.

## 6. What could come next

1. The upload task of Storage with its retries, and the once-only delivery of
   completions as its abstract specification, which `InspectionForm` assumes.
2. Listens with their data and transactions in `WriteQueue`, should the app
   start to read the database.
3. The home page's fields, on an external model of `UIPickerView` that leaves
   open when rows are asked for.
