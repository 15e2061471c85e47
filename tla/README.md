# HomeBank: a TLA+ development

HomeBank is a Flutter app with which parents give their children chores, pay
points for them and redeem the points for rewards. All of the program is under
`src/lib` (Dart); the rest of the repository is vendored pods, generated runner
projects and assets. Of the pods, the Firestore client
(`ios/Pods/FirebaseFirestore`) is modelled where the app rests on it. The state that matters lives in Cloud Firestore, one
document per child and collection, and is changed from several phones at once by
asynchronous handlers that use no lock, no `try/finally` in most places, and
Firestore's optimistic transactions.

This directory models that program: the two providers that write to Firestore,
the pages whose handlers call them, the pages that read, how the Firestore client
answers those reads, and signing in and out.

## 1. Inventory

| Component | State | Operations | Hard about it |
|---|---|---|---|
| `PointProvider` (`providers/point.dart`) | `users/{email}.point`; `point/{email}`, one list of records per month | `changePoint`, `addRecord`, `getPointRecord` | `addRecord` is a second transaction inside the handler of the first; retries, lost replies, month ends |
| `JobProvider` (`providers/job.dart`) | `job/{email}`, one list of chores per month | `createJob`, `finishJob`, `deleteJob`, `getJobRecord` | whole lists are written back; chores are found by description; nothing found is no error |
| `WorkDetailPage` | snapshot shown, dialog, routes, overlay | confirm, delete | two calls in a row without undo; double taps; several devices; the dialog's context after an `await` |
| `WorkAddPage` | form, dates, overlay | add one chore per date | a loop of transactions, partial failure, taps while it runs |
| `AwardAddPage`, `TransferPage`, `TransferConfirmPage` | form, confirmation, overlay | redeem, transfer | no `try/finally`, repeated taps, two pops, `tryParse` |
| `StatisticsPage`, `MyStatisticsPage` | selected child, records, month | fetch, select, leave | answers out of order, late children, answers after `dispose` |
| weekly chart of these pages | counters per type and week | one pass over the chores | weeks of the last days, division by zero |
| `AwardPage`, `DetailPage`, `WorkDetailPage`, `MyDetailPage`, `MyWorksPage`, `MyHomePage` | month, range, child, tab | arrows, calendar, drawer | turn of the year, ends of ranges, charts that keep old answers |
| `AuthProvider`, sign-in, registration, password reset, guest access, sign-out, account forms | user, routes on the navigator, stored addresses, overlay | sign in, register, enter as guest, reset, store an account, sign out | handlers that go on after their page was left, overlapping taps, a user nobody resets |
| Firestore client, reading (vendored) | listeners, views, cache, online state, watch stream, targets, messages on the wire | `get()`, listen, stop listening, stream start, error, backoff, idle and online-state timers, network restart | two executors, shared views, late acknowledgements, credentials that arrive for a closed stream, timers against answers |
| Firestore client, transactions (vendored) | versions read, attempts | get, commit, retry | rejected commits, lost replies |

Interaction: the pages call the providers and wait; the providers run Firestore
transactions and read documents with `get()`, which in the client is a listener
that is removed at its first event; Firestore listeners (in `AuthProvider`, whose bodies are commented
out in this commit) feed the lists back to the pages, at some later time. The
devices share nothing but the documents.

What makes the components correct: no update of a balance is lost and each has
its record; a chore is finished once and for good; what is paid and what is
finished agree except where a handler was cut short or a tap came too late; a
message tells the truth; every handler ends; a page shows the entries of the
child, month and range its header names; a read is answered, once, and what it
says of its age is true; a handler acts on its own page.

`PROJECT.json` lists every component with its status, and under `hazards` what
can go wrong at which line.

## 2. Modules

    Account  <-- refinement --  PointLedger      (PointProvider)
    Board    <-- refinement --  JobBoard         (JobProvider)
       ^ used by WorkDetail (both), WorkAdd (Board), Teller (Account)
    Statistics, MonthView, WeeklyChart           (pages that read)
    DocumentReads                                (the client's reads)
    Session                                      (navigation and user)

Each `MCx` module instantiates `x` for TLC; `PointLedgerProofs`,
`JobBoardProofs`, `WorkDetailProofs`, `WorkAddProofs`, `TellerProofs`, `PagesProofs` (about
`Statistics`, `WeeklyChart` and `MonthView`, whose names differ for that),
`DocumentReadsProofs` and `SessionProofs` hold the theorems. Operators marked "Mutated" are never used by a specification: each is a plausible bug, kept
next to the definition it alters, with which a property can be seen to fail.

**PointLedger.** `points`/`userVer` and `book`/`bookVer` are the two documents
and their versions (0: missing), `outer[c]` and `inner[c]` the two transactions
of a call. `OuterGet` is `transaction.get`, the computation of `total` and the
call of `addRecord`; `AddRecordGet`, `AddRecordCommit`, `AddRecordReject`,
`AddRecordLost` are the inner transaction; `OuterCommit`, `OuterReject`,
`OuterLost` the outer commit. `NewMonth` lets the clock pass into the next month
at any moment. `log` and `start` are history. `PhantomPerRetry` counts the records
of attempts that did not commit (`RecordsOf`).

*External semantics.* Firestore is modelled from its client library
(`transaction.cc`, `transaction_runner.cc` in the vendored pods) and from how the
app uses it: a get records the document's version; a commit is accepted only at
the versions read; a rejected or failed commit reruns the handler while attempts
remain (`MaxAttempts`, 5 in the library); an update of a missing document is
never accepted and not retried; a get that fails inside the handler ends the
call; a transaction that wrote nothing has its reads verified. `Unreliable` adds
failed requests and commits that are applied although the reply is lost.

**Account** is what `changePoint` promises: a call is pending, the balance
changes atomically, the call returns or throws; when replies may be lost, the
change may be made up to `MaxAttempts` times. **Board** is the same for chores,
as numbers of open and finished chores per description; a call that finds nothing
returns all the same.

**JobBoard.** `jobs` is `job/{email}`, one sequence per month; a chore is its
description (type, note, date, points: a member of `Keys`) and `finish`. The
handlers are the operators `createJob`, `finishJob`, `deleteJob`.

**WorkDetail** composes Board and Account with the page: `TapYes` starts a
handler, `AfterFinish` goes on to the payment whatever `finishJob` found,
`EndHandler` is dismiss, pop and toast, `Throw` an exception that nobody catches,
`Crash` the end of the app. `routes` counts what is on the navigator, so that a
second pop takes the page. The dialog's context is unmounted when the dialog is
gone and its exit animation over: the handler may then go on or throw, and both
are modelled. `CallThrows` leaves the overlay, `PopThrows`, by `Navigator.of` after
`EasyLoading.dismiss`, does not. `EasyLoading` with its default mask lets taps through. `unbacked` is
history: the taps for which no open chore was left, once each earlier tap had taken
its own. `Times(T, n)` are the effects that the calls of `T` had, as pairs of tap and
number, and `Repeats(T, n)` those beyond each call's first.

**WorkAdd** composes Board with the form for new chores, **Teller** composes
Account with the forms for rewards and transfers, in the same style; its `left` is
history: the taps whose confirmation was closed while they were worked on.

**Statistics** has the requests under way as a set; `chained` marks the one
`_fetchData` awaits. **WeeklyChart** is the loop that counts. **MonthView** has the
header and the lists of all pages that show a month; a moment is a record of
year, month, day and whether it is after midnight. An entry of the passbook has the
type of a chore, of a reward, or, for a transfer, none. The lists follow `entries`,
what the listeners deliver; the charts draw `fetched`, the last answers to the
requests of the statistics pages, which replace it per kind (`Fetched`). Which
requests are made and in which order they are answered is in `Statistics`; in
`MonthView` any child that was asked for may be answered at any time.

**DocumentReads** follows a `get()` of `getPointRecord` or `getJobRecord` through
the client: `GetDocument` creates the listener and enqueues it, `AddQueryListener`
and `RemoveQueryListener` run on the worker queue (`tasks`) and open, share or
close the view and its target, `OnEvent` runs on the user executor, mutes the
listener and tells the caller. `stream` is the one watch stream with its state,
its close count and the credentials it still awaits (each tagged with the close
count of its request), `tracker` the online state with its ten-second timer,
`outstanding` the acknowledgements `WatchChangeAggregator` waits for. One task of
the worker queue is one action: `ResumeStartWithCredentials`, `OnStreamStart`,
`OnStreamFinish`, `BackoffElapsed`, `IdleTimeout`, `OnlineStateTimeout`,
`RestartNetwork`, `OnWatchStreamChange`. `joined`, `inherited`, `crossed` and
`calledAt` are history. Stream states Open and Healthy are one, as they differ
only in what an authentication error does to the token.

*External semantics.* The server is modelled from what the client expects of it:
it takes requests in order, acknowledges each watch and unwatch, and follows the
acknowledgement of a watch by the document, the Current mark and a snapshot, which
are one message here. A call ends with an error or, when the server ends it, with
OK. `Stream::Close` takes OK for a stop by the client: without targets the stream is
closed for good (`OnStreamFinish`), with one `OnWatchStreamClose` aborts the app
(`StoppedWhileNeeded`), after which no step is taken. Documents only get newer.

**Session** has the navigator as a sequence of routes, each with a number, so that
a handler that pops or replaces "the page on top" can be seen to hit another one.
`handler[t]` is the handler of tap `t` and what it awaits: the overlay, the
preferences or Firebase. `LoginShown`, `SaveEmail`, `LoginEnds` are the pieces of
the sign-in between its awaits; `FormEnds` and `FormMismatch` those of the three
account forms, which differ in nothing the model keeps; `ResetEnds`, `ResetFails`
and `SignOutEnds` the answers of Firebase. The context of a page that was left
throws once its exit animation is over; before that, it works: both are modelled.
`AuthProvider` is taken as it stands: `loginUser` and the account methods do
nothing, only the guest access sets the user, and nobody calls `logout`. This
commit does not initialise Firebase, so that of the outcomes of `ResetFails` and
`SignOutEnds` the uncaught exception is the one its build shows; the others are
those of the same code with Firebase initialised.

## 3. Runs

| Run | Checks |
|---|---|
| `PointLedger_contention` | 3 concurrent calls over a month's end, 2 attempts: `TypeOK`, `BalanceChain` (no lost update), `PassbookInCommitOrder`, `AnswerIsTrue` (exactly once), `FailureHasCause` (a call fails only for a missing document or after losing each attempt to others), `PhantomPerRetry` (each retry leaves exactly one record of a change that never was) |
| `PointLedger_unreliable` | 2 calls, failures and lost replies: `CommitsRecorded`, `PassbookAppendOnly`, `CallsEnd`, `ImplementsAccount` |
| `JobBoard_calls` | 2 calls, failures and lost replies, two chores alike and one finished: `RightMonth`, `FinishedForGood`, `ImplementsBoard` |
| `WorkDetail_devices` | 2 devices, one open chore or two alike, two taps in all (also a double tap), failures, lost replies, crash: `UnpaidHasReason`, `OverpaidHasReason`, `SpinnerHasReason`, `ConfirmedGetsPaid` |
| `WorkDetail_paidtwice` | **violated**: a chore confirmed or deleted elsewhere is paid (again) |
| `WorkAdd_batch` | 2 taps, up to 2 dates, failures and lost replies: `DoneMeansAll`, `DuplicatesHaveReason`, `BatchEnds` |
| `Teller_forms` | both forms, 2 taps, 2 confirmations, lost replies and 2 attempts: `OncePerConfirmation`, `DeepPopHasReason`, `ToldIsTrue`, `ConfirmationEnds` |
| `Statistics_races` | 2 children, 6 requests, answers in any order, failures, late children: `StaleHasReason`, `Settles` |
| `MonthView_pages` | all pages, 13 arrows to either side of a new year, ranges, entries that come and go, records fetched: `ListsItsMonth` (each page lists exactly its entries of the month counted to), `RangeListsItsDays` |
| `WeeklyChart_bounded` | every list of up to 3 chores on days at the ends of weeks and months: `ChartIsExact`, `BarsOnAxis` |
| `DocumentReads_gets` | 2 gets of one document; a stream error, an end by the server or a network restart, a refusal, a change at the server, all timers: `AssertsHold` (the client's own assertions about stream, tracker and targets, without the one a graceful end by the server fails), `AnsweredOnce`, `ServerAnswerIsFresh`, `WaitIsBounded`, `GetsEnd` |
| `Session_pages` | 2 taps on forms, 2 addresses, 5 routes, pages opened and left meanwhile, failing preferences: `SuggestionsKept`, `FailureHasReason`, `WrongPageHasReason`, `StaleUserHasReason`, `OverlayGoes` |

The violated property states what the dialog and a guard of the page mean; `findings` in
`PROJECT.json` quotes the line.

**Bounds.** Two attempts per transaction are the least for which a retry happens
and also runs out; three calls are the least for which a call can lose both
attempts to different others. Two months have one boundary; `PointLedger_unreliable`
has one month, and for calls over a month's end with lost replies `CommitsRecorded`
and `PassbookAppendOnly` rest on their theorems. Two taps are the
least for overlapping handlers, and with two devices they can be on the same or
on different ones (`MaxTaps`); after the last one no dialog opens and no snapshot
arrives, since neither makes a difference to a handler that runs. Two equal chores
are the least of which a deletion that runs again takes one too many. Two dates make a batch that can fail in the
middle. Six requests are those of opening the page and choosing a child twice.
13 arrows pass a whole year and one turn more. Two gets of one document are the
least that share a view, follow each other on a stream that is still open or
starting, and meet each other's late acknowledgements; gets of different documents
share only the stream and the tracker. One error is enough for each transition of
the tracker, since the second failure needs no second cause. Two taps with
five routes let a handler find its page covered, left or replaced. Symmetry of calls is used for the
safety-only run of `PointLedger`. Terminal states are expected (calls and taps
are bounded), hence `CHECK_DEADLOCK FALSE`.

**Fairness.** Weak fairness of each call's or handler's own steps: Firestore
answers every request, if only by a timeout error, and Dart's event loop resumes a
handler whose future is complete. Nothing is assumed of parents, listeners, clock
or crashes. In `DocumentReads` both executors run their tasks and timers go off; a
call that is connecting connects or fails, and one that is open is answered or
fails, since gRPC sends a keepalive every 30 s (`remote/grpc_connection.cc:307`);
nothing is assumed of `RestartNetwork` or of changes at the server. In `Session`
it is the handlers' steps only. In `Statistics` it is one condition on all requests, of which there are
finitely many.

**What the runs show of the code.** Each call of the providers, taken alone, is
sound: the version check makes the two nested transactions lose nothing, and the
passbook always has the record of each committed update. The disagreements
are at the seams: records of attempts that did not commit; `finishJob` that finds
nothing and is followed by the payment; `finishJob` that succeeds and is not; a
batch that fails in its middle; answers applied to the wrong child. The reason
properties (`...HasReason`) say that those are the only ways. A transfer credits
the target account and never debits the account named as its source
(`transfer_confirm.dart:45`); in the model, `Teller` has only the target.

Facts the properties rest on, or name as the exception:

* `changePoint` writes the passbook inside the handler of its transaction, of which
  the library says "Since the updateBlock may be executed multiple times, it should
  avoiding doing anything that would cause side effects" (`FIRFirestore.h:128`).
  `PhantomPerRetry` is the exact price: one record too many per retry.
* The form for new chores says that adding failed (`work_add_page.dart:201`) also
  when the first chores of the batch were stored; the tap that repeats it stores
  them again (`DuplicatesHaveReason`).
* A get that follows another one on a stream that is still starting, or open and
  silent, has no ten-second timer: the tracker starts it only with the stream
  (`online_state_tracker.cc:48` speaks of not "waiting indefinitely"). It is
  answered when the stream answers or fails.
* A refusal that arrives while a further request for the same target is under way
  leaves the count of acknowledgements wrong (`remote_store.cc:358`): the target
  stays inactive, and a get on it unanswered, while the stream lives.
* After two refusals that cross further requests the count is wrong the other way:
  an old snapshot is taken for the answer to the last request, and a get is told a
  state older than its call as the server's. `ServerAnswerIsFresh` names it
  (`crossed`); it is the proof that asked for the exception, since one refusal, the
  bound of the run, is not enough for it.
* A confirmation whose reply was lost and which runs again finishes the chore it
  takes, and a deletion that runs again removes a further chore of the same
  description each time, up to `MaxAttempts` times in all. A confirmation that
  then finds nothing pays all the same: `OverpaidHasReason` bounds the payments too
  many by the taps without an open chore, the repeated deletions and the repeated
  payments.
* The header of a picked range names its last day (`award_page.dart:190`), but the
  range ends at the midnight with which that day begins: what was entered in the
  course of it is not listed (`RangeListsItsDays`).
* `OnWatchStreamClose` takes the status OK for a stop by the client
  (`remote_store.cc:234`), although a server may end a call with OK as well
  (`grpc_stream.cc:319`, `stream.cc:353`): with a target watched the app aborts
  (`StoppedWhileNeeded`, which the run takes).
  `AssertsHold` says that no other assertion about the connection can fail, and
  this one neither by the idle timer nor by a restart.
* The app looks at no `isFromCache` (`point.dart:82`, `job.dart:144`): an answer
  from the cache, given when the client is offline, is shown as if it were current.
* A double tap on "sign in" may report that signing in failed although the first
  tap has signed in: the second handler uses the context of the page that was
  replaced.
* The user of a guest survives the sign-out, and the next one to sign in with an
  address gets the child's pages. Registering leaves the login page behind the home
  page.

## 4. Proofs

Every safety invariant, action property and refinement that a passing run checks is
a theorem too, for every value of the constants: any number of calls, months,
attempts, devices, taps, dates, chores, documents, gets, errors, routes. The
assumptions are those named `...Assumption` in the modules, and TLC evaluates them in
every run: numbers are naturals or integers, sets of taps are finite, days are days
of a month, special values differ from ordinary ones, and the initial documents are
ones the providers could have written. Each theorem is a step-by-step argument from an inductive
invariant; what is inductive and why it had to be strengthened:

* `PointLedgerProofs`. `TypeCorrect`, `NoLostUpdate` (`BalanceChain`),
  `UpdatesAreRecorded` (`CommitsRecorded`), `AppendOnly` (`PassbookAppendOnly`) rest
  on `IInv`: `UserFresh` (a total computed from a version that is still current is the
  balance plus the call's points), `BookFresh` (a list computed from a current
  version is the month's list with the call's record at its end) and `RecordedFirst`
  (a call about to commit has its record). `Refinement` (`ImplementsAccount`) adds
  `AppliedBound`: a call has changed the balance less often than it has made
  attempts. The commits of the outer transaction are the atomic change, every other
  step stutters, begins or ends a call. `AnswersAreTrue`, `FailuresHaveCause`,
  `PhantomsCounted` and `CommitOrder` are about runs in which no request is lost and
  rest on `ReliableInv`: records and commits are counted as sets of places, a call
  commits at most once (`UpdatedOnce`) and records once per attempt
  (`OncePerAttempt`), each lost attempt has a commit of another call
  (`LostToOthers`), nothing is written for a month to come (`NoFutureMonth`), and
  while the balance is what a call has read, the records of all updates stand before
  its own (`LoggedFirst`).
* `JobBoardProofs`. `ChoresInTheirMonth` (`RightMonth`), `FinishedStay`
  (`FinishedForGood`) and `BoardRefinement` (`ImplementsBoard`) rest on `TxFresh` (a
  list read at the version that is current is the month's list, and what is written
  is the handler's result on it) and `HitsBound`. The list operators are related to
  numbers of chores by counting positions: `CreateCounts`, `FinishCounts`,
  `DeleteCounts` say that a handler changes exactly one number by one, or none.
* `WorkDetailProofs`. `UnpaidExplained`, `OverpaidExplained`, `SpinnerExplained` and
  `TypeCorrect`. `Idle` and `PaysAfterwards` tie a handler to its two calls. The bound on
  payments needs `Backed`, a counting argument over all devices: of the taps a chore
  was open for, those that found nothing or still wait are at most as many as the open
  chores, the late taps that took one and the effects of calls that ran again.
  `Counted` says that finished chores were finished by confirmations. The first form
  of `OverpaidHasReason`, which allowed one payment per deletion that lost its reply,
  held in the run with two attempts and failed in the proof: with three attempts one
  deletion may take two chores.
* `WorkAddProofs`. `DoneIsAll`, `DuplicatesExplained`, `TypeCorrect`, from
  `InOrder` (a loop's calls follow each other), `DoneLast` and `Succession` (a tap
  that is not early finds the earlier ones ended).
* `TellerProofs`. `PaidOncePerConfirmation` and `MessagesAreTrue`, from `Agree` (a handler, its call
  and the points it read) and `PayersBound` (one payer at most per confirmation, and
  none yet for one that is on the screen with no handler of its own); payments are
  counted as pairs of tap and number, and split into the first of each call and the
  rest. `DeepPopsExplained` (`DeepPopHasReason`) needs `Lost`: of two handlers that run
  at once one was early, and one whose confirmation is gone was early or left, or an
  early one that ended took it away.
* `PagesProofs`, statistics. `StaleExplained` and `TypeCorrect`: requests are numbered
  (`Numbered`), the last request of a kind is for the selected child (`ForSelected`),
  and it is under way, shown, overtaken or failed (`Settled`). The chained request for
  the chores needs `InOrder` and `JobsToCome`. For the chart `ChartExact`, the loop
  invariant, and `BarsInRange`; `WeekIsRight` relates the rounding of `getWeekOfMonth`
  to the days of the weeks, `CountSeen` says how the chores seen grow in a turn.
* `PagesProofs`, months. `ArrowsCountMonths` (`MonthIsTaps`), `ListsTheirMonth`
  (`ListsItsMonth`), `RangesListTheirDays`, `ViewTypes`; `PreviousMonthIs` and
  `NextMonthIs` are the arithmetic at the turn of the year. `ListsItsMonth` follows
  from `MonthIsTaps`, since a month has one number (`OneMonth`), and
  `RangeListsItsDays` needs that a range runs between two days that were picked, on
  a page with a calendar (`Picked`).
* `DocumentReadsProofs`. An abort leaves the state of the app as it was (`StepOf`), so
  that the lemmas are about the other steps. `TypeCorrect`; `NoAssertFails` (`AssertsHold`) is inductive
  with `CredentialsPast` (credentials on their way are of this or an earlier closing);
  `BoundedWait` needs that the timer runs while a target waits, unless the stream was
  found started (`Timed`), and that a client that went offline has told all listeners
  (`Told`). `OneAnswer` follows the life of a listener: added once, muted by its first
  event, removed after it. `FreshAnswers` is the deepest: `Messages` counts the
  acknowledgements on the wire against `outstanding` (`Counted`) and shows that a
  snapshot older than a get has a further acknowledgement behind it that is still
  awaited (`StaleIsAwaited`), so that the aggregator drops it.
* `SessionProofs`. `TypeCorrect`; `WrongPagesExplained` needs `Owned` (routes are
  numbered in the order they were opened, and the route of a handler, if it is still
  there, shows the handler's form) and `Alone` (a handler nothing disturbed is the
  only one and its page is on top), from which `FailuresExplained` follows: a handler
  reports a failure when it finds its page gone, and an undisturbed one does not;
  `SuggestionsAreKept` needs `Validated`; `StaleUsersExplained`
  needs `Guest`: without a sign-out or a handler on a wrong page, the login page is
  only at the bottom.

Only model-checked: the liveness properties (`CallsEnd`, `ConfirmedGetsPaid`,
`BatchEnds`, `ConfirmationEnds`, `Settles`, `GetsEnd`, `OverlayGoes`), since fairness is out
of the prover's reach. Where a type invariant beyond `TypeOK` is needed (`LoopTypes`,
`PayTypes`, `BoardTypes`) it covers what an instantiated module leaves untyped.

## 5. Assumptions and what is left out

* One child's documents per instance of the providers' and the forms' models:
  documents of different children share nothing. `WorkDetailPage` reads
  `selected.email` again for the payment (`work_detail_page.dart:510`); a change of
  the selected child between the two calls is not in the model.
* One clock for all devices; dates of chores are part of their descriptions.
* Names, notes, colours, layout, number formats and log output are left out.
* `AuthProvider` is a stub in this commit, and `main.dart` does not initialise
  Firebase (the lines are commented out). The models take the providers as written
  and let children and snapshots arrive at any time.
* Whether `DateRange.contains` includes the end itself is a constant
  (`EndIncluded`), since the package is not in the repository.
* No document that is read has local mutations and none is deleted, as the app
  writes only in transactions and deletes nothing: views are single documents and
  there is no limbo resolution.

**Not modelled.** Of the vendored pods, what the app does not reach: queries over
collections, the write pipeline, persistence and its garbage collection, and
everything below the watch stream (gRPC, BoringSSL, Abseil), which appears only as
messages and errors. These pods are most of the repository's lines. Of the app:
static pages, widgets, colours and badges, which have no state of their own; the
calendar of the form for rewards, whose last date has passed
(`award_add_page.dart:71`) and whose answer no handler reads; the
biometric support the login page asks for and never uses; that `build()` of the
child's account form overwrites the name typed so far
(`children/member_modify_page.dart:62`), as form contents are not kept there.

## 6. Plan

1. (done) `PointLedger`, `Account`, their proofs; `JobBoard`, `Board`;
   `WorkDetail`; `WeeklyChart` with proofs; `Statistics`, `MonthView`, `WorkAdd`,
   `Teller`.
2. (done) `Session`, `DocumentReads`.
3. (done) Proofs of all safety properties, for every component; two properties were
   corrected on the way (`ServerAnswerIsFresh`, `OverpaidHasReason`).
   Payments are counted one by one, the charts keep the last answer, and the end of
   a call with OK is in the model.
4. Left: the write pipeline of the client is not reached by the app and stays out;
   liveness stays with TLC.
