# ScholarZim: a verification project in TLA+

ScholarZim is a Laravel application: providers publish scholarship listings,
administrators moderate them, students apply, providers decide.  The TLA+ modules
in this directory model two sides of it: what several people, several web workers
and a failing server can do to the rows and files of the database, and what the
scripts of its pages do in a browser whose events, answers and tabs come in any
order.  TLC checks small instances, and TLAPS proves the safety properties for
every size.

What makes each side hard to test:

* **Locks are invisible to the tests.**  `tests/Feature/ApplicationConcurrencyTest.php`
  runs on SQLite, which compiles `lockForUpdate()` to nothing: races are played
  there in a fixed order and never interleaved.
* **Some writers lock and some do not.**  `ApplicationService` locks the rows it
  decides on.  `OpportunityService`, the moderators and the nightly archive load
  the listing, decide on that copy, and write it back later.
* **Not everything rolls back.**  Files are stored before the transaction and
  deleted after it; notices go out after the commit, and a failed one is swallowed.
* **The scripts are tested in one order.**  `tests/Browser` clicks through a page
  step by step and waits for each answer.  Several scripts listen to one event on one
  form without knowing of each other, answers of the server overtake one another,
  pages are stopped, restored and reloaded, and a service worker outlives the
  deployment it came from.

## 1. Inventory

### The server

| component | state | operations | who it talks to |
|---|---|---|---|
| Application workflow (`Services/ApplicationService`, `Support/ApplicationStateMachine`) | `applications` row per (student, listing): status, attachment, viewed | submit / quickApply, decide, withdraw, markViewedByProvider, repairDocument | locks listing and application rows; file store; notifications; audit |
| Listing lifecycle (`Services/OpportunityService`, `Support/OpportunityLifecycle`) | `opportunities` row: publication status, moderation status, deadline, award slots, content | create, update, extendDeadline, delete | moderation, reports, trust; read by every submission |
| Moderation (`Services/OpportunityModerationService`) | the same row's moderation axis | approve, reject, bulkReview, confirmAutoPublished, unpublish, takeDown | notifies the provider, announces the listing |
| Archive (`Console/Commands/ArchiveExpiredOpportunities`) | the same row's publication axis | nightly collect and close | scheduler, 00:30, one server |
| Drafts (`Services/ListingDraftService`) | a listing row in moderation state DRAFT | save, discard, submit | OpportunityService::create |
| Reports (`Services/OpportunityReportService`) | report rows; flag on the listing | submit, dismiss, uphold, hide at a threshold | moderation, trust |
| Trust (`Support/ProviderTrust`, `Services/ProviderTrustService`) | override on the provider's profile, history | set, assess | create |
| Provider verification (`Services/AdminUserService`, `Services/RegistrationService`) | `users.account_status`, provider profile, certificate | approve, reject, request information, update registration, suspend, reactivate | file store, notifications |
| Tokens (`Services/EmailVerificationService`, `Services/PasswordResetService`) | token rows with a used flag | mint, verify / reset | mail |
| Applicant documents (`Services/ApplicantProfileService`, `Models/ApplicationDocument`) | profile file columns, files recorded with an application | storeDocument, record, release | file store, submit, repairDocument |
| Account deletion (`Services/AccountDeletionService`) | every row and file of a user | delete | all of the above |
| Reminders (`Console/Commands/SendDeadlineReminders`) | notification rows | daily sweep, notifyOnce | notifications |
| File store (`Services/FileStorageService`) | objects on disks, metadata | store, delete, status | everyone |
| Notifications (`Services/NotificationService`, `Services/EmailService`) | notification rows, queued mail | notifyUser, notifyOnce | everyone |
| Eligibility (`Services/ScholarFit`) | none | evaluate a profile against a listing | gates submit |
| Catalogue, search, analytics, exports | reference data, reads | import, query, render | - |

### The browser

| component | state | operations | who it talks to |
|---|---|---|---|
| Installable app (`resources/pwa/service-worker.js`, `Support/Pwa`, `resources/js/pwa.js`) | workers of several versions, their caches, copies still to be put away; the prompt to install | install, activate and fetch events; offer, press, choice, appinstalled | the browser's update job and HTTP cache, the server's version of the files |
| Session guard (`public/assets/js/session-guard.js`, `resources/js/history-guard.js`) | a mark in each tab's storage, one stamp for all tabs, who was asked and who answered | run before the page is drawn, ask, answer, beat, time out | the other tabs by BroadcastChannel; the back/forward cache; the server's session |
| Listing form (`level-form.js`, `scope-picker.js`, `open-to.js`) | what is hidden, disabled, ticked, in the list or in the reserve, and listed as chosen | change of level or country, answers, boxes, search | each other, through events on shared fields, in the order app.js imports them |
| Profile page (`profile-form.js`, `document-upload.js`) | the form, a draft of it in sessionStorage, uploads under way, the card they came from | sync, upload, swap the card, fall back to an ordinary submit, put the draft back | the server, submit-state.js |
| Rows, notice and submit state (`subject-requirements.js`, `academic-results.js`, `edit-impact.js`, `submit-state.js`) | rows with indices, questions in flight, a busy button | add, remove, choose, ask, show, press, pageshow | the server's preview of an edit |
| Dashboard (`navigation.js`, `bulk-select.js`) | the lit item, the drawer and its transitions, the toggle, ticked boxes and their count | hashchange, toggle, resize, click, tick, submit, pageshow | Bootstrap's Offcanvas |
| Other scripts and views | one field or one message each | filters, masks, toggles | - |

The two sides meet in requests.  The listing form becomes `create` and `update`,
which check again what they are sent; the profile page feeds `storeDocument`, and
the dashboard `bulkReview`.  No server property relies on a script, and the page
models take the server as what answers, late, with a refusal or not at all.

What makes each correct:

* *Applications*: decisions are final, awards are never granted twice, the last
  award closes the listing, what is announced is what the row says, no file is
  orphaned or deleted while a row needs it, nothing deadlocks, every request ends.
* *Listings*: withdrawal is terminal, what is public was reviewed (or came from a
  trusted provider), a deadline only moves forward by an extension, a verdict is
  reached from PENDING once.
* *Accounts and tokens*: only a reviewed provider becomes active; one usable link
  at a time, used once.
* *Documents*: the file a provider was sent stays until no application names it.
* *Reminders*: at most one per student and listing, and none is lost silently.
* *Installable app*: a worker never serves what a worker of an earlier release
  cached, nor an older file the server gave it, and a device catches up; an offer on
  the page can be taken.
* *Session guard*: closing every page ends the sign-in, and restored tabs cannot
  talk each other out of that; a new tab beside an open one stays signed in; no
  page stays hidden.
* *Forms*: what is sent is what was seen, rows do not overwrite each other, an
  upload is not lost and neither is what was entered by the time it was pressed (what
  is typed after that is, see section 6), one press is one save, and what the page says
  of the form is about the form as it is.
* *Dashboard*: one item is lit, the toggle tells how the drawer is, the bulk button
  sends what it says.

`PROJECT.json` lists the hazards line by line, with the properties that cover
them or the reason none does.

## 2. Plan

In order of importance; what is done is marked.

1. **`ApplicationWorkflow`** (done), with its abstract specification `AwardLedger`
   and the vocabulary `Statuses`; its files and first look are proved, too.
2. **`ListingLifecycle`** (done): the moderation of one listing with a version of
   its content, drafts, edits, verdicts, checks after publication and reports.
   Still open: how trust is assessed, the limit on drafts, ordered dates, and one
   listing that has both this life and the applications of `ApplicationWorkflow`.
3. **`InstallableApp`** and **`SessionGuard`** (done): what outlives a page.
4. **`ListingForm`**, **`ProfilePage`**, **`FormPage`**, **`AdminConsole`** (done):
   one module for each page whose scripts share state, since what can go wrong
   there is what they do to each other.
5. **`ApplicationDocuments`**: profile files and the files applications record,
   storeDocument against submit and repair.  To prove: no referenced file is deleted.
6. **`ProviderVerification`** and **`AccountTokens`**: short protocols with
   stale reads.
7. **`Reminders`**: sweeps, retries, swallowed failures, and account deletion.
8. **Eligibility levels**: `EducationPathway` and `LevelJump` as pure operators
   against a reference definition.

## 3. Modules

| module | what it is |
|---|---|
| `Statuses` | the statuses and the transition tables of `ApplicationStateMachine` and `OpportunityLifecycle` |
| `AwardLedger` | abstract specification: standings, seats, open or not, every step atomic |
| `ApplicationWorkflow` | one listing, its applications, the requests that touch them, the file store, notices |
| `ListingLifecycle` | one listing from draft to take-down: what is public and who judged it |
| `InstallableApp` | one device: the workers, their caches and deployments; the offer to install |
| `SessionGuard` | one browser: its tabs, their storage and messages, the server's session |
| `ListingForm` | the provider's form under three scripts |
| `ProfilePage` | the applicant's form, its draft and the uploads beside it |
| `FormPage` | a table of rows, the notice about it and the button that saves it |
| `AdminConsole` | the administrator's navigation, drawer and queue |
| `MC...` | the sets of operations, the symmetry and the small catalogues that configurations use |
| `..._proofs` | the theorems about each component and their proofs |

The modules of the server share `Statuses`, and `ApplicationWorkflow` is shown to
implement `AwardLedger`.  Pages are separate documents and share no state with each
other, so their modules are not composed; scripts that share a page are, inside
one module.  `SessionGuard` and `InstallableApp` are about the same browser but
different storage, and neither reads the other's.

### ApplicationWorkflow against the code

State:

| variable | in the program |
|---|---|
| `listing` | the `opportunities` row: `status`, `moderation_status`, `deadline` (as `Deadlines::today()` sees it: none, ahead or passed), `award_slots` (0 for null) |
| `apps` | the `applications` rows: `application_status` ("NONE": no row), `document_path`, whether `viewed_by_provider_at` is set |
| `listingLock`, `rowLock` | the exclusive InnoDB row locks of open transactions |
| `req` | what each PHP worker keeps of its request: where it is, the applicant, the verdict, `justClosed`, the upload's path, the path to release, the attributes found dirty |
| `files` | the objects in the store |
| `told` | notification rows: ACCEPTED, REJECTED and VIEWED |
| `faults` | a bound on crashes, lost files, failed deletions and failed notices |

A request is a sequence of actions, cut where the code lets others in: before a
lock is granted, at the commit, between the commit and what follows it.

* `submit`: `BeginSubmit` (fail-fast checks, upload) - `SubmitLockListing` -
  `SubmitLockRow` - `SubmitCommit` - `SubmitReleaseOld`; refusals and exceptions
  go through `DeleteUpload`.
* `decide`: `BeginDecide` - `DecideLockListing` - `DecideLockRow` (state machine
  and capacity, under both locks) - `DecideCommit` (with the automatic close) -
  `DecideTell`.
* `withdraw`: `BeginWithdraw` - `WithdrawLockRow` - `WithdrawCommit`.
* `markViewedByProvider`: `BeginView` - `ViewWrite` (UPDATE ... WHERE
  viewed_by_provider_at IS NULL) - `ViewTell`.
* `repairDocument` of the attachment: `BeginRepair` (file missing, replacement
  stored) - `RepairLockRow` - `RepairCommit` - `RepairReleaseOld`.
* `extendDeadline`, `update`, `delete`, the archive, `approve` and `reject`:
  `Begin...` loads the row without a lock and works out which attributes are
  dirty; `WriteListing` later writes just those, as Eloquent does.
* `TransactionFails`, `Crash`, `LoseFile`, `DeadlinePasses`.

Points where the model relies on the database:

* MySQL (InnoDB) as in `docker-compose.yml`.  `SELECT ... FOR UPDATE` and a plain
  `UPDATE` wait for an exclusive row lock.  The count of accepted applications is
  the transaction's first non-locking read and follows the lock on the listing,
  so its snapshot is the committed truth.
* `rowLock` also stands for an application row that is not there yet.  InnoDB's
  gap locks do not exclude each other, but two first submissions are already
  serialised by the listing's lock, and the unique key would settle the rest.
* A transaction's writes become visible at its commit, so they are one action.

Abstracted: the checks of profile, guardian, eligibility and documents (a student
who fails them does not reach the modelled part); audit entries (they commit with
the write they describe; their failure is `TransactionFails`); reasons, messages,
snapshots; "strictly after today" and "today or later" are both `ahead`; legacy
spellings of statuses, which `canonical()` maps to the ones here.  A material edit
other than of the award slots is a Boolean.

### ListingLifecycle against the code

Nothing here locks the listing, so a request is two steps (reports take more):
`Load` takes a copy of the row, and the write later changes just the attributes
that differ from that copy (`Written`), as Eloquent's `update()` does.  A row that
is gone is not written.

| variable | in the program |
|---|---|
| `row` | the `opportunities` row: `moderation_status` ("NONE" once deleted), `auto_approved`, whether `post_reviewed_at` is set, the codes in `risk_flags` |
| `content` | the version of everything the provider writes |
| `reports` | the `opportunity_reports` row of each student and its status |
| `req` | the operation each worker serves, for whom, its copy of the row, and whether enough reporters were counted |
| `viewers` | administrators with the listing on their screen, from where they judge it |
| `decided`, `trusted` | history: the versions an administrator passed, and those published without review |

* Drafts: `SaveDraft` (`ListingDraftService::save`), `SubmitDraft`
  (`OpportunityController::store` and `OpportunityService::create`), `DiscardDraft`.
* `Edit` (`OpportunityService::update`): any edit renews the risk flags and keeps
  the sticky one; a material edit of a listing that is not waiting, and any edit of a
  refused one, goes back to the queue.
* Desk: `Look`, `Approve`, `Reject`, `confirmAutoPublished`, and `takeDown`, which
  ends both `unpublish` and an upheld report.
* Reports: `InsertReport` - `CountReporters` - `Refresh` - `Hide`; `Dismiss`; `Uphold`
  - `takeDown`, in two transactions as in the code.
* `Dies`: a worker or a transaction ends between two steps.

Abstracted: the publication axis (the listing stays ACTIVE and before its
deadline), whether the provider is trusted and what the risk checker finds (any
answer), the reporters' numbers in messages, notices and audit entries.  Nobody
has applied to or saved the listing, which would only stop a draft's deletion.

### InstallableApp against the code

| variable | in the program |
|---|---|
| `release`, `deployed` | deployments: for each static file the release that last changed it |
| `installing`, `waiting`, `active` | the browser's workers, known by SZ_VERSION, which is `Pwa::cacheVersion()`: the contents of the fingerprinted files |
| `held` | the browser's HTTP cache: the copy it has of each file under /assets/ |
| `stores` | the entries of the precache and the runtime cache of each version, and who gave each |
| `fetched` | responses given to the page whose copy has yet to reach the runtime cache (service-worker.js does not await it) |
| `deferred`, `visible`, `choosing`, `dismissed`, `events`, `spent` | pwa.js: the prompt it holds, its buttons, the choices it awaits, its mark in localStorage; history |

`Update` - `FillNext` per file - `Installed` - `TakeOver` - `Activated` is the life of
a worker; `fillPrecache` swallows the failure of a file, so each may be missing.
`Fetch` answers from any cache (`caches.match`) or asks, and `Store` puts
the copy away later, or never.  Both `cache.add` and `fetch` ask with the default cache
mode, and nginx serves /assets/ under stable URLs with a date and no Cache-Control
(`docker/nginx.conf:50`): `Answers` is the server or the browser's HTTP cache, which
keeps what it was given last (`Hold`), also when a page no worker controls asked for it
(`Browse`).  Files under /build/ are content-hashed: they count in the version, and no
copy of one can be old, so their copies are not followed.  `OfferInstall`, `PressInstall`, `Choose`,
`AppInstalled` and `LoadPage` are pwa.js.  The HTTP cache, the update job, activation
and what termination drops are the browser's and external.

### SessionGuard against the code

| variable | in the program |
|---|---|
| `session`, `signIns`, `gen` | the live session, and the one each page was drawn under (`data-sz-auth`) |
| `at` | the page of each tab: its script has yet to run, it asks, it is drawn, it is being sent away; or the tab shows another site ("away") or is closed |
| `kept` | the confirmed pages in the back/forward cache of each tab, by the session they were drawn under |
| `marker`, `gone` | the tab's key in sessionStorage, and whether the shared stamp is older than GONE_MS |
| `pings`, `answered` | messages under way, and answers heard |
| `beside`, `ended`, `guest`, `thawed` | history, for the properties |

`RunSignedOut`, `RunSignedIn` and `Ask` are the three ways the script begins; `Hear`
is onmessage, `TimerAnswered` and `TimerUnanswered` are the end of ASK_MS, `Replaced`
is the redirect.  Tabs are opened by hand or as duplicates (which copy the
storage), visited, restored, left for another site, closed and signed in; `AllGone` is
every page gone for long, or with its tabs' storage.  A confirmed page that is left may
stay in the back/forward cache of its tab (`Freeze`).  Brought back, a page of the
public layout, which has `data-sz-auth` without `data-sz-sensitive`, is as it was left,
confirmed and stamping, and no script runs (`Thaw`); one of the signed-in shell or the
sign-in layout is reloaded by history-guard.js, and stamps as it goes, being confirmed
(`Reload`).  Time is kept only as far as it is read: the stamp's
age, and that an answer takes less than ASK_MS, the assumption the half second makes.

### ListingForm, ProfilePage, FormPage and AdminConsole against the code

One event runs every handler it reaches before the next one, in the order app.js
imports the scripts, so an action is an event and what it does is the composition of
the handlers.

* `ListingForm`: the form is one record (answers, what is ticked, which boxes are in
  the list or in the inert template, what is disabled and by whom, hidden, listed as
  chosen), and each handler an operator from one form to the next: `ApplyLevel`
  (level-form.js), `ApplyPickers` (scope-picker.js), `FollowAnswers` (open-to.js).
  Actions are the change of the level or the country, the two answers, a box or chip,
  another field, a search.  It starts as the server renders any consistent listing, or
  one that was sent and is drawn again with an error in its list of programmes
  (`Drawn`), and as the scripts leave it (`Loaded`).  Of the other controls the four are
  kept that the scripts treat in different ways: a programme suggested in words, its
  field (a select of one choice, which open-to.js does not empty), the host universities
  in earlier wording, and the box for O-Level holders.
* `ProfilePage`: `Press`, `Reach`, `Succeed` and `Fail` are an upload, `Away` is any
  other way out, `Arrive` the reloaded page with `RestoreDraft` and then `Sync`, `Age`
  the draft's ten minutes.  One field stands for each kind the scripts tell apart.  Of
  history it keeps which uploads nothing overlapped (`calm`), which plain fields differ
  from the entries kept at the press (`typed`), and what was under way when the page was
  left (`left`).
* `FormPage`: rows with `AddRequirement` / `AddResult`, `RemoveRow`, `ChooseInRow`
  and `SyncRow`; the notice with `Schedule`, `AskImpact`, `ShowImpact`, `NoImpact`; the
  button with `PressSave`, `StopLoading`, `Leave`, `PageShow`.  The form is known to
  the notice by the number of edits made to it.
* `AdminConsole`: `HashChange`, `Traverse` and `PressItem` for the lit item;
  `PressToggle`, `TransitionEnd` and `Resize` for the drawer, where Offcanvas does at
  the end of a transition what it was asked for, in that order; `Tick` and `Apply`
  for the queue; `Ready`, `Unload`, `Arrive`, `PageShow` for the page.

Variables marked `history` in the modules guard no action and change nothing but history.  Those of
`ListingForm` (`parked`, `folded`), `FormPage` (`gaps`, `refused`), `ProfilePage`
(`calm`, `typed`, `left`), `SessionGuard` (`guest`, `thawed`) and `AdminConsole`
(`reopened`, `outgrown`, `blind`) mark the cases that a property
excepts, each of which is described in section 6.

## 4. Runs

| run | instance | what it shows |
|---|---|---|
| `decisions` | 2 students, 2 workers, 1 or 2 awards, 1 fault, fairness; submit, decide, withdraw | `NoCircularWait`, `LockedReadsHold`, `AnnouncedIsDecided`; the workflow implements `AwardLedger`; `RequestsFinish`, `DecisionsAnnounced` |
| `attachments` | 1 student, 2 workers, 2 files, 1 award, 1 fault; submit, withdraw, repair, view, and every other writer | `NoOrphanUpload`, `OwnFilesSurvive`, `ViewedToldOnce` |
| `one_at_a_time` | 2 students, 2 administrators, 1 worker, 1 risk code, 3 versions, 1 fault; every listing operation but dismiss | `LiveIsCleared`, `MovesAreLegal`: what holds when requests do not overlap |
| `check_races` | 2 students, 1 administrator, 2 workers, 1 risk code, 3 versions, fairness; edit, confirm, unpublish, report, uphold | `LiveIsCleared` with requests that overlap; `ReportedComesDown` |
| `listing_races` | 3 students, 1 administrator, 2 workers, 1 risk code, 3 versions; drafts, edit, report, dismiss, uphold | `DraftsArePrivate`, `HiddenByEnough`, `AnsweredOnce` |
| `installable_app` | 1 file under /assets/ and 1 under /build/, 2 deployments, 1 prompt, fairness | `NothingOlderServed`, `OfferIsLive`, `CatchesUp` |
| `session_guard` | 3 tabs, 1 sign-in, 1 page in a back/forward cache, fairness | `RestoredDoNotVouch`, `OpenTabIsHeard`, `HiddenPageResolves` |
| `listing_form` | a programme of one level, a field and an institution of another; every consistent listing, stored or sent back | `PostedIsSeen`, `ChoicesFitTheLevel`, `ChipsAreTheChoices`, `SeenIsUsable` |
| `profile_page` | 2 documents, 2 radios, 2 edits, 2 uploads | `GuardianFollows`, `CalmUploadIsNeverLost`, `SavedIsShown`, `EntriesComeBack` |
| `form_page` | 2 boards that share a grade, a subject with its own scale, 3 rows, 3 edits, fairness | `RowsPostApart`, `RowsFitTheCatalogue`, `NoticeIsCurrent`, `SavedOnce`, `BusyIsSaid`, `NoticeSettles` |
| `admin_console` | 3 rows, 4 transitions under way | `LitIsTheAddress`, `ExpandedIsTrue`, `DrawerLeavesWideScreen`, `SendsWhatItSays` |
| `filled_stays_closed` | 1 student, 2 workers, 1 award; submit, decide, extend | the disagreement of section 6 |

Type invariants are in no run: they are proved (section 5).

What the listing runs leave out, and why.  `one_at_a_time` has no dismiss: it
publishes an edit nobody reviewed even alone, which would break `LiveIsCleared`.
`check_races` has neither dismiss nor verdicts from the queue, where the second of two
verdicts overturns the first, nor drafts: a draft submitted twice at once can put back
a listing that reports have hidden, or keep the mark of a check made between the two.
`listing_races` has all of those but the verdicts; what it checks holds in spite of
them, and is proved with every operation.

Why these bounds.  A race needs two requests.  Two students and one or two awards
give both a last award and an award that is not the last; two files are an old one
and its replacement, or a replacement and its rival.  Lowering the slots, a third
worker, several students with files: `ImplementsAwardLedger`, `NoOrphanUpload` and the
other safety properties are proved for every size, so that the bounds matter for
liveness and as a check of the model.  Three versions are a draft, what was submitted
and an edit of it; a threshold of two reporters with three students leaves one who
comes late or twice.  One fault is enough because no property depends on two failing
together.  Two deployments let one overtake the install of the other, and with the HTTP
cache give a version a file of the one before it; prompts share no state with the
workers, and what two of them do to each other is in `OffersAreLive`, which is proved
for any number.  Three tabs are two that ask at once and one that answers, leaves or is
restored; one page in a back/forward cache is enough for the two ways back.  A picker
moves groups whole, so one box stands for each.  Two uploads are one
and what overlaps it; three edits one asked about, one asked about again and one
after that; four transitions an open, a close, an open before the first has ended,
and one more.  Students, workers, administrators and files are symmetry sets in the
safety runs where they are interchangeable; the runs with liveness use no symmetry.

Deadlock is checked where a page can always go on: `listing_form`, `profile_page`,
`form_page`, `admin_console`.  The other systems may rightly stop
(`CHECK_DEADLOCK FALSE`): no request arrives any more and the deadline has passed,
no further deployment or prompt is allowed by the bound and nobody opens a page, or
every tab is gone for good.

Fairness.

* `ApplicationWorkflow`: strong fairness of each worker's own steps (`Proceed(w)`),
  nothing of arrivals, failures or time.  A worker that can go on does; and InnoDB
  grants a row lock to its waiters in order of arrival, so a waiter is not passed over
  for ever, which is what strong rather than weak fairness says of a step enabled
  again and again.  `DecisionsAnnounced` asks nothing once something has failed: after
  a crash or a swallowed write the notice is lost for good, as `NotificationService`
  documents.
* `ListingLifecycle`: nothing waits, so weak fairness of each worker's `Continue(w)`:
  PHP runs a request it has begun to its end.
* `InstallableApp`: weak fairness of the update job and of taking over, which says
  that pages keep being opened online; none of fetches, deployments or prompts.
* `SessionGuard`: weak fairness of the script of each tab: the browser loads what was
  asked for, delivers messages and fires timers.
* `FormPage`: weak fairness of the notice's timer and of the end of its requests;
  `NoticeSettles` excepts a page that is left for ever again.

Every property has a mutant: a named slip, defined beside the operator it replaces
and marked "A slip to rule out", that breaks it.

| module | slips |
|---|---|
| `ApplicationWorkflow` | `BeginSubmitRowFirst`, `RowIgnored`, `MayDecideUnchecked`, `FillsLastSeatLate`, `RefuseKeepingUpload`, `SupersededAlways`, `ViewWriteAlways`, `ReleaseListingOnly`, `DecideCommitSilently` |
| `ListingLifecycle` | `EntersQueueIfRefused`, `requireNotDraft`, `SaveDraftAsDraft`, `CountReportersEarly`, `CountReportersLate`, `resolveAllReports` |
| `InstallableApp` | `OutdatedPrecache`, `UpdateOnce`, `PressInstallKeepingButton` |
| `SessionGuard` | `AnswersAsking`, `AnswersGuest`, `TimerUnansweredIdle` |
| `ListingForm` | `ShowKeeping`, `ApplyPickersKeeping`, `ClearFoldSilently`, `FollowLevelOneWay` |
| `ProfilePage` | `SyncByLevel`, `FailQuietly`, `SucceedKeepingDraft`, `PutBackUnordered` |
| `FormPage` | `AddRequirementSameIndex`, `FillKeeping`, `CurrentAlways`, `PressSaveAgain`, `ShowImpactAnyway`, `AskImpactUnlessBusy` |
| `AdminConsole` | `HashChangeOnce`, `TransitionEndSilent`, `ResizeOnly`, `ReadyUncounted` |

## 5. Proofs

Each component has a module `..._proofs`, checked by TLAPS, for every value of the
constants that its assumption allows.  Every safety and action property that a
passing run checks is a theorem; `LiveIsCleared` and `MovesAreLegal`, which overlapping
requests can break, are theorems under hypotheses that say which may not overlap.
A theorem has the same shape everywhere: the properties are not inductive as they
stand, an invariant that is implies them, and there is one lemma per action.

### ApplicationWorkflow (`ConstantsAssumption`: finitely many students; slots are numbers)

* `TypeOK`; `RequestInv`: a request past its start is for a student who exists, has a
  verdict when it decides, and is otherwise clean: what lets a step be read as an
  operation on one student's row.
* `LockInv`: who holds which lock is exactly what the workers' steps say.  Two
  transactions therefore never hold one row.
* `LockedReadsHold`: what a transaction read under its locks stays true, because every
  step of another worker that changes a status or grants an award holds the lock on
  the row it changes.
* `AnnouncedIsDecided`: a decision is announced after the commit, and no step leaves
  ACCEPTED or REJECTED.
* `PathsInv`: an upload under way belongs to one request and to no row, rows share no
  file, and what a resubmission replaced is in no row any more.
* `StoredInv`: while nothing has failed every file a row or a request relies on is in
  the store, so that nothing is repaired, and nothing else is in it.
* `ViewInv`: whoever was told of the first look, or is about to be, has a row that was
  seen.

| theorem | statement |
|---|---|
| `InductiveInvariant` | `Spec => []IInv`, the first four |
| `TypeCorrect`, `LocksAreHeldInTransactions`, `WhatIsReadUnderLocksHolds`, `AnnouncementsAreTrue` | its parts |
| `NoDeadlock` | `Spec => []NoCircularWait`: among any workers, one that holds the listing waits at most for a row, one that holds only a row waits for nothing, by `LockInv` |
| `WorkflowImplementsLedger` | `Spec => ImplementsAwardLedger`: a commit of submit, decide or withdraw is one step of the ledger by `LockedReadsHold`; writes of the listing and the passing of its deadline are `Relist` or stutter; all else stutters |
| `FilesInvariant` | the last three are invariant, given the first four.  Every action is one of five things done to files (begin, carry on, end, commit, delete), and each keeps them |
| `NoUploadIsOrphaned`, `OwnFilesAreKept`, `FirstLookToldOnce` | `NoOrphanUpload`, `OwnFilesSurvive`, `ViewedToldOnce` |
| `NoDecisionIsOverturned` | `Spec => DecisionsAreFinal`: a status is changed only under the row's lock, where it is still PENDING or may be applied for again |
| `NoAwardTooMany` | `Spec => GrantsAreCovered`: only `DecideCommit` accepts, one student at a time, and under the listing's lock an award is left (`LockedReadsHold`) |
| `FilledStaysClosedUnlessReopened` | `Ops \cap {"edit", "extend"} = {} /\ Spec => []FilledIsClosed`, from `FilledInv`: every copy about to be written closes or keeps.  With `filled_stays_closed`: those two requests, and only they, reopen a filled listing |
| `PublicationIsLegal` | `Spec /\ []WithdrawalsApart => PublicationMovesAreLegal`: nothing leaves WITHDRAWN as long as no withdrawal is under way together with a request that has loaded the listing to write ACTIVE or CLOSED.  From `WithdrawnInv`: a withdrawn listing has no such request |
| `RequestsNeverStartOver` | `Spec => RequestsAdvance`: `StepsLeft` falls with every step of a request, and no other request touches it.  With `NoDeadlock` and fair locks, why `RequestsFinish` holds |
| `DecisionsAreOnTheirWay` | `Spec => []NoDecisionIsForgotten`: with no fault, a decided student was told or the request that decided is at `decide_tell`.  Why `DecisionsAnnounced` holds |
| `EachFaultLeavesOneFile` | `"repair" \notin Ops /\ Spec => []EachFaultOrphansOne`: never more files that nothing refers to than faults.  From `NoRepairInv`: a request has at most one file of its own to lose |

The last one leaves repairs out because it is false with them: of several repairs that
started from one lost file, each puts its upload in the place of the one before and
deletes only the file that was lost.  With three workers TLC finds two such files left
after one fault.

### ListingLifecycle (`ConstantsAssumption`: finitely many students; a positive threshold; bounds are numbers)

| theorem | statement and argument |
|---|---|
| `TypeCorrect` | `Spec => []TypeOK` |
| `DraftsStayPrivate` | `Spec => []DraftsArePrivate`, from `DraftInv`: while the row is a draft only draft requests are under way, a request about a draft remembers it as one, and no update writes DRAFT over another state, because a copy that says DRAFT makes it no dirty attribute |
| `HiddenOnlyByEnough` | `Spec => []HiddenByEnough`, from `HiddenInv`: neither the row nor any copy is flagged, and no count says enough, before enough students have reported; reports are never deleted, so the reporters only grow |
| `AnsweredReportsStand` | `Spec => AnsweredOnce`: only a pending report is given an answer and only a student without one inserts |
| `PublicIsCleared` | `"dismiss" \notin Ops /\ Spec /\ [](DraftsApart /\ EditsApart) => []LiveIsCleared`, from `ClearInv`: what a request is about to write over a public listing, given the row as it is then, leaves a cleared version public |
| `ChecksMayRace` | `Ops \cap {"save", "submit", "moderate", "dismiss"} = {} /\ Spec => []LiveIsCleared`: the operations of `check_races`, for any number of overlapping requests |
| `VerdictsAreLegal` | `Spec /\ [](DraftsApart /\ VerdictsApart) => MovesAreLegal`, dismissals included, from `VerdictInv` |
| `PublicIsClearedOneAtATime`, `MovesAreLegalOneAtATime` | both follow where requests do not overlap at all (`OneAtATime`), the former without dismissals: the runs of `one_at_a_time` |
| `ReportsAreActedOn` | `Ops \cap {"moderate", "dismiss"} = {} /\ Spec /\ []DraftsApart => []ReportsAreNotForgotten`: a public listing with enough reports has, short of a fault, a request that will count them or hide it.  Why `ReportedComesDown` holds |

The hypotheses are about what overlaps, and no code sees to them: no lock is taken and no
version compared (`OpportunityService`, `OpportunityModerationService`,
`ListingDraftService`).  `DraftsApart`: the provider saves or submits the draft in one
request at a time.  `EditsApart`: no edit overlaps a verdict from the queue.
`VerdictsApart`: no verdict or dismissal overlaps another, an unpublication or a
take-down.  `WithdrawalsApart` is the one of `ApplicationWorkflow`.  Each is needed: with
any one of them dropped, or with dismissals or verdicts let in where a theorem leaves
them out, TLC finds the conclusion violated with two or three workers.  They
say what a lock or a conditional UPDATE would have to ensure.

### The browser

| module | assumption on the constants | inductive invariant | theorems |
|---|---|---|---|
| `InstallableApp_proofs` | the precache is a non-empty sequence; the bounds are numbers | `WorkersInv`: the workers of a device are in the order in which they were served.  `CachesInv`: what the server gave is no older than the version whose cache it is in or, still to be put away, than its worker, and no cache is older than the worker in control.  `AheadInv`: nor is any copy, the browser's too, newer than what is deployed.  `OfferInv`: events are numbered, and only those that came are spent | `TypeCorrect`, `NothingOlderIsServed`, `UpToDateServesDeployed`, `WorkersOnlyMoveForward`, `OffersAreLive` |
| `SessionGuard_proofs` | the bounds are numbers; none on the tabs | `RestoredInv`: once every page was gone, until a signed-out page has run or one came back from the back/forward cache, no page is confirmed, so none answers or stamps.  `HeardInv`: whoever was confirmed since a tab asked has yet to hear it, or has answered.  `PingsInv`: whoever has yet to hear a ping is there to hear it | `TypeCorrect`, `RestoredTabsDoNotVouch`, `OpenTabsAreHeard`, `QuestionsEnd` |
| `ListingForm_proofs` | any choices, each with a picker and a level | `Tidy`: nothing is filled in where it is folded, but for the two controls of section 6.  `Told`, `AtHome`, `OfTheLevel`; `Marked`: what level-form.js disabled is marked, and still in a section switched off, or parked.  Each handler keeps them, and so their compositions do | `TypeCorrect`, `WhatIsPostedIsSeen`, `ChoicesKeepToTheLevel`, `ChipsKeepUp`, `CountryKeepsItsSections`, `NothingSeenIsDead` |
| `ProfilePage_proofs` | any documents, radios in order | `FormInv`; `CalmInv`: an upload nothing overlapped is the only one under way and its form is in the page; `LeavingInv`: a page that is leaving keeps entries only if it was left with an upload under way; `NetInv`: entries are kept for a form in the page whose upload is under way.  `FormInv` has the entries kept equal the form, but for what was typed since | `TypeCorrect`, `GuardianIsFollowed`, `ProgrammesFit`, `CalmUploadsArrive`, `SavedEntriesAreShown`, `NothingEnteredIsLost` |
| `FormPage_proofs` | any catalogue | `RowsInv`: indices in the page are below the next one's; `SummaryInv`; `NoticeInv`: each question was asked by a timer an edit had set, and the latest is about the form as it stands; `SaveInv`: a page that has sent its form holds the mark that stops the next press | `TypeCorrect`, `RowsStayApart`, `RowsKeepToTheCatalogue`, `SummaryIsTrue`, `NoticeKeepsUp`, `SavesOnce`, `BusyStaysSaid` |
| `AdminConsole_proofs` | finitely many rows, any number of transitions | `RestInv`: what the transitions under way will leave is what was asked for last; `ToggleInv`: the toggle is right, or the transition that will put it right is still to end; `CountInv` | `TypeCorrect`, `LitItemIsTheAddress`, `DrawerIsNotLeftOpen`, `ToggleTellsTheTruth`, `ButtonSendsWhatItSays` |

`CountryIsFollowed`, `ProgrammeFitsLevel` and `DuplicatesAreSaid` are proved and in no
run, and so are the properties that `ApplicationWorkflow_proofs`, `ListingLifecycle_proofs`,
`InstallableApp_proofs` and `SessionGuard_proofs` define themselves.  Each of those was
checked by TLC on an instance of the size of the component's runs before it was proved.

Model-checked only: `RequestsFinish`, `DecisionsAnnounced`, `ReportedComesDown`,
`CatchesUp`, `HiddenPageResolves` and `NoticeSettles`, since liveness under fairness is
out of reach of this prover.  What is proved of them is the safety they rest on:

| liveness | what is proved for every size |
|---|---|
| `RequestsFinish` | `NoDeadlock`, `RequestsNeverStartOver`: no circle of waits, and a request takes at most four steps |
| `DecisionsAnnounced` | `DecisionsAreOnTheirWay`: short of a fault somebody is about to announce it |
| `ReportedComesDown` | `ReportsAreActedOn`: somebody is about to count or hide |
| `CatchesUp` | `WorkersOnlyMoveForward`, `UpToDateServesDeployed`: a device has only to get the newest worker |
| `HiddenPageResolves` | `QuestionsEnd`: those a page waits for can hear it and only become fewer |
| `NoticeSettles` | `NoticeKeepsUp`: with no question open the notice is about the form as it stands |

## 6. Where the code disagrees with what it says

One disagreement has a run of its own: **a listing closed by its last award reopens**
(`filled_stays_closed`).  `README.md:110` says it stays closed; extending its deadline,
or editing it, makes it ACTIVE, because CLOSED does not record why.  New applications
are still refused by the capacity check, so the ledger holds.

These can be followed in the models or read off the code, and are hazards without a
property, since the code does not have it:

* A resubmission is not a clean slate (`ApplicationService.php:497`): the reset leaves
  `viewed_by_provider_at`, so the new attempt counts as viewed and the provider's real
  first look is never announced.
* WITHDRAWN is not terminal under a race (`OpportunityService.php:527`): a writer that
  loaded the listing before the withdrawal writes CLOSED or ACTIVE over it.  That this
  overlap is all it takes is `PublicationIsLegal`.
* A verdict can be overturned (`OpportunityModerationService.php:347`): `requirePending`
  looks at a copy and the UPDATE asks for nothing, so the second of two moderators who
  loaded one pending listing reverses the first.  Where this and a dismissal cannot
  overlap, moves are legal: `VerdictsAreLegal`.
* Dismissing reports can publish an unreviewed edit (`OpportunityReportService.php:249`):
  a listing hidden by reports is told from one waiting for an ordinary review by its
  flag, which a material edit made while it is hidden keeps.
* A draft discarded by a request that loaded it before it was submitted takes the
  listing with it (`ListingDraftService.php:97`).
* The version stamped on the service worker covers the precached files alone
  (`Pwa.php:200`): another file under /assets/ that changes by itself is served from
  the runtime cache until one of the others changes.
* An old file can be pinned under the new version, although `service-worker.js:138` says
  that it cannot: `cache.add` (`:69`) and `fetch` (`:143`) ask with the default cache
  mode, and nginx sends files under /assets/ without Cache-Control (`nginx.conf:50`), so
  that the browser's HTTP cache may answer with the file of an earlier deployment, which
  then stays in the worker's cache until the version changes again.
  `NothingOlderServed` and `CatchesUp` are stated of what the server gave, and of whose
  cache an entry is in.
* Entries kept for an upload can come back over what was saved
  (`document-upload.js:59-92`): a profile saved while an upload is under way leaves its
  draft to the next page.  `SavedIsShown` excepts it (`left`).
* What is typed between the press of an upload and the reload it falls back to is lost,
  although `document-upload.js:15` says that nothing entered is: the draft is of the
  press.  `EntriesComeBack` excepts it (`typed`).

More of the kind was met while reading and is not modelled any further: a view judged
on a stale copy (`ApplicationService.php:135`), an archive that closes a listing
extended meanwhile (`ArchiveExpiredOpportunities.php:42`), two extensions of which the
earlier is written last (`OpportunityService.php:502`), trust judged before the
transaction (`OpportunityService.php:147`), a draft submitted twice
(`OpportunityService.php:172`), an upheld report whose take-down never comes
(`OpportunityReportService.php:170`), a repair that replaces the good file another has
just put in place, and notifyOnce, which checks and then inserts
(`NotificationService.php:94`).

In the browser the properties except these cases, all of which the models reach:

* a page of the public layout has `data-sz-auth` (`public.blade.php:2`) without
  `data-sz-sensitive`, so that history-guard.js lets it come back from the back/forward
  cache of a tab that stayed open, confirmed, however long every page was gone; it then
  stamps and answers.  A sensitive page that comes back is confirmed until it is
  reloaded, and its stamp as it goes lets the page it becomes carry on (`thawed`).
  `session-guard.js:12-19` speaks of neither;
* a suggested programme's field stays chosen when its list is folded, and is sent:
  open-to.js empties a select only when it takes several choices (`:28`), although a
  choice nobody can see is never sent (`:11`).  `PostedIsSeen` excepts it (`Singles`);
* a page drawn again with a suggested programme and no answer folds its list with the
  suggestion in it, since nothing has been chosen yet, as `open-to.js:136` has it, though
  something was; it is sent until the list shows (`folded`);
* a page without `data-sz-auth` (an error page, the offline page) counts as signed out
  and vouches for the tabs restored beside it (`session-guard.js:71`; `guest`);
* a box that scope-picker.js puts in the reserve while its card is switched off comes
  back disabled, because level-form.js does not look into a template (`parked`);
* two uploads at once: the one whose card the other's answer replaced cannot fall back
  to an ordinary submit, and either one's success drops the draft of both (`calm`);
* of the radios of one name the last decides whether a draft puts the choice back, and
  the guardian's hidden input takes the box's value, so that a box that was not ticked
  can be sent as ticked (`EntriesComeBack` is about the other fields, `Plain`);
* a profile drawn with a gap between its indices numbers its next row as one that is
  there (`gaps`);
* a page stopped while it was saving keeps the mark that stops the next press, until
  it is shown anew: `SavedOnce` at the price of a form that cannot be sent;
* a drawer opened again while it was closing has its toggle put wrong by the late
  "hidden" (`reopened`), and one still opening when the screen grew is not closed
  (`outgrown`);
* a bulk form pressed before the scripts have run sends what it has (`blind`).

## 7. Not modelled

The components marked `not_modelled` in `PROJECT.json`, and the reason for each there.

* Planned (section 2): provider verification, tokens, documents recorded with an
  application, account deletion, reminders, the level arithmetic of the eligibility
  rules.
* Left out for good: the reading of free text in listings, the catalogue importer,
  search, exports, analytics and audit entries, which are string processing, reads, or
  written with the change they describe; scripts about one field or one message
  (filters, masks, toggles, flash messages, a dialog opened on load); the vendored
  theme under `public/assets/bvite`; mail and calls to an outside service.
* Of the modelled pages: the wording of the pickers and of the notice, points of a
  grade, the minimum age, the engineering note, custom institutions, which qualifications
  a level offers, and browsers without storage or BroadcastChannel, where
  session-guard.js does nothing.  A submit to another tab (`submit-state.js:81-86`)
  changes nothing that is modelled.  The box that selects every row
  (`bulk-select.js:50-57`) is drawn by no view.  Bootstrap's drawer, whose data API
  answers before navigation.js listens, is modelled from when it does.  The offline page
  is asked for by a failed navigation alone and left out of the precache of the run.
