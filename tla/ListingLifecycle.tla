--------------------------- MODULE ListingLifecycle ---------------------------
(***************************************************************************)
(* The moderation life of one listing: drafted, submitted, reviewed or     *)
(* published without review, edited, reported by students, taken down.     *)
(*                                                                         *)
(* No request here locks the listing.  Each loads a copy, decides by it,   *)
(* and later writes the attributes it wants different from the copy: two   *)
(* steps, with other requests between them.  What a transaction writes is  *)
(* visible at its commit, so a transaction is one step.                    *)
(*                                                                         *)
(* Sources: app/Services/ListingDraftService, OpportunityService (create,  *)
(* update), OpportunityModerationService, OpportunityReportService, and    *)
(* OpportunityController::store for a draft that is submitted.             *)
(*                                                                         *)
(* Abstracted: what the provider wrote is the number of its version; the   *)
(* risk checker's findings are codes it may or may not raise; trust is     *)
(* an input of a submission.  The listing stays published and before its   *)
(* deadline (ApplicationWorkflow models that axis), nobody has applied to  *)
(* or saved it, and notices, caches and audit entries are left out.        *)
(***************************************************************************)
EXTENDS Statuses, Naturals, FiniteSets

CONSTANTS
  Students,     \* those who may report the listing
  Admins,       \* moderators
  Workers,      \* requests the servers can run at one time
  CheckerCodes, \* codes ListingRiskChecker::check may raise
  HideAfter,    \* scholarzim.reports.hide_after
  Ops,          \* the kinds of request that arrive
  MaxVersions,  \* bound on the versions the provider writes
  MaxFaults,    \* bound on the requests that die
  Nobody        \* no administrator, no student

REPORTED == "reported"

ASSUME ConstantsAssumption ==
  /\ IsFiniteSet(Students)
  /\ HideAfter \in Nat \ {0}
  /\ MaxVersions \in Nat \ {0}
  /\ MaxFaults \in Nat
  /\ REPORTED \notin CheckerCodes

VARIABLES
  row,      \* the columns of the opportunities row that moderation is about
  content,  \* version of what the row says is offered, and to whom
  reports,  \* each student's row in opportunity_reports
  req,      \* what each worker remembers of the request it serves
  viewers,  \* administrators whose screen shows the listing
  decided,  \* history: versions in the row when an administrator passed it
  trusted,  \* history: versions published without review
  faults    \* requests that died

vars == <<row, content, reports, req, viewers, decided, trusted, faults>>

-----------------------------------------------------------------------------
(***************************************************************************)
(* Rows and requests                                                       *)
(***************************************************************************)

\* "NONE" once the draft is discarded.  auto is auto_approved, checked is
\* post_reviewed_at being set, flags the codes in risk_flags.
Row == [moderation : ModerationStatus \cup {"NONE"}, auto : BOOLEAN,
        checked : BOOLEAN, flags : SUBSET (CheckerCodes \cup {REPORTED})]

NoCopy == [moderation |-> "NONE", auto |-> FALSE, checked |-> FALSE, flags |-> {}]

ReportStatus == {"none", "PENDING", "DISMISSED", "UPHELD"}

\* The steps that lead to each kind of write, the first named for what it writes.
DraftSteps == {"save", "submit", "discard"}
ReportSteps == {"report", "count", "refresh", "hide"}
AdminSteps == {"moderate", "confirm", "unpublish", "dismiss", "uphold", "takeDown"}
Step == {"idle", "edit"} \cup DraftSteps \cup ReportSteps \cup AdminSteps

\* enough: the reporters counted reached the threshold.
Request == [at : Step, who : Students \cup Admins \cup {Nobody}, copy : Row,
            enough : BOOLEAN]

Idle == [at |-> "idle", who |-> Nobody, copy |-> NoCopy, enough |-> FALSE]

TypeOK ==
  /\ row \in Row
  /\ content \in 1..MaxVersions
  /\ reports \in [Students -> ReportStatus]
  /\ req \in [Workers -> Request]
  /\ viewers \subseteq Admins
  /\ decided \in SUBSET (1..MaxVersions)
  /\ trusted \in SUBSET (1..MaxVersions)
  /\ faults \in Nat

-----------------------------------------------------------------------------
(***************************************************************************)
(* What the requests are made of                                           *)
(***************************************************************************)

Exists == row.moderation # "NONE"

\* An operation of kind op arrives at an idle worker and loads the listing.
Load(w, op, who) ==
  /\ op \in Ops
  /\ req[w] = Idle
  /\ req' = [req EXCEPT ![w] = [Idle EXCEPT !.at = op, !.who = who, !.copy = row]]
  /\ UNCHANGED <<row, content, reports, viewers, decided, trusted, faults>>

Goto(w, step) == req' = [req EXCEPT ![w].at = step]

Finish(w) == req' = [req EXCEPT ![w] = Idle]

\* Eloquent's update(): only what differs from the loaded copy is written, and
\* a row that is gone is not written at all.
Dirty(old, new, now) == IF Exists /\ new # old THEN new ELSE now

Written(copy, new) ==
  [moderation |-> Dirty(copy.moderation, new.moderation, row.moderation),
   auto |-> Dirty(copy.auto, new.auto, row.auto),
   checked |-> Dirty(copy.checked, new.checked, row.checked),
   flags |-> Dirty(copy.flags, new.flags, row.flags)]

Update(w, new) == row' = Written(req[w].copy, new)

\* The provider's text is written with the row, or found unchanged.
Rewrite == Exists /\ content < MaxVersions /\ content' = content + 1

Revise == Rewrite \/ UNCHANGED content

\* Slips to rule out: answering reports that have an answer, and the check
\* that a listing still waits left out.
resolveAllReports(answer) ==
  reports' = [s \in Students |-> IF reports[s] # "none" THEN answer ELSE reports[s]]

requireNotDraft == row.moderation \notin {"NONE", "DRAFT"}

\* resolveReports: every report still pending gets the administrator's answer.
resolveReports(answer) ==
  reports' = [s \in Students |-> IF reports[s] = "PENDING" THEN answer ELSE reports[s]]

Pending == {s \in Students : reports[s] = "PENDING"}

Reporters == {s \in Students : reports[s] # "none"}

\* isHiddenByReports
HiddenByReports(copy) == copy.moderation = "PENDING" /\ REPORTED \in copy.flags

\* ListingRiskChecker::withStickyFlags
withStickyFlags(existing, fresh) == fresh \cup (existing \cap {REPORTED})

-----------------------------------------------------------------------------
(***************************************************************************)
(* The provider's drafts                                                   *)
(***************************************************************************)

LoadDraft(w) ==
  /\ row.moderation = "DRAFT"
  /\ \E op \in DraftSteps : Load(w, op, Nobody)

\* A slip to rule out: a save that says again that the draft is one.
SaveDraftAsDraft(w) ==
  /\ req[w].at = "save"
  /\ Revise
  /\ row' = IF Exists THEN [row EXCEPT !.moderation = "DRAFT"] ELSE row
  /\ Finish(w)
  /\ UNCHANGED <<reports, viewers, decided, trusted, faults>>

\* A saved draft writes the form's fields and no moderation state: risk_flags
\* and auto_approved are the null and false that the loaded draft already has.
SaveDraft(w) ==
  /\ req[w].at = "save"
  /\ Revise
  /\ Finish(w)
  /\ UNCHANGED <<row, reports, viewers, decided, trusted, faults>>

\* create() with a draft, which is checked on the copy the controller loaded.
\* A trusted provider's listing that nothing was found against is published in
\* the same transaction.
SubmitDraft(w) ==
  /\ req[w].at = "submit"
  /\ Revise
  /\ \E fresh \in SUBSET CheckerCodes, trust \in BOOLEAN :
       LET autoApprove == trust /\ fresh = {}
           copy == req[w].copy
       IN /\ Update(w, [copy EXCEPT
                !.moderation = IF autoApprove THEN "APPROVED" ELSE "PENDING",
                !.flags = fresh,
                !.auto = @ \/ autoApprove,
                !.checked = @ /\ ~autoApprove])
          /\ trusted' = IF autoApprove /\ Exists THEN trusted \cup {content'}
                                                 ELSE trusted
  /\ Finish(w)
  /\ UNCHANGED <<reports, viewers, decided, faults>>

\* The foreign key of the reports keeps a reported listing.
DiscardDraft(w) ==
  /\ req[w].at = "discard"
  /\ row' = IF Reporters = {} THEN [row EXCEPT !.moderation = "NONE"] ELSE row
  /\ Finish(w)
  /\ UNCHANGED <<content, reports, viewers, decided, trusted, faults>>

-----------------------------------------------------------------------------
(***************************************************************************)
(* The provider's edits                                                    *)
(***************************************************************************)

LoadForEdit(w) ==
  /\ row.moderation \notin {"NONE", "DRAFT"}
  /\ Load(w, "edit", Nobody)

\* A slip to rule out: only refused listings go back to the queue.
EntersQueueIfRefused(copy, material) == copy.moderation = "REJECTED"

\* entersQueue: a material change of a listing that is not waiting already, or
\* any save of a rejected one.
EntersQueue(copy, material) ==
  (material /\ copy.moderation # "PENDING") \/ copy.moderation = "REJECTED"

Requeued(copy) ==
  [copy EXCEPT !.moderation = "PENDING", !.auto = FALSE, !.checked = FALSE]

Edit(w) ==
  /\ req[w].at = "edit"
  /\ \E material \in BOOLEAN, fresh \in SUBSET CheckerCodes :
       LET copy == req[w].copy
           base == IF EntersQueue(copy, material) THEN Requeued(copy) ELSE copy
       IN /\ IF material THEN Rewrite ELSE UNCHANGED content
          /\ Update(w, [base EXCEPT !.flags = withStickyFlags(@, fresh)])
  /\ Finish(w)
  /\ UNCHANGED <<reports, viewers, decided, trusted, faults>>

-----------------------------------------------------------------------------
(***************************************************************************)
(* The administrators' desk                                                *)
(***************************************************************************)

\* The queue and the preview show any listing that is not a draft.
Look(a) ==
  /\ "look" \in Ops
  /\ row.moderation \notin {"NONE", "DRAFT"}
  /\ viewers' = viewers \cup {a}
  /\ UNCHANGED <<row, content, reports, req, decided, trusted, faults>>

requirePending == row.moderation = "PENDING"

LoadForVerdict(w, a) ==
  /\ requirePending
  /\ a \in viewers
  /\ Load(w, "moderate", a)

Approve(w) ==
  /\ req[w].at = "moderate"
  /\ Update(w, [req[w].copy EXCEPT !.moderation = "APPROVED", !.auto = FALSE,
                                   !.checked = FALSE])
  /\ decided' = decided \cup {content}
  /\ Finish(w)
  /\ UNCHANGED <<content, reports, viewers, trusted, faults>>

Reject(w) ==
  /\ req[w].at = "moderate"
  /\ Update(w, [req[w].copy EXCEPT !.moderation = "REJECTED"])
  /\ Finish(w)
  /\ UNCHANGED <<content, reports, viewers, decided, trusted, faults>>

requireAutoPublished ==
  row.auto /\ ~row.checked /\ row.moderation = "APPROVED"

LoadAutoPublished(w, a) ==
  /\ requireAutoPublished
  /\ a \in viewers
  /\ \E op \in {"confirm", "unpublish"} : Load(w, op, a)

confirmAutoPublished(w) ==
  /\ req[w].at = "confirm"
  /\ Update(w, [req[w].copy EXCEPT !.checked = TRUE])
  /\ decided' = decided \cup {content}
  /\ Finish(w)
  /\ UNCHANGED <<content, reports, viewers, trusted, faults>>

\* Both legal steps, APPROVED to PENDING to REJECTED, in one transaction.
takeDown(w) ==
  /\ req[w].at \in {"unpublish", "takeDown"}
  /\ Update(w, [req[w].copy EXCEPT !.moderation = "REJECTED", !.checked = TRUE])
  /\ Finish(w)
  /\ UNCHANGED <<content, reports, viewers, decided, trusted, faults>>

-----------------------------------------------------------------------------
(***************************************************************************)
(* Reports by students                                                     *)
(***************************************************************************)

LoadForReport(w, s) ==
  /\ row.moderation = "APPROVED"
  /\ reports[s] = "none"
  /\ Load(w, "report", s)

\* The unique key refuses a second report by the same student.
InsertReport(w) ==
  LET s == req[w].who
  IN /\ req[w].at = "report"
     /\ IF reports[s] = "none"
          THEN reports' = [reports EXCEPT ![s] = "PENDING"] /\ Goto(w, "count")
          ELSE UNCHANGED reports /\ Finish(w)
     /\ UNCHANGED <<row, content, viewers, decided, trusted, faults>>

\* Slips to rule out: a threshold reached one report early, or one late.
CountReportersEarly(w) ==
  /\ req[w].at = "count"
  /\ req' = [req EXCEPT ![w].at = "refresh",
                        ![w].enough = Cardinality(Pending) + 1 >= HideAfter]
  /\ UNCHANGED <<row, content, reports, viewers, decided, trusted, faults>>

CountReportersLate(w) ==
  /\ req[w].at = "count"
  /\ req' = [req EXCEPT ![w].at = "refresh",
                        ![w].enough = Cardinality(Pending) > HideAfter]
  /\ UNCHANGED <<row, content, reports, viewers, decided, trusted, faults>>

CountReporters(w) ==
  /\ req[w].at = "count"
  /\ req' = [req EXCEPT ![w].at = "refresh",
                        ![w].enough = Cardinality(Pending) >= HideAfter]
  /\ UNCHANGED <<row, content, reports, viewers, decided, trusted, faults>>

Refresh(w) ==
  /\ req[w].at = "refresh"
  /\ IF req[w].enough /\ row.moderation = "APPROVED"
       THEN req' = [req EXCEPT ![w].at = "hide", ![w].copy = row]
       ELSE Finish(w)
  /\ UNCHANGED <<row, content, reports, viewers, decided, trusted, faults>>

Hide(w) ==
  /\ req[w].at = "hide"
  /\ Update(w, [Requeued(req[w].copy) EXCEPT !.flags = @ \cup {REPORTED}])
  /\ Finish(w)
  /\ UNCHANGED <<content, reports, viewers, decided, trusted, faults>>

LoadReported(w, a) ==
  /\ Pending # {}
  /\ \E op \in {"dismiss", "uphold"} : Load(w, op, a)

Dismiss(w) ==
  /\ req[w].at = "dismiss"
  /\ resolveReports("DISMISSED")
  /\ IF HiddenByReports(req[w].copy)
       THEN Update(w, [req[w].copy EXCEPT !.moderation = "APPROVED",
                                          !.flags = @ \ {REPORTED}])
       ELSE UNCHANGED row
  /\ Finish(w)
  /\ UNCHANGED <<content, viewers, decided, trusted, faults>>

\* The reports are answered in one transaction, the listing comes down in the next.
Uphold(w) ==
  /\ req[w].at = "uphold"
  /\ resolveReports("UPHELD")
  /\ IF req[w].copy.moderation \in {"APPROVED", "PENDING"}
       THEN Goto(w, "takeDown")
       ELSE Finish(w)
  /\ UNCHANGED <<row, content, viewers, decided, trusted, faults>>

-----------------------------------------------------------------------------

\* The worker dies, or the database gives its transaction up.
Dies(w) ==
  /\ req[w] # Idle
  /\ faults < MaxFaults
  /\ faults' = faults + 1
  /\ Finish(w)
  /\ UNCHANGED <<row, content, reports, viewers, decided, trusted>>

\* A draft, a listing submitted for review, or one a trusted provider published.
Init ==
  /\ \/ row = [NoCopy EXCEPT !.moderation = "DRAFT"] /\ trusted = {}
     \/ row = [NoCopy EXCEPT !.moderation = "PENDING"] /\ trusted = {}
     \/ row = [NoCopy EXCEPT !.moderation = "APPROVED", !.auto = TRUE] /\ trusted = {1}
  /\ content = 1
  /\ reports = [s \in Students |-> "none"]
  /\ req = [w \in Workers |-> Idle]
  /\ viewers = {}
  /\ decided = {}
  /\ faults = 0

\* Requests that arrive.
Arrive(w) ==
  \/ LoadDraft(w)
  \/ LoadForEdit(w)
  \/ \E a \in Admins : LoadForVerdict(w, a)
  \/ \E a \in Admins : LoadAutoPublished(w, a)
  \/ \E a \in Admins : LoadReported(w, a)
  \/ \E s \in Students : LoadForReport(w, s)

\* Requests that go on.
Continue(w) ==
  \/ SaveDraft(w) \/ SubmitDraft(w) \/ DiscardDraft(w)
  \/ Edit(w)
  \/ Approve(w) \/ Reject(w) \/ confirmAutoPublished(w) \/ takeDown(w)
  \/ InsertReport(w) \/ CountReporters(w) \/ Refresh(w) \/ Hide(w)
  \/ Dismiss(w) \/ Uphold(w)

Next ==
  \/ \E w \in Workers : Arrive(w) \/ Continue(w) \/ Dies(w)
  \/ \E a \in Admins : Look(a)

Spec == Init /\ [][Next]_vars

\* A request that has begun goes on: PHP runs each to its end, unless it dies.
FairSpec == Spec /\ \A w \in Workers : WF_vars(Continue(w))

-----------------------------------------------------------------------------
(***************************************************************************)
(* Properties                                                              *)
(***************************************************************************)

\* A draft is its provider's own: while the listing is one, no administrator
\* has been shown it, nothing has been decided about it and no student has
\* reported it, however late a request that loaded it as a draft goes on
\* (ListingDraftService::save, ModerationController::show).
DraftsArePrivate ==
  row.moderation = "DRAFT" =>
    /\ Reporters = {}
    /\ REPORTED \notin row.flags
    /\ decided = {} /\ trusted = {}
    /\ viewers = {}

\* A listing marked as hidden by reports was reported by as many different
\* students as the threshold asks, whoever else reports, answers reports or
\* edits meanwhile (OpportunityReportService::hideIfReportedEnough).
HiddenByEnough ==
  REPORTED \in row.flags => Cardinality(Reporters) >= HideAfter

\* An answered report keeps its answer: neither another administrator's answer
\* nor a second report by the student reopens it (resolveReports, and the
\* unique key of opportunity_reports).
AnsweredOnce ==
  [][\A s \in Students : reports[s] \in {"DISMISSED", "UPHELD"}
                           => reports'[s] = reports[s]]_vars

\* What is on the public site is a version an administrator passed, or one a
\* trusted provider published that is in the "published without review" queue
\* (OpportunityService::update, publishWithoutReview, confirmAutoPublished).
LiveIsCleared ==
  row.moderation = "APPROVED" =>
    \/ content \in decided
    \/ content \in trusted /\ row.auto /\ ~row.checked

\* What a review, an edit, a threshold of reports or their dismissal does to the
\* listing is one legal move of its moderation as it is then, so a verdict is
\* never overturned by another (OpportunityLifecycle::MODERATION_TRANSITIONS).
MovesAreLegal ==
  [][\A w \in Workers :
       Approve(w) \/ Reject(w) \/ Edit(w) \/ Hide(w) \/ Dismiss(w)
         => \/ row'.moderation = row.moderation
            \/ <<row.moderation, row'.moderation>> \in MODERATION_TRANSITIONS]_vars

\* A listing that enough students have reported comes off the public site, or
\* the reports are answered (hideIfReportedEnough).
ReportedComesDown ==
  Cardinality(Pending) >= HideAfter
    ~> (row.moderation # "APPROVED" \/ Cardinality(Pending) < HideAfter)
===============================================================================
