------------------------- MODULE ApplicationWorkflow -------------------------
(***************************************************************************)
(* One scholarship listing and every application to it.                    *)
(*                                                                         *)
(* Requests run in web workers, each one a sequence of steps: unlocked     *)
(* reads, files written to a store the database cannot roll back, a        *)
(* transaction that takes SELECT ... FOR UPDATE locks on the listing row   *)
(* and then on an application row, and work after the commit.  The model   *)
(* keeps one action per such step.  Writes of a transaction become visible *)
(* at its commit, so they are one action.                                  *)
(*                                                                         *)
(* Sources: app/Services/ApplicationService.php for the applications, and  *)
(* for the other writers of the listing row OpportunityService (extend,    *)
(* edit, withdraw), OpportunityModerationService (approve, reject) and the *)
(* ArchiveExpiredOpportunities command, all of which load the row without  *)
(* a lock and later write only the attributes they found changed.          *)
(*                                                                         *)
(* Abstracted: the checks of profile, guardian, eligibility and documents  *)
(* (a student who fails them never gets as far as a request here), the     *)
(* profile documents an application records, audit entries (they commit    *)
(* with the write they describe), and all notices but the three kinds      *)
(* the properties are about.                                               *)
(***************************************************************************)
EXTENDS Statuses, Naturals, FiniteSets

CONSTANTS
  Students,     \* applicants of the listing
  Workers,      \* requests and commands the servers can run at one time
  Files,        \* storage paths an uploaded attachment may get
  SlotChoices,  \* values a provider may give award_slots
  Ops,          \* the kinds of request that arrive
  MaxFaults,    \* bound on the faults counted below
  Nobody,       \* no worker, no student
  NoFile        \* no attachment

ASSUME ConstantsAssumption ==
  /\ IsFiniteSet(Students)
  /\ Nobody \notin Students \cup Workers
  /\ NoFile \notin Files
  /\ SlotChoices \subseteq Nat \ {0}
  /\ MaxFaults \in Nat

VARIABLES
  listing,      \* the opportunities row
  apps,         \* the applications row of each student
  listingLock,  \* worker whose transaction holds the listing row
  rowLock,      \* worker whose transaction holds each application row
  req,          \* what each worker remembers of the request it serves
  files,        \* attachments in the file store
  told,         \* notices sent to each student about their application
  faults        \* crashes, lost files, failed deletions and notices so far

vars == <<listing, apps, listingLock, rowLock, req, files, told, faults>>

-----------------------------------------------------------------------------
(***************************************************************************)
(* Rows, requests and their parts                                          *)
(***************************************************************************)

\* slots is award_slots, with 0 for the null of a listing that caps nothing.
Listing == [status : PublicationStatus, moderation : ModerationStatus,
            deadline : Deadline, slots : Nat]

Application == [status : ApplicationStatus, file : Files \cup {NoFile},
                viewed : BOOLEAN]

NoRow == [status |-> "NONE", file |-> NoFile, viewed |-> FALSE]

\* The attributes a loaded listing found dirty.  "keep" and 0 are not written.
Dirty == [status : PublicationStatus \cup {"keep"},
          moderation : ModerationStatus \cup {"keep"},
          deadline : Deadline \cup {"keep"}, slots : Nat]

Clean == [status |-> "keep", moderation |-> "keep", deadline |-> "keep",
          slots |-> 0]

Step == {"idle",
         "submit_start", "submit_listing", "submit_row", "submit_after",
         "decide_start", "decide_listing", "decide_row", "decide_tell",
         "withdraw_start", "withdraw_row", "view_start", "view_tell",
         "repair_start", "repair_row", "repair_after",
         "abandon", "listing_write"}

Request == [at : Step, who : Students \cup {Nobody},
            verdict : DECISIONS \cup {"none"}, closes : BOOLEAN,
            upload : Files \cup {NoFile}, old : Files \cup {NoFile},
            dirty : Dirty]

Idle == [at |-> "idle", who |-> Nobody, verdict |-> "none", closes |-> FALSE,
         upload |-> NoFile, old |-> NoFile, dirty |-> Clean]

Notice == DECISIONS \cup {"VIEWED"}

TypeOK ==
  /\ listing \in Listing
  /\ apps \in [Students -> Application]
  /\ listingLock \in Workers \cup {Nobody}
  /\ rowLock \in [Students -> Workers \cup {Nobody}]
  /\ req \in [Workers -> Request]
  /\ files \in SUBSET Files
  /\ told \in [Students -> SUBSET Notice]
  /\ faults \in Nat

\* The steps at which a transaction holds each kind of row.
HoldsListing == {"submit_listing", "submit_row", "decide_listing", "decide_row"}
HoldsRow == {"submit_row", "decide_row", "withdraw_row", "repair_row"}

\* The steps that wait for each kind of row, to lock it or to update it.
WaitsListing == {"submit_start", "decide_start", "listing_write"}
WaitsRow == {"submit_listing", "decide_listing", "withdraw_start",
             "view_start", "repair_start"}

-----------------------------------------------------------------------------
(***************************************************************************)
(* What the code asks of the rows                                          *)
(***************************************************************************)

Accepted == {s \in Students : apps[s].status = "ACCEPTED"}

\* award_slots caps accepted applications, not applications.
AwardsFilled == listing.slots # 0 /\ Cardinality(Accepted) >= listing.slots

assertAcceptingApplications ==
  /\ ~AwardsFilled
  /\ listing.status = "ACTIVE"
  /\ listing.deadline # "passed"

OpenForApplications ==
  listing.moderation = "APPROVED" /\ assertAcceptingApplications

\* The storage paths a row or a request refers to.  Paths are unique: an
\* upload never gets one that is in the store or that anything refers to.
Remembered ==
  {apps[s].file : s \in Students}
    \cup {req[w].upload : w \in Workers} \cup {req[w].old : w \in Workers}

FreshFiles == Files \ (files \cup Remembered)

Goto(w, step) == req' = [req EXCEPT ![w].at = step]

Finish(w) == req' = [req EXCEPT ![w] = Idle]

\* A slip to rule out: a row read, or written, without waiting for its lock.
RowIgnored(w, s) == TRUE

\* InnoDB row locks are re-entrant.
ListingFree(w) == listingLock \in {Nobody, w}
RowFree(w, s) == rowLock[s] \in {Nobody, w}

\* A slip to rule out: the commit or rollback leaves the row locks behind.
ReleaseListingOnly(w) ==
  /\ listingLock' = IF listingLock = w THEN Nobody ELSE listingLock
  /\ UNCHANGED rowLock

ReleaseLocks(w) ==
  /\ listingLock' = IF listingLock = w THEN Nobody ELSE listingLock
  /\ rowLock' = [s \in Students |-> IF rowLock[s] = w THEN Nobody ELSE rowLock[s]]

\* A slip to rule out: a refusal that forgets what the request had stored.
RefuseKeepingUpload(w) == Finish(w)

\* A refused or failed request that had stored an attachment still has to
\* delete it; any other is over.
Refuse(w) ==
  req' = [req EXCEPT ![w] =
            IF @.upload = NoFile THEN Idle ELSE [@ EXCEPT !.at = "abandon"]]

\* FileStorageService::delete swallows a failing store: the file stays.
Discard(f) ==
  \/ /\ files' = files \ {f}
     /\ UNCHANGED faults
  \/ /\ f \in files
     /\ faults < MaxFaults
     /\ faults' = faults + 1
     /\ UNCHANGED files

\* NotificationService::notifyUser swallows a failing write: no notice is left.
Tell(s, notice) ==
  \/ /\ told' = [told EXCEPT ![s] = @ \cup {notice}]
     /\ UNCHANGED faults
  \/ /\ faults < MaxFaults
     /\ faults' = faults + 1
     /\ UNCHANGED told

\* An attachment stored before the transaction, or none.
StoreUpload(w, r, attach) ==
  \/ /\ ~attach
     /\ req' = [req EXCEPT ![w] = r]
     /\ UNCHANGED files
  \/ /\ attach
     /\ \E f \in FreshFiles :
          /\ files' = files \cup {f}
          /\ req' = [req EXCEPT ![w] = [r EXCEPT !.upload = f]]

Begin(w, op) == op \in Ops /\ req[w] = Idle

-----------------------------------------------------------------------------
(***************************************************************************)
(* submit: fail-fast checks and the upload; then the transaction locks the *)
(* listing, checks again, locks the application row, checks that too and   *)
(* writes; then the file the row no longer points at is deleted.           *)
(***************************************************************************)

\* A slip to rule out: the application row is locked before the listing.
BeginSubmitRowFirst(w, s, attach) ==
  /\ Begin(w, "submit")
  /\ OpenForApplications
  /\ RowFree(w, s)
  /\ StoreUpload(w, [Idle EXCEPT !.at = "submit_start", !.who = s], attach)
  /\ rowLock' = [rowLock EXCEPT ![s] = w]
  /\ UNCHANGED <<listing, apps, listingLock, told, faults>>

BeginSubmit(w, s, attach) ==
  /\ Begin(w, "submit")
  /\ OpenForApplications
  /\ StoreUpload(w, [Idle EXCEPT !.at = "submit_start", !.who = s], attach)
  /\ UNCHANGED <<listing, apps, listingLock, rowLock, told, faults>>

SubmitLockListing(w) ==
  /\ req[w].at = "submit_start"
  /\ ListingFree(w)
  /\ \/ /\ OpenForApplications
        /\ listingLock' = w
        /\ Goto(w, "submit_listing")
     \/ /\ ~OpenForApplications
        /\ Refuse(w)
        /\ UNCHANGED listingLock
  /\ UNCHANGED <<listing, apps, rowLock, files, told, faults>>

SubmitLockRow(w) ==
  LET s == req[w].who IN
  /\ req[w].at = "submit_listing"
  /\ RowFree(w, s)
  /\ \/ /\ allowsReapplication(apps[s].status)
        /\ rowLock' = [rowLock EXCEPT ![s] = w]
        /\ Goto(w, "submit_row")
        /\ UNCHANGED listingLock
     \/ /\ ~allowsReapplication(apps[s].status)
        /\ ReleaseLocks(w)
        /\ Refuse(w)
  /\ UNCHANGED <<listing, apps, files, told, faults>>

\* A slip to rule out: a resubmission without a file drops the one it keeps.
SupersededAlways(s, new) == apps[s].file

\* The file a resubmission replaces, when it brings one of its own.
Superseded(s, new) == IF new = NoFile THEN NoFile ELSE apps[s].file

\* A resubmission reuses the row: a new attachment replaces the old one, no
\* attachment keeps it, and viewed_by_provider_at is left as it was.
SubmitCommit(w) ==
  LET s == req[w].who
      new == req[w].upload
  IN
  /\ req[w].at = "submit_row"
  /\ apps' = [apps EXCEPT ![s].status = "PENDING",
                          ![s].file = IF new = NoFile THEN @ ELSE new]
  /\ ReleaseLocks(w)
  /\ req' = [req EXCEPT ![w] =
               IF Superseded(s, new) = NoFile
               THEN Idle
               ELSE [Idle EXCEPT !.at = "submit_after", !.who = s,
                                 !.old = Superseded(s, new)]]
  /\ UNCHANGED <<listing, files, told, faults>>

SubmitReleaseOld(w) ==
  /\ req[w].at = "submit_after"
  /\ Discard(req[w].old)
  /\ Finish(w)
  /\ UNCHANGED <<listing, apps, listingLock, rowLock, told>>

\* Every failure path of submit and of repairDocument deletes the upload.
DeleteUpload(w) ==
  /\ req[w].at = "abandon"
  /\ Discard(req[w].upload)
  /\ Finish(w)
  /\ UNCHANGED <<listing, apps, listingLock, rowLock, told>>

-----------------------------------------------------------------------------
(***************************************************************************)
(* decide: the listing row is locked first, then the application row; the  *)
(* state machine and, for an acceptance, the award capacity are checked    *)
(* under both locks; the last seat closes the listing in the same          *)
(* transaction; the applicant is told after the commit.                    *)
(***************************************************************************)

BeginDecide(w, s, verdict) ==
  /\ Begin(w, "decide")
  /\ apps[s].status # "NONE"
  /\ req' = [req EXCEPT ![w] = [Idle EXCEPT !.at = "decide_start", !.who = s,
                                            !.verdict = verdict]]
  /\ UNCHANGED <<listing, apps, listingLock, rowLock, files, told, faults>>

DecideLockListing(w) ==
  /\ req[w].at = "decide_start"
  /\ ListingFree(w)
  /\ listingLock' = w
  /\ Goto(w, "decide_listing")
  /\ UNCHANGED <<listing, apps, rowLock, files, told, faults>>

\* A slip to rule out: the acceptance under way is not counted.
FillsLastSeatLate ==
  listing.slots # 0 /\ Cardinality(Accepted) >= listing.slots

\* The acceptance that would be the last one closes the listing.
FillsLastSeat ==
  listing.slots # 0 /\ Cardinality(Accepted) + 1 >= listing.slots

\* A slip to rule out: the status checked on the unlocked copy is trusted.
MayDecideUnchecked(s, verdict) == verdict = "ACCEPTED" => ~AwardsFilled

MayDecide(s, verdict) ==
  /\ canTransition(apps[s].status, verdict, "provider")
  /\ verdict = "ACCEPTED" => ~AwardsFilled

DecideLockRow(w) ==
  LET s == req[w].who
      verdict == req[w].verdict
  IN
  /\ req[w].at = "decide_listing"
  /\ RowFree(w, s)
  /\ \/ /\ MayDecide(s, verdict)
        /\ rowLock' = [rowLock EXCEPT ![s] = w]
        /\ req' = [req EXCEPT ![w].at = "decide_row",
                              ![w].closes = verdict = "ACCEPTED" /\ FillsLastSeat]
        /\ UNCHANGED listingLock
     \/ /\ ~MayDecide(s, verdict)
        /\ ReleaseLocks(w)
        /\ Refuse(w)
  /\ UNCHANGED <<listing, apps, files, told, faults>>

\* A slip to rule out: the request ends with the commit, and tells nobody.
DecideCommitSilently(w) ==
  /\ req[w].at = "decide_row"
  /\ apps' = [apps EXCEPT ![req[w].who].status = req[w].verdict]
  /\ ReleaseLocks(w)
  /\ Finish(w)
  /\ UNCHANGED <<listing, files, told, faults>>

\* Only a listing that is still ACTIVE is closed.
DecideCommit(w) ==
  LET s == req[w].who IN
  /\ req[w].at = "decide_row"
  /\ apps' = [apps EXCEPT ![s].status = req[w].verdict]
  /\ listing' = IF req[w].closes /\ listing.status = "ACTIVE"
                THEN [listing EXCEPT !.status = "CLOSED"]
                ELSE listing
  /\ ReleaseLocks(w)
  /\ Goto(w, "decide_tell")
  /\ UNCHANGED <<files, told, faults>>

DecideTell(w) ==
  /\ req[w].at = "decide_tell"
  /\ Tell(req[w].who, req[w].verdict)
  /\ Finish(w)
  /\ UNCHANGED <<listing, apps, listingLock, rowLock, files>>

-----------------------------------------------------------------------------
(***************************************************************************)
(* withdraw: the application row alone is locked.                          *)
(***************************************************************************)

BeginWithdraw(w, s) ==
  /\ Begin(w, "withdraw")
  /\ apps[s].status # "NONE"
  /\ req' = [req EXCEPT ![w] = [Idle EXCEPT !.at = "withdraw_start", !.who = s]]
  /\ UNCHANGED <<listing, apps, listingLock, rowLock, files, told, faults>>

WithdrawLockRow(w) ==
  LET s == req[w].who IN
  /\ req[w].at = "withdraw_start"
  /\ RowFree(w, s)
  /\ \/ /\ canTransition(apps[s].status, "WITHDRAWN", "applicant")
        /\ rowLock' = [rowLock EXCEPT ![s] = w]
        /\ Goto(w, "withdraw_row")
     \/ /\ ~canTransition(apps[s].status, "WITHDRAWN", "applicant")
        /\ Refuse(w)
        /\ UNCHANGED rowLock
  /\ UNCHANGED <<listing, apps, listingLock, files, told, faults>>

WithdrawCommit(w) ==
  /\ req[w].at = "withdraw_row"
  /\ apps' = [apps EXCEPT ![req[w].who].status = "WITHDRAWN"]
  /\ ReleaseLocks(w)
  /\ Finish(w)
  /\ UNCHANGED <<listing, files, told, faults>>

-----------------------------------------------------------------------------
(***************************************************************************)
(* markViewedByProvider: the status is judged on the copy the page loaded; *)
(* the UPDATE ... WHERE viewed_by_provider_at IS NULL decides who tells.   *)
(***************************************************************************)

BeginView(w, s) ==
  /\ Begin(w, "view")
  /\ apps[s].status = "PENDING"
  /\ req' = [req EXCEPT ![w] = [Idle EXCEPT !.at = "view_start", !.who = s]]
  /\ UNCHANGED <<listing, apps, listingLock, rowLock, files, told, faults>>

\* A slip to rule out: the update lacks WHERE viewed_by_provider_at IS NULL.
ViewWriteAlways(w) ==
  /\ req[w].at = "view_start"
  /\ RowFree(w, req[w].who)
  /\ apps' = [apps EXCEPT ![req[w].who].viewed = TRUE]
  /\ Goto(w, "view_tell")
  /\ UNCHANGED <<listing, listingLock, rowLock, files, told, faults>>

ViewWrite(w) ==
  LET s == req[w].who IN
  /\ req[w].at = "view_start"
  /\ RowFree(w, s)
  /\ \/ /\ ~apps[s].viewed
        /\ apps' = [apps EXCEPT ![s].viewed = TRUE]
        /\ Goto(w, "view_tell")
     \/ /\ apps[s].viewed
        /\ Finish(w)
        /\ UNCHANGED apps
  /\ UNCHANGED <<listing, listingLock, rowLock, files, told, faults>>

ViewTell(w) ==
  /\ req[w].at = "view_tell"
  /\ Tell(req[w].who, "VIEWED")
  /\ Finish(w)
  /\ UNCHANGED <<listing, apps, listingLock, rowLock, files>>

-----------------------------------------------------------------------------
(***************************************************************************)
(* repairDocument, for the attachment of an application: offered while the *)
(* recorded file cannot be found.  The row is locked only after the        *)
(* replacement is stored, and only its status is checked again.            *)
(***************************************************************************)

BeginRepair(w, s) ==
  /\ Begin(w, "repair")
  /\ apps[s].status = "PENDING"
  /\ apps[s].file # NoFile
  /\ apps[s].file \notin files
  /\ StoreUpload(w, [Idle EXCEPT !.at = "repair_start", !.who = s,
                                 !.old = apps[s].file], TRUE)
  /\ UNCHANGED <<listing, apps, listingLock, rowLock, told, faults>>

RepairLockRow(w) ==
  LET s == req[w].who IN
  /\ req[w].at = "repair_start"
  /\ RowFree(w, s)
  /\ \/ /\ apps[s].status = "PENDING"
        /\ rowLock' = [rowLock EXCEPT ![s] = w]
        /\ Goto(w, "repair_row")
     \/ /\ apps[s].status # "PENDING"
        /\ Refuse(w)
        /\ UNCHANGED rowLock
  /\ UNCHANGED <<listing, apps, listingLock, files, told, faults>>

RepairCommit(w) ==
  /\ req[w].at = "repair_row"
  /\ apps' = [apps EXCEPT ![req[w].who].file = req[w].upload]
  /\ ReleaseLocks(w)
  /\ req' = [req EXCEPT ![w] = [@ EXCEPT !.at = "repair_after", !.upload = NoFile]]
  /\ UNCHANGED <<listing, files, told, faults>>

\* The file the request had loaded is deleted unless some row points at it.
RepairReleaseOld(w) ==
  /\ req[w].at = "repair_after"
  /\ \/ /\ \A s \in Students : apps[s].file # req[w].old
        /\ Discard(req[w].old)
     \/ /\ \E s \in Students : apps[s].file = req[w].old
        /\ UNCHANGED <<files, faults>>
  /\ Finish(w)
  /\ UNCHANGED <<listing, apps, listingLock, rowLock, told>>

-----------------------------------------------------------------------------
(***************************************************************************)
(* The other writers of the listing row.  Each decides on a copy it loaded *)
(* without a lock and writes, later, the attributes it found changed.      *)
(***************************************************************************)

LoadListing(w, dirty) ==
  /\ req' = [req EXCEPT ![w] = [Idle EXCEPT !.at = "listing_write",
                                            !.dirty = dirty]]
  /\ UNCHANGED <<listing, apps, listingLock, rowLock, files, told, faults>>

\* The new deadline is validated to be after today and not before the loaded
\* one (the same date is allowed, and not written); a closed listing reopens.
BeginExtendDeadline(w, date) ==
  /\ Begin(w, "extend")
  /\ listing.status # "WITHDRAWN"
  /\ listing.deadline # "rolling"
  /\ date = "keep" => listing.deadline = "ahead"
  /\ LoadListing(w, [Clean EXCEPT
       !.deadline = date,
       !.status = IF listing.status = "CLOSED" THEN "ACTIVE" ELSE "keep"])

\* A saved edit: award_slots, a deadline kept (it must still be ahead), moved
\* or dropped, and perhaps other material fields.  A material edit, or any
\* edit of a rejected listing, goes back to the moderators' queue.
BeginEdit(w, slots, date, otherMaterial) ==
  LET wasPending == listing.moderation = "PENDING"
      wasRejected == listing.moderation = "REJECTED"
      newSlots == slots # listing.slots
      entersQueue == \/ (otherMaterial \/ newSlots) /\ ~wasPending
                     \/ wasRejected
      reopens == listing.status = "CLOSED" /\ date # "rolling"
  IN
  /\ Begin(w, "edit")
  /\ listing.status # "WITHDRAWN"
  /\ date = "keep" => listing.deadline = "ahead"
  /\ LoadListing(w,
       [status |-> IF reopens THEN "ACTIVE" ELSE "keep",
        moderation |-> IF entersQueue THEN "PENDING" ELSE "keep",
        deadline |-> IF date = "rolling" /\ listing.deadline = "rolling"
                     THEN "keep" ELSE date,
        slots |-> IF newSlots THEN slots ELSE 0])

\* delete(): the provider withdraws the listing.
BeginUnlist(w) ==
  /\ Begin(w, "unlist")
  /\ <<listing.status, "WITHDRAWN">> \in PUBLICATION_TRANSITIONS
  /\ LoadListing(w, [Clean EXCEPT !.status = "WITHDRAWN"])

\* The nightly command collects the expired listings, then closes each one.
BeginArchive(w) ==
  /\ Begin(w, "archive")
  /\ listing.status = "ACTIVE"
  /\ listing.deadline = "passed"
  /\ LoadListing(w, [Clean EXCEPT !.status = "CLOSED"])

\* approve and reject: requirePending, then the write.
BeginModerate(w, verdict) ==
  /\ Begin(w, "moderate")
  /\ listing.moderation = "PENDING"
  /\ LoadListing(w, [Clean EXCEPT !.moderation = verdict])

Put(new, old) == IF new = "keep" THEN old ELSE new

WriteListing(w) ==
  LET d == req[w].dirty IN
  /\ req[w].at = "listing_write"
  /\ ListingFree(w)
  /\ listing' = [status |-> Put(d.status, listing.status),
                 moderation |-> Put(d.moderation, listing.moderation),
                 deadline |-> Put(d.deadline, listing.deadline),
                 slots |-> IF d.slots # 0 THEN d.slots ELSE listing.slots]
  /\ Finish(w)
  /\ UNCHANGED <<apps, listingLock, rowLock, files, told, faults>>

-----------------------------------------------------------------------------
(***************************************************************************)
(* What goes wrong, and time                                               *)
(***************************************************************************)

\* A transaction throws (an audit entry that cannot be written, a deadlock
\* victim, a lost connection): the database rolls it back.
TransactionFails(w) ==
  /\ req[w].at \in WaitsListing \cup WaitsRow \cup HoldsRow
  /\ ReleaseLocks(w)
  /\ Refuse(w)
  /\ UNCHANGED <<listing, apps, files, told, faults>>

\* A worker dies: its connection drops, its transaction is rolled back, and
\* whatever it still had to delete or to announce is forgotten.
Crash(w) ==
  /\ faults < MaxFaults
  /\ req[w] # Idle
  /\ faults' = faults + 1
  /\ ReleaseLocks(w)
  /\ Finish(w)
  /\ UNCHANGED <<listing, apps, files, told>>

\* The file store loses a file.
LoseFile(f) ==
  /\ faults < MaxFaults
  /\ f \in files
  /\ faults' = faults + 1
  /\ files' = files \ {f}
  /\ UNCHANGED <<listing, apps, listingLock, rowLock, req, told>>

\* Midnight in Harare: the deadline is now before today.
DeadlinePasses ==
  /\ listing.deadline = "ahead"
  /\ listing' = [listing EXCEPT !.deadline = "passed"]
  /\ UNCHANGED <<apps, listingLock, rowLock, req, files, told, faults>>

-----------------------------------------------------------------------------

Init ==
  /\ \E moderation \in {"PENDING", "APPROVED"},
        deadline \in {"rolling", "ahead"}, slots \in SlotChoices \cup {0} :
       listing = [status |-> "ACTIVE", moderation |-> moderation,
                  deadline |-> deadline, slots |-> slots]
  /\ apps = [s \in Students |-> NoRow]
  /\ listingLock = Nobody
  /\ rowLock = [s \in Students |-> Nobody]
  /\ req = [w \in Workers |-> Idle]
  /\ files = {}
  /\ told = [s \in Students |-> {}]
  /\ faults = 0

Arrive(w) ==
  \/ \E s \in Students, attach \in BOOLEAN : BeginSubmit(w, s, attach)
  \/ \E s \in Students, verdict \in DECISIONS : BeginDecide(w, s, verdict)
  \/ \E s \in Students : BeginWithdraw(w, s)
  \/ \E s \in Students : BeginView(w, s)
  \/ \E s \in Students : BeginRepair(w, s)
  \/ \E date \in {"keep", "ahead"} : BeginExtendDeadline(w, date)
  \/ \E slots \in SlotChoices, date \in {"keep", "rolling", "ahead"},
        otherMaterial \in BOOLEAN : BeginEdit(w, slots, date, otherMaterial)
  \/ BeginUnlist(w)
  \/ BeginArchive(w)
  \/ \E verdict \in {"APPROVED", "REJECTED"} : BeginModerate(w, verdict)

Proceed(w) ==
  \/ SubmitLockListing(w) \/ SubmitLockRow(w) \/ SubmitCommit(w)
  \/ SubmitReleaseOld(w) \/ DeleteUpload(w)
  \/ DecideLockListing(w) \/ DecideLockRow(w) \/ DecideCommit(w) \/ DecideTell(w)
  \/ WithdrawLockRow(w) \/ WithdrawCommit(w)
  \/ ViewWrite(w) \/ ViewTell(w)
  \/ RepairLockRow(w) \/ RepairCommit(w) \/ RepairReleaseOld(w)
  \/ WriteListing(w)

Next ==
  \/ \E w \in Workers : Arrive(w)
  \/ \E w \in Workers : Proceed(w)
  \/ \E w \in Workers : TransactionFails(w)
  \/ \E w \in Workers : Crash(w)
  \/ \E f \in Files : LoseFile(f)
  \/ DeadlinePasses

Spec == Init /\ [][Next]_vars

\* InnoDB grants a row lock to its waiters in order of arrival, and a worker
\* that can go on does: strong fairness of each request's own steps.
Fairness == \A w \in Workers : SF_vars(Proceed(w))

FairSpec == Spec /\ Fairness

-----------------------------------------------------------------------------
(***************************************************************************)
(* What the workflow guarantees                                            *)
(***************************************************************************)

\* A lock is held by exactly the worker whose transaction is between taking
\* it and its commit or rollback: no path of submit, decide, withdraw or
\* repairDocument leaves the listing or an application row locked behind it.
LockInv ==
  /\ \A w \in Workers : listingLock = w <=> req[w].at \in HoldsListing
  /\ \A w \in Workers, s \in Students :
       rowLock[s] = w <=> req[w].at \in HoldsRow /\ req[w].who = s

\* What w's transaction has read of the rows it holds.
LockedReads(w) ==
  LET status == apps[req[w].who].status
      accepting == req[w].verdict = "ACCEPTED"
  IN
  /\ req[w].at = "submit_row" => allowsReapplication(status)
  /\ req[w].at \in {"decide_row", "withdraw_row", "repair_row"} =>
       status = "PENDING"
  /\ req[w].at \in {"submit_listing", "submit_row"} =>
       /\ listing.status = "ACTIVE" /\ listing.moderation = "APPROVED"
       /\ ~AwardsFilled
  /\ req[w].at = "decide_row" =>
       /\ accepting => ~AwardsFilled
       /\ req[w].closes <=> accepting /\ FillsLastSeat

\* What a transaction read of the rows it holds is still true when it commits:
\* "nothing read before this line is trusted", and what is read after it needs
\* no second look.  A student being accepted is pending and has an award left,
\* a submission finds its listing open and its row free.
LockedReadsHold == \A w \in Workers : LockedReads(w)

\* v holds the row that w waits for.
Blocks(v, w) ==
  /\ v # w
  /\ \/ req[w].at \in WaitsListing /\ listingLock = v
     \/ req[w].at \in WaitsRow /\ rowLock[req[w].who] = v

\* Among any workers one waits for none of the others: "opportunity before
\* application - the same order every writer of either row uses" leaves no
\* circle of requests waiting for each other's rows.
NoCircularWait ==
  \A W \in (SUBSET Workers) \ {{}} :
    \E w \in W : \A v \in W : ~Blocks(v, w)

\* No student is ever told of a decision other than the one on their row: two
\* reviewers, or a reviewer and the applicant withdrawing, cannot have the
\* second silently overturn what was already announced.
AnnouncedIsDecided ==
  \A s \in Students : told[s] \cap DECISIONS \subseteq {apps[s].status}

\* "Your application is now being reviewed" is sent at most once, however
\* many providers open the page together or refresh it.
ViewedToldOnce ==
  \A v, w \in Workers :
    req[v].at = "view_tell" =>
      /\ "VIEWED" \notin told[req[v].who]
      /\ req[w].at = "view_tell" /\ req[w].who = req[v].who => v = w

\* With no crash, lost file or failed deletion, a rejected or failed request
\* "cannot leave a file behind that no row refers to": what is in the store
\* belongs to a row or to a request that has yet to keep or delete it.
NoOrphanUpload == faults = 0 => files \subseteq Remembered

\* No step deletes a file that an application's committed row points at, bar
\* the store losing it: not a failed resubmission, which rolls back to the row
\* that has it, and not a repair racing a resubmission.
OwnFilesSurvive ==
  [][faults' = faults =>
       \A s \in Students : apps'[s].file \in files => apps'[s].file \in files'
    ]_vars

\* The listing's awards, seen from outside.
Ledger == INSTANCE AwardLedger WITH
  standing <- [s \in Students |-> apps[s].status],
  seats    <- listing.slots,
  open     <- listing.status = "ACTIVE" /\ listing.moderation = "APPROVED"

\* However requests interleave, stale copies are written and transactions fail,
\* the rows change as the ledger's atomic steps allow: decisions are final, no
\* application enters a listing that closed or filled while it was under way,
\* no award is granted twice, and the last one granted closes the listing.
ImplementsAwardLedger == Ledger!Spec

\* Every request comes to an end, whoever it has to wait for.
RequestsFinish ==
  \A w \in Workers : req[w].at # "idle" ~> req[w].at = "idle"

\* A decision that was committed reaches the applicant, if nothing fails.
DecisionsAnnounced ==
  \A s \in Students, verdict \in DECISIONS :
    apps[s].status = verdict ~> verdict \in told[s] \/ faults > 0

-----------------------------------------------------------------------------
(***************************************************************************)
(* What the repository says of the workflow and the code does not do       *)
(***************************************************************************)

\* "A listing that closed itself because its last slot filled stays closed":
\* extending its deadline, or editing it, makes it ACTIVE again.
FilledListingStaysClosed ==
  [][listing.status = "CLOSED" /\ AwardsFilled /\ AwardsFilled'
       => listing'.status # "ACTIVE"]_vars

=============================================================================
