----------------------- MODULE ListingLifecycle_proofs -----------------------
(***************************************************************************)
(* Proofs about ListingLifecycle, for every number of students, workers    *)
(* and administrators, every threshold and every kind of request.          *)
(***************************************************************************)
EXTENDS ListingLifecycle, TLAPS, FiniteSetTheorems

-----------------------------------------------------------------------------
(***************************************************************************)
(* The inductive invariant: what a stale copy may still say                *)
(***************************************************************************)

EnoughReported == Cardinality(Reporters) >= HideAfter

\* A draft is only ever loaded by the provider's own requests, and a request
\* about a draft remembers it as one.
DraftInv ==
  /\ DraftsArePrivate
  /\ \A w \in Workers :
       /\ row.moderation = "DRAFT" => req[w].at \in DraftSteps \cup {"idle"}
       /\ req[w].at \in DraftSteps => req[w].copy.moderation = "DRAFT"

\* Neither the row nor any copy of it is marked as reported, nor is a request
\* about to mark it, before enough students have reported.
HiddenInv ==
  /\ HiddenByEnough
  /\ \A w \in Workers :
       /\ REPORTED \in req[w].copy.flags => EnoughReported
       /\ req[w].enough => EnoughReported
       /\ req[w].at = "hide" => req[w].enough

-----------------------------------------------------------------------------
(***************************************************************************)
(* Types                                                                   *)
(***************************************************************************)

LEMMA IdleType == Idle \in Request /\ NoCopy \in Row
BY DEF Idle, NoCopy, Request, Row, Step

LEMMA WrittenType ==
  ASSUME row \in Row, NEW copy \in Row, NEW new \in Row
  PROVE  Written(copy, new) \in Row
BY DEF Row, Written, Dirty

LEMMA FinishType ==
  ASSUME TypeOK, NEW w \in Workers, Finish(w)
  PROVE  req' \in [Workers -> Request]
BY IdleType DEF TypeOK, Finish

LEMMA GotoType ==
  ASSUME TypeOK, NEW w \in Workers, NEW step \in Step, Goto(w, step)
  PROVE  req' \in [Workers -> Request]
BY DEF TypeOK, Goto, Request

LEMMA LoadType ==
  ASSUME TypeOK, NEW w \in Workers, NEW op \in Step,
         NEW who \in Students \cup Admins \cup {Nobody}, Load(w, op, who)
  PROVE  TypeOK'
<1>1. [Idle EXCEPT !.at = op, !.who = who, !.copy = row] \in Request
  BY IdleType DEF Request, TypeOK
<1> QED BY <1>1 DEF TypeOK, Load

LEMMA UpdateType ==
  ASSUME TypeOK, NEW w \in Workers, NEW new \in Row, Update(w, new)
  PROVE  row' \in Row
<1>1. req[w].copy \in Row
  BY DEF TypeOK, Request
<1> QED BY <1>1, WrittenType DEF Update, TypeOK

LEMMA ReviseType ==
  ASSUME TypeOK, Rewrite \/ UNCHANGED content
  PROVE  content' \in 1..MaxVersions
BY ConstantsAssumption DEF TypeOK, Rewrite

LEMMA ResolveType ==
  ASSUME TypeOK, NEW answer \in ReportStatus, resolveReports(answer)
  PROVE  reports' \in [Students -> ReportStatus]
BY DEF TypeOK, resolveReports

LEMMA ArriveType ==
  ASSUME TypeOK, NEW w \in Workers, Arrive(w)
  PROVE  TypeOK'
<1>1. PICK op \in Step, who \in Students \cup Admins \cup {Nobody} : Load(w, op, who)
  BY DEF Arrive, LoadDraft, LoadForEdit, LoadForVerdict, LoadAutoPublished,
         LoadReported, LoadForReport, Step, DraftSteps, ReportSteps, AdminSteps
<1> QED BY <1>1, LoadType

LEMMA ContinueType ==
  ASSUME TypeOK, NEW w \in Workers, Continue(w)
  PROVE  TypeOK'
<1> DEFINE copy == req[w].copy
<1>0. copy \in Row
  BY DEF TypeOK, Request
<1>1. CASE SaveDraft(w)
  <2>1. req' \in [Workers -> Request] /\ content' \in 1..MaxVersions
    BY <1>1, FinishType, ReviseType DEF SaveDraft, Revise
  <2> QED BY <1>1, <2>1 DEF SaveDraft, TypeOK
<1>2. CASE SubmitDraft(w)
  <2>1. PICK fresh \in SUBSET CheckerCodes, trust \in BOOLEAN :
          LET autoApprove == trust /\ fresh = {}
          IN /\ Update(w, [copy EXCEPT
                  !.moderation = IF autoApprove THEN "APPROVED" ELSE "PENDING",
                  !.flags = fresh,
                  !.auto = @ \/ autoApprove,
                  !.checked = @ /\ ~autoApprove])
             /\ trusted' = IF autoApprove /\ Exists THEN trusted \cup {content'}
                                                    ELSE trusted
    BY <1>2 DEF SubmitDraft
  <2> DEFINE autoApprove == trust /\ fresh = {}
             new == [copy EXCEPT
                       !.moderation = IF autoApprove THEN "APPROVED" ELSE "PENDING",
                       !.flags = fresh,
                       !.auto = @ \/ autoApprove,
                       !.checked = @ /\ ~autoApprove]
  <2>2. new \in Row
    BY <1>0 DEF Row, ModerationStatus
  <2>3. row' \in Row
    <3> HIDE DEF new
    <3>1. Update(w, new)
      BY <2>1 DEF new
    <3> QED BY <3>1, <2>2, UpdateType
  <2>4. req' \in [Workers -> Request] /\ content' \in 1..MaxVersions
    BY <1>2, FinishType, ReviseType DEF SubmitDraft, Revise
  <2>5. trusted' \in SUBSET (1..MaxVersions)
    BY <2>1, <2>4 DEF TypeOK
  <2> QED BY <1>2, <2>3, <2>4, <2>5 DEF SubmitDraft, TypeOK
<1>3. CASE DiscardDraft(w)
  <2>1. row' \in Row
    BY <1>3 DEF DiscardDraft, TypeOK, Row
  <2>2. req' \in [Workers -> Request]
    BY <1>3, FinishType DEF DiscardDraft
  <2> QED BY <1>3, <2>1, <2>2 DEF DiscardDraft, TypeOK
<1>4. CASE Edit(w)
  <2>1. PICK material \in BOOLEAN, fresh \in SUBSET CheckerCodes :
          LET base == IF EntersQueue(copy, material) THEN Requeued(copy) ELSE copy
          IN /\ IF material THEN Rewrite ELSE UNCHANGED content
             /\ Update(w, [base EXCEPT !.flags = withStickyFlags(@, fresh)])
    BY <1>4 DEF Edit
  <2> DEFINE base == IF EntersQueue(copy, material) THEN Requeued(copy) ELSE copy
             new == [base EXCEPT !.flags = withStickyFlags(@, fresh)]
  <2>2. base \in Row
    BY <1>0 DEF Row, Requeued, ModerationStatus
  <2>3. new \in Row
    <3> HIDE DEF base
    <3> QED BY <2>2 DEF Row, withStickyFlags
  <2>4. row' \in Row
    <3> HIDE DEF new
    <3>1. Update(w, new)
      BY <2>1 DEF new
    <3> QED BY <3>1, <2>3, UpdateType
  <2>5. req' \in [Workers -> Request] /\ content' \in 1..MaxVersions
    BY <1>4, <2>1, FinishType, ReviseType DEF Edit
  <2> QED BY <1>4, <2>4, <2>5 DEF Edit, TypeOK
<1>5. CASE Approve(w) \/ Reject(w) \/ confirmAutoPublished(w) \/ takeDown(w)
  <2>1. PICK new \in Row : Update(w, new)
    BY <1>0, <1>5 DEF Approve, Reject, confirmAutoPublished, takeDown, Row,
                      ModerationStatus
  <2>2. row' \in Row
    BY <2>1, UpdateType
  <2>3. req' \in [Workers -> Request]
    BY <1>5, FinishType DEF Approve, Reject, confirmAutoPublished, takeDown
  <2> QED BY <1>5, <2>2, <2>3
       DEF Approve, Reject, confirmAutoPublished, takeDown, TypeOK
<1>6. CASE InsertReport(w)
  <2>1. reports' \in [Students -> ReportStatus]
    BY <1>6 DEF InsertReport, TypeOK, ReportStatus
  <2>2. req' \in [Workers -> Request]
    BY <1>6, FinishType, GotoType DEF InsertReport, Step, ReportSteps
  <2> QED BY <1>6, <2>1, <2>2 DEF InsertReport, TypeOK
<1>7. CASE CountReporters(w)
  <2> DEFINE reached == Cardinality(Pending) >= HideAfter
  <2>1. reached \in BOOLEAN
    OBVIOUS
  <2>2. req' = [req EXCEPT ![w].at = "refresh", ![w].enough = reached]
    BY <1>7 DEF CountReporters
  <2>3. req' \in [Workers -> Request]
    <3> HIDE DEF reached
    <3> QED BY <2>1, <2>2 DEF TypeOK, Request, Step, ReportSteps
  <2> QED BY <1>7, <2>3 DEF CountReporters, TypeOK
<1>8. CASE Refresh(w)
  <2>1. req' \in [Workers -> Request]
    BY <1>8, FinishType DEF Refresh, TypeOK, Request, Step, ReportSteps
  <2> QED BY <1>8, <2>1 DEF Refresh, TypeOK
<1>9. CASE Hide(w)
  <2>1. PICK new \in Row : Update(w, new)
    BY <1>0, <1>9 DEF Hide, Requeued, Row, ModerationStatus
  <2>2. row' \in Row /\ req' \in [Workers -> Request]
    BY <1>9, <2>1, UpdateType, FinishType DEF Hide
  <2> QED BY <1>9, <2>2 DEF Hide, TypeOK
<1>10. CASE Dismiss(w)
  <2>1. [copy EXCEPT !.moderation = "APPROVED", !.flags = @ \ {REPORTED}] \in Row
    BY <1>0 DEF Row, ModerationStatus
  <2>2. row' \in Row
    BY <1>10, <2>1, UpdateType DEF Dismiss, TypeOK
  <2>3. req' \in [Workers -> Request] /\ reports' \in [Students -> ReportStatus]
    BY <1>10, FinishType, ResolveType DEF Dismiss, ReportStatus
  <2> QED BY <1>10, <2>2, <2>3 DEF Dismiss, TypeOK
<1>11. CASE Uphold(w)
  <2>1. req' \in [Workers -> Request]
    BY <1>11, FinishType, GotoType DEF Uphold, Step, AdminSteps
  <2>2. reports' \in [Students -> ReportStatus]
    BY <1>11, ResolveType DEF Uphold, ReportStatus
  <2> QED BY <1>11, <2>1, <2>2 DEF Uphold, TypeOK
<1> QED BY <1>1, <1>2, <1>3, <1>4, <1>5, <1>6, <1>7, <1>8, <1>9, <1>10, <1>11
     DEF Continue

LEMMA TypeStep ==
  ASSUME TypeOK, [Next]_vars
  PROVE  TypeOK'
<1>1. CASE \E w \in Workers : Arrive(w)
  BY <1>1, ArriveType
<1>2. CASE \E w \in Workers : Continue(w)
  BY <1>2, ContinueType
<1>3. CASE \E w \in Workers : Dies(w)
  BY <1>3, FinishType DEF Dies, TypeOK
<1>4. CASE \E a \in Admins : Look(a)
  BY <1>4 DEF Look, TypeOK
<1>5. CASE UNCHANGED vars
  BY <1>5 DEF vars, TypeOK
<1> QED BY <1>1, <1>2, <1>3, <1>4, <1>5 DEF Next

LEMMA InitType == Init => TypeOK
<1> SUFFICES ASSUME Init PROVE TypeOK
  OBVIOUS
<1>1. row \in Row
  BY IdleType DEF Init, NoCopy, Row, ModerationStatus
<1>2. req \in [Workers -> Request]
  BY IdleType DEF Init
<1>3. 1 \in 1..MaxVersions
  BY ConstantsAssumption
<1>4. trusted \in SUBSET (1..MaxVersions)
  BY <1>3 DEF Init
<1>5. viewers \subseteq Admins
  BY DEF Init
<1>6. reports \in [Students -> ReportStatus]
  BY DEF Init, ReportStatus
<1> QED BY <1>1, <1>2, <1>3, <1>4, <1>5, <1>6 DEF Init, TypeOK

\* Every variable keeps its type: the columns moderation writes, the versions
\* of what is offered, the reports, and what each request remembers.
THEOREM TypeCorrect == Spec => []TypeOK
BY InitType, TypeStep, PTL DEF Spec

-----------------------------------------------------------------------------
(***************************************************************************)
(* Reports                                                                 *)
(***************************************************************************)

\* Only a report and the answers touch the reports.
LEMMA ReportsStep ==
  ASSUME TypeOK, [Next]_vars
  PROVE  \/ UNCHANGED reports
         \/ \E s : reports[s] = "none" /\ reports' = [reports EXCEPT ![s] = "PENDING"]
         \/ \E answer \in {"DISMISSED", "UPHELD"} : resolveReports(answer)
<1>1. CASE \E w \in Workers : InsertReport(w) \/ Dismiss(w) \/ Uphold(w)
  BY <1>1 DEF InsertReport, Dismiss, Uphold
<1>2. CASE \E w \in Workers : Continue(w)
  BY <1>1, <1>2 DEF Continue, SaveDraft, SubmitDraft, DiscardDraft, Edit, Approve,
     Reject, confirmAutoPublished, takeDown, CountReporters, Refresh, Hide
<1>3. CASE \E w \in Workers : Arrive(w)
  BY <1>3 DEF Arrive, LoadDraft, LoadForEdit, LoadForVerdict, LoadAutoPublished,
     LoadReported, LoadForReport, Load
<1>4. CASE UNCHANGED vars \/ (\E w \in Workers : Dies(w)) \/ \E a \in Admins : Look(a)
  BY <1>4 DEF vars, Dies, Look
<1> QED BY <1>2, <1>3, <1>4 DEF Next

LEMMA AnswersStand ==
  ASSUME TypeOK, [Next]_vars, NEW s \in Students
  PROVE  /\ reports[s] \in {"DISMISSED", "UPHELD"} => reports'[s] = reports[s]
         /\ reports[s] # "none" => reports'[s] # "none"
<1>1. CASE UNCHANGED reports
  BY <1>1
<1>2. CASE \E t : reports[t] = "none" /\ reports' = [reports EXCEPT ![t] = "PENDING"]
  BY <1>2 DEF TypeOK
<1>3. CASE \E answer \in {"DISMISSED", "UPHELD"} : resolveReports(answer)
  BY <1>3 DEF resolveReports
<1> QED BY <1>1, <1>2, <1>3, ReportsStep

\* An administrator's answer to a report is final, whatever other
\* administrators and the reporting students do at the same time.
THEOREM AnsweredReportsStand == Spec => AnsweredOnce
<1>1. TypeOK /\ [Next]_vars =>
        [\A s \in Students : reports[s] \in {"DISMISSED", "UPHELD"}
                               => reports'[s] = reports[s]]_vars
  BY AnswersStand
<1> QED BY <1>1, TypeCorrect, PTL DEF Spec, AnsweredOnce

LEMMA ReportersFinite ==
  /\ IsFiniteSet(Reporters) /\ Cardinality(Reporters) \in Nat
  /\ IsFiniteSet(Pending) /\ Cardinality(Pending) \in Nat
  /\ Cardinality(Pending) <= Cardinality(Reporters)
<1>1. Reporters \subseteq Students /\ Pending \subseteq Reporters
  BY DEF Reporters, Pending
<1> QED BY <1>1, ConstantsAssumption, FS_Subset, FS_CardinalityType

\* Nobody takes a report back, so enough reports stay enough.
LEMMA EnoughStays ==
  ASSUME TypeOK, [Next]_vars, EnoughReported
  PROVE  EnoughReported'
<1> DEFINE After == {s \in Students : reports'[s] # "none"}
<1>1. Reporters \subseteq After
  BY AnswersStand DEF Reporters
<1>2. IsFiniteSet(After)
  BY ConstantsAssumption, FS_Subset
<1>3. Cardinality(Reporters) <= Cardinality(After)
  BY <1>1, <1>2, FS_Subset
<1>4. Cardinality(After) \in Nat /\ Cardinality(Reporters) \in Nat
  BY <1>2, ReportersFinite, FS_CardinalityType
<1>5. Reporters' = After
  BY DEF Reporters
<1>6. Cardinality(After) >= HideAfter
  BY <1>3, <1>4, ConstantsAssumption DEF EnoughReported
<1> HIDE DEF After
<1> QED BY <1>5, <1>6 DEF EnoughReported

-----------------------------------------------------------------------------
(***************************************************************************)
(* What an UPDATE by a stale copy can write                                *)
(***************************************************************************)

LEMMA UpdateWrites ==
  ASSUME NEW w \in Workers, NEW new, Update(w, new)
  PROVE  /\ row'.flags \in {row.flags, new.flags}
         /\ row'.moderation # row.moderation =>
              /\ row'.moderation = new.moderation
              /\ new.moderation # req[w].copy.moderation
         /\ Exists /\ new.moderation # req[w].copy.moderation =>
              row'.moderation = new.moderation
BY DEF Update, Written, Dirty

LEMMA OthersKeep ==
  ASSUME TypeOK, NEW w \in Workers, NEW v \in Workers, v # w, Arrive(w) \/ Continue(w) \/ Dies(w)
  PROVE  req'[v] = req[v]
BY DEF TypeOK, Arrive, LoadDraft, LoadForEdit, LoadForVerdict, LoadAutoPublished,
   LoadReported, LoadForReport, Load, Continue, SaveDraft, SubmitDraft, DiscardDraft,
   Edit, Approve, Reject, confirmAutoPublished, takeDown, InsertReport,
   CountReporters, Refresh, Hide, Dismiss, Uphold, Dies, Finish, Goto

\* What a step leaves its own request with.
LEMMA OwnRequest ==
  ASSUME TypeOK, NEW w \in Workers, Arrive(w) \/ Continue(w) \/ Dies(w)
  PROVE  \/ req'[w] = Idle
         \/ /\ req'[w].at \notin {"idle", "hide"} \cup DraftSteps
            /\ row.moderation # "DRAFT" \/ Pending # {}
            /\ req'[w].copy = row /\ ~req'[w].enough
         \/ /\ req'[w].at \in DraftSteps /\ row.moderation = "DRAFT"
            /\ req'[w].copy = row /\ ~req'[w].enough
         \/ /\ req'[w].at \in {"count", "takeDown"}
            /\ req[w].at \in {"report", "uphold"}
            /\ req'[w].copy = req[w].copy /\ req'[w].enough = req[w].enough
         \/ /\ req'[w].at = "refresh" /\ req[w].at = "count"
            /\ req'[w].copy = req[w].copy
            /\ req'[w].enough <=> Cardinality(Pending) >= HideAfter
         \/ /\ req'[w].at = "hide" /\ req[w].at = "refresh"
            /\ req'[w].copy = row /\ req'[w].enough /\ req[w].enough
<1>1. CASE Arrive(w)
  <2>1. PICK op, who : /\ Load(w, op, who)
                       /\ \/ /\ op \notin {"idle", "hide"} \cup DraftSteps
                             /\ row.moderation # "DRAFT" \/ Pending # {}
                          \/ op \in DraftSteps /\ row.moderation = "DRAFT"
    BY <1>1 DEF Arrive, LoadDraft, LoadForEdit, LoadForVerdict, requirePending,
       LoadAutoPublished, requireAutoPublished, LoadReported, LoadForReport, DraftSteps
  <2> QED BY <2>1 DEF Load, Idle, TypeOK
<1>2. CASE Finish(w)
  BY <1>2 DEF Finish, TypeOK
<1>3. CASE InsertReport(w) \/ Uphold(w)
  BY <1>2, <1>3 DEF InsertReport, Uphold, Goto, TypeOK, Request
<1>4. CASE CountReporters(w)
  BY <1>4 DEF CountReporters, TypeOK, Request
<1>5. CASE Refresh(w)
  BY <1>2, <1>5 DEF Refresh, TypeOK, Request
<1>6. CASE Continue(w) \/ Dies(w)
  BY <1>2, <1>3, <1>4, <1>5, <1>6
  DEF Continue, SaveDraft, SubmitDraft, DiscardDraft, Edit, Approve, Reject,
      confirmAutoPublished, takeDown, Hide, Dismiss, Dies
<1> QED BY <1>1, <1>6

\* The flags a step writes to the row.
LEMMA FlagsStep ==
  ASSUME TypeOK, NEW w \in Workers, Arrive(w) \/ Continue(w) \/ Dies(w),
         REPORTED \in row'.flags
  PROVE  REPORTED \in row.flags \cup req[w].copy.flags \/ req[w].at = "hide"
<1> DEFINE copy == req[w].copy
<1>0. copy \in Row
  BY DEF TypeOK, Request
<1>1. CASE UNCHANGED row
  BY <1>1
<1>2. CASE SubmitDraft(w)
  <2>1. PICK fresh \in SUBSET CheckerCodes, trust \in BOOLEAN :
          LET autoApprove == trust /\ fresh = {}
          IN Update(w, [copy EXCEPT
               !.moderation = IF autoApprove THEN "APPROVED" ELSE "PENDING",
               !.flags = fresh,
               !.auto = @ \/ autoApprove,
               !.checked = @ /\ ~autoApprove])
    BY <1>2 DEF SubmitDraft
  <2> DEFINE autoApprove == trust /\ fresh = {}
             new == [copy EXCEPT
                       !.moderation = IF autoApprove THEN "APPROVED" ELSE "PENDING",
                       !.flags = fresh,
                       !.auto = @ \/ autoApprove,
                       !.checked = @ /\ ~autoApprove]
  <2>2. new.flags = fresh
    BY <1>0 DEF Row
  <2>3. row'.flags \in {row.flags, new.flags}
    BY <2>1, UpdateWrites
  <2> QED BY <2>2, <2>3, ConstantsAssumption
<1>3. CASE Edit(w)
  <2>1. PICK material \in BOOLEAN, fresh \in SUBSET CheckerCodes :
          LET base == IF EntersQueue(copy, material) THEN Requeued(copy) ELSE copy
          IN Update(w, [base EXCEPT !.flags = withStickyFlags(@, fresh)])
    BY <1>3 DEF Edit
  <2> DEFINE base == IF EntersQueue(copy, material) THEN Requeued(copy) ELSE copy
             new == [base EXCEPT !.flags = withStickyFlags(@, fresh)]
  <2>2. base \in Row /\ base.flags = copy.flags
    BY <1>0 DEF Row, Requeued, ModerationStatus
  <2>3. new.flags = fresh \cup (copy.flags \cap {REPORTED})
    BY <2>2 DEF Row, withStickyFlags
  <2>4. row'.flags \in {row.flags, new.flags}
    BY <2>1, UpdateWrites
  <2> QED BY <2>3, <2>4, ConstantsAssumption
<1>4. CASE Approve(w)
  <2> DEFINE new == [copy EXCEPT !.moderation = "APPROVED", !.auto = FALSE,
                                 !.checked = FALSE]
  <2>1. row'.flags \in {row.flags, new.flags} /\ new.flags = copy.flags
    BY <1>0, <1>4, UpdateWrites DEF Approve, Row
  <2> QED BY <2>1
<1>7. CASE Reject(w)
  <2> DEFINE new == [copy EXCEPT !.moderation = "REJECTED"]
  <2>1. row'.flags \in {row.flags, new.flags} /\ new.flags = copy.flags
    BY <1>0, <1>7, UpdateWrites DEF Reject, Row
  <2> QED BY <2>1
<1>8. CASE confirmAutoPublished(w)
  <2> DEFINE new == [copy EXCEPT !.checked = TRUE]
  <2>1. row'.flags \in {row.flags, new.flags} /\ new.flags = copy.flags
    BY <1>0, <1>8, UpdateWrites DEF confirmAutoPublished, Row
  <2> QED BY <2>1
<1>9. CASE takeDown(w)
  <2> DEFINE new == [copy EXCEPT !.moderation = "REJECTED", !.checked = TRUE]
  <2>1. row'.flags \in {row.flags, new.flags} /\ new.flags = copy.flags
    BY <1>0, <1>9, UpdateWrites DEF takeDown, Row
  <2> QED BY <2>1
<1>10. CASE Dismiss(w)
  <2> DEFINE new == [copy EXCEPT !.moderation = "APPROVED", !.flags = @ \ {REPORTED}]
  <2>1. CASE HiddenByReports(copy)
    <3>1. row'.flags \in {row.flags, new.flags} /\ new.flags \subseteq copy.flags
      BY <1>0, <1>10, <2>1, UpdateWrites DEF Dismiss, Row
    <3> QED BY <3>1
  <2> QED BY <1>1, <1>10, <2>1 DEF Dismiss
<1>5. CASE DiscardDraft(w)
  BY <1>5 DEF DiscardDraft, TypeOK, Row
<1>6. CASE Hide(w)
  BY <1>6 DEF Hide
<1> QED BY <1>1, <1>2, <1>3, <1>4, <1>5, <1>6, <1>7, <1>8, <1>9, <1>10
  DEF Continue, SaveDraft, InsertReport, CountReporters, Refresh, Uphold, Dies,
      Arrive, LoadDraft, LoadForEdit, LoadForVerdict, LoadAutoPublished,
      LoadReported, LoadForReport, Load

LEMMA HiddenStep ==
  ASSUME TypeOK, HiddenInv, [Next]_vars
  PROVE  HiddenInv'
<1>1. ASSUME NEW w \in Workers, Arrive(w) \/ Continue(w) \/ Dies(w)
      PROVE  HiddenInv'
  <2>1. REPORTED \in row'.flags => EnoughReported
    BY <1>1, FlagsStep DEF HiddenInv, HiddenByEnough, EnoughReported
  <2>2. Cardinality(Pending) >= HideAfter => EnoughReported
    BY ReportersFinite, ConstantsAssumption DEF EnoughReported
  <2>3. ASSUME NEW v \in Workers
        PROVE  /\ REPORTED \in req'[v].copy.flags => EnoughReported
               /\ req'[v].enough => EnoughReported
               /\ req'[v].at = "hide" => req'[v].enough
    <3>1. CASE v = w
      BY <1>1, <2>2, <3>1, OwnRequest
      DEF HiddenInv, HiddenByEnough, EnoughReported, Idle, NoCopy, DraftSteps
    <3>2. CASE v # w
      BY <1>1, <3>2, OthersKeep DEF HiddenInv
    <3> QED BY <3>1, <3>2
  <2>4. EnoughReported => EnoughReported'
    BY EnoughStays
  <2> QED BY <2>1, <2>3, <2>4 DEF HiddenInv, HiddenByEnough, EnoughReported
<1>2. CASE UNCHANGED vars \/ \E a \in Admins : Look(a)
  <2>1. UNCHANGED <<row, reports, req>>
    BY <1>2 DEF vars, Look
  <2> QED BY <2>1 DEF HiddenInv, HiddenByEnough, EnoughReported, Reporters
<1> QED BY <1>1, <1>2 DEF Next

LEMMA HiddenInit == Init => HiddenInv
<1> SUFFICES ASSUME Init PROVE HiddenInv
  OBVIOUS
<1>1. row.flags = {}
  BY DEF Init, NoCopy
<1>2. \A w \in Workers : req[w] = Idle
  BY DEF Init
<1>3. Idle.at = "idle" /\ Idle.copy.flags = {} /\ ~Idle.enough
  BY DEF Idle, NoCopy
<1> QED BY <1>1, <1>2, <1>3 DEF HiddenInv, HiddenByEnough

\* The listing is marked as reported only after enough different students have
\* reported it, however stale the copies are by which reports are counted, the
\* listing is edited and reports are answered.
THEOREM HiddenOnlyByEnough == Spec => []HiddenByEnough
<1>1. HiddenInv => HiddenByEnough
  BY DEF HiddenInv
<1>2. Init => TypeOK /\ HiddenInv
  BY InitType, HiddenInit
<1>3. TypeOK /\ HiddenInv /\ [Next]_vars => TypeOK' /\ HiddenInv'
  BY TypeStep, HiddenStep
<1> QED BY <1>1, <1>2, <1>3, PTL DEF Spec

-----------------------------------------------------------------------------
(***************************************************************************)
(* Drafts                                                                  *)
(***************************************************************************)

\* No update makes a listing a draft again: a copy's status is written only
\* where the request changes it, and none changes it to that.
LEMMA NoNewDraft ==
  ASSUME TypeOK, NEW w \in Workers, Arrive(w) \/ Continue(w) \/ Dies(w),
         row'.moderation = "DRAFT"
  PROVE  row.moderation = "DRAFT"
<1> DEFINE copy == req[w].copy
<1>0. copy \in Row
  BY DEF TypeOK, Request
<1>1. CASE UNCHANGED row
  BY <1>1
<1>2. CASE SubmitDraft(w)
  <2>1. PICK fresh \in SUBSET CheckerCodes, trust \in BOOLEAN :
          LET autoApprove == trust /\ fresh = {}
          IN Update(w, [copy EXCEPT
               !.moderation = IF autoApprove THEN "APPROVED" ELSE "PENDING",
               !.flags = fresh,
               !.auto = @ \/ autoApprove,
               !.checked = @ /\ ~autoApprove])
    BY <1>2 DEF SubmitDraft
  <2> DEFINE autoApprove == trust /\ fresh = {}
             new == [copy EXCEPT
                       !.moderation = IF autoApprove THEN "APPROVED" ELSE "PENDING",
                       !.flags = fresh,
                       !.auto = @ \/ autoApprove,
                       !.checked = @ /\ ~autoApprove]
  <2>2. new.moderation # "DRAFT"
    BY <1>0 DEF Row
  <2>3. row'.moderation # row.moderation => row'.moderation = new.moderation
    BY <2>1, UpdateWrites
  <2> QED BY <2>2, <2>3
<1>3. CASE Edit(w)
  <2>1. PICK material \in BOOLEAN, fresh \in SUBSET CheckerCodes :
          LET base == IF EntersQueue(copy, material) THEN Requeued(copy) ELSE copy
          IN Update(w, [base EXCEPT !.flags = withStickyFlags(@, fresh)])
    BY <1>3 DEF Edit
  <2> DEFINE base == IF EntersQueue(copy, material) THEN Requeued(copy) ELSE copy
             new == [base EXCEPT !.flags = withStickyFlags(@, fresh)]
  <2>2. base \in Row /\ base.moderation \in {copy.moderation, "PENDING"}
    BY <1>0 DEF Row, Requeued, ModerationStatus
  <2>3. new.moderation = base.moderation
    BY <2>2 DEF Row
  <2>4. row'.moderation # row.moderation =>
          row'.moderation = new.moderation /\ new.moderation # copy.moderation
    BY <2>1, UpdateWrites
  <2> QED BY <2>2, <2>3, <2>4
<1>4. CASE Approve(w)
  <2> DEFINE new == [copy EXCEPT !.moderation = "APPROVED", !.auto = FALSE,
                                 !.checked = FALSE]
  <2>1. /\ row'.moderation # row.moderation => row'.moderation = new.moderation
        /\ new.moderation = "APPROVED"
    BY <1>0, <1>4, UpdateWrites DEF Approve, Row
  <2> QED BY <2>1
<1>5. CASE Reject(w)
  <2> DEFINE new == [copy EXCEPT !.moderation = "REJECTED"]
  <2>1. /\ row'.moderation # row.moderation => row'.moderation = new.moderation
        /\ new.moderation = "REJECTED"
    BY <1>0, <1>5, UpdateWrites DEF Reject, Row
  <2> QED BY <2>1
<1>6. CASE confirmAutoPublished(w)
  <2> DEFINE new == [copy EXCEPT !.checked = TRUE]
  <2>1. /\ row'.moderation # row.moderation => new.moderation # copy.moderation
        /\ new.moderation = copy.moderation
    BY <1>0, <1>6, UpdateWrites DEF confirmAutoPublished, Row
  <2> QED BY <2>1
<1>7. CASE takeDown(w)
  <2> DEFINE new == [copy EXCEPT !.moderation = "REJECTED", !.checked = TRUE]
  <2>1. /\ row'.moderation # row.moderation => row'.moderation = new.moderation
        /\ new.moderation = "REJECTED"
    BY <1>0, <1>7, UpdateWrites DEF takeDown, Row
  <2> QED BY <2>1
<1>8. CASE Dismiss(w)
  <2> DEFINE new == [copy EXCEPT !.moderation = "APPROVED", !.flags = @ \ {REPORTED}]
  <2>1. CASE HiddenByReports(copy)
    <3>1. /\ row'.moderation # row.moderation => row'.moderation = new.moderation
          /\ new.moderation = "APPROVED"
      BY <1>0, <1>8, <2>1, UpdateWrites DEF Dismiss, Row
    <3> QED BY <3>1
  <2> QED BY <1>1, <1>8, <2>1 DEF Dismiss
<1>9. CASE DiscardDraft(w)
  BY <1>9 DEF DiscardDraft, TypeOK, Row
<1>10. CASE Hide(w)
  <2> DEFINE new == [Requeued(copy) EXCEPT !.flags = @ \cup {REPORTED}]
  <2>1. /\ row'.moderation # row.moderation => row'.moderation = new.moderation
        /\ new.moderation = "PENDING"
    BY <1>0, <1>10, UpdateWrites DEF Hide, Requeued, Row
  <2> QED BY <2>1
<1> QED BY <1>1, <1>2, <1>3, <1>4, <1>5, <1>6, <1>7, <1>8, <1>9, <1>10
  DEF Continue, SaveDraft, InsertReport, CountReporters, Refresh, Uphold, Dies,
      Arrive, LoadDraft, LoadForEdit, LoadForVerdict, LoadAutoPublished,
      LoadReported, LoadForReport, Load

\* A step that leaves the listing a draft leaves all a draft keeps private alone.
LEMMA StillDraft ==
  ASSUME TypeOK, DraftInv, NEW w \in Workers, Arrive(w) \/ Continue(w) \/ Dies(w),
         row.moderation = "DRAFT", row'.moderation = "DRAFT"
  PROVE  UNCHANGED <<row, reports, viewers, decided, trusted>>
<1> DEFINE copy == req[w].copy
<1>0. /\ copy \in Row /\ Exists
      /\ req[w].at \in DraftSteps \cup {"idle"}
      /\ req[w].at \in DraftSteps => copy.moderation = "DRAFT"
      /\ Reporters = {}
  BY DEF TypeOK, Request, DraftInv, DraftsArePrivate, Exists
<1>1. ~SubmitDraft(w)
  <2> SUFFICES ASSUME SubmitDraft(w) PROVE FALSE
    OBVIOUS
  <2>1. PICK fresh \in SUBSET CheckerCodes, trust \in BOOLEAN :
          LET autoApprove == trust /\ fresh = {}
          IN Update(w, [copy EXCEPT
               !.moderation = IF autoApprove THEN "APPROVED" ELSE "PENDING",
               !.flags = fresh,
               !.auto = @ \/ autoApprove,
               !.checked = @ /\ ~autoApprove])
    BY DEF SubmitDraft
  <2> DEFINE autoApprove == trust /\ fresh = {}
             new == [copy EXCEPT
                       !.moderation = IF autoApprove THEN "APPROVED" ELSE "PENDING",
                       !.flags = fresh,
                       !.auto = @ \/ autoApprove,
                       !.checked = @ /\ ~autoApprove]
  <2>2. new.moderation # "DRAFT" /\ copy.moderation = "DRAFT"
    BY <1>0 DEF Row, SubmitDraft, DraftSteps
  <2>3. Exists /\ new.moderation # copy.moderation => row'.moderation = new.moderation
    <3>1. Update(w, new)
      BY <2>1
    <3> HIDE DEF new
    <3> QED BY <3>1, UpdateWrites
  <2> QED BY <1>0, <2>2, <2>3
<1>2. ~DiscardDraft(w)
  BY <1>0 DEF DiscardDraft, TypeOK, Row
<1>3. CASE SaveDraft(w) \/ Dies(w) \/ Arrive(w)
  BY <1>3 DEF SaveDraft, Dies, Arrive, LoadDraft, LoadForEdit, LoadForVerdict,
     LoadAutoPublished, LoadReported, LoadForReport, Load
<1> QED BY <1>0, <1>1, <1>2, <1>3
  DEF Continue, Edit, Approve, Reject, confirmAutoPublished, takeDown, InsertReport,
      CountReporters, Refresh, Hide, Dismiss, Uphold, DraftSteps

LEMMA DraftStep ==
  ASSUME TypeOK, DraftInv, [Next]_vars
  PROVE  DraftInv'
<1>1. ASSUME NEW w \in Workers, Arrive(w) \/ Continue(w) \/ Dies(w)
      PROVE  DraftInv'
  <2>1. row'.moderation = "DRAFT" =>
          /\ row.moderation = "DRAFT"
          /\ UNCHANGED <<row, reports, viewers, decided, trusted>>
    BY <1>1, NoNewDraft, StillDraft
  <2>2. row'.moderation = "DRAFT" => Pending = {}
    BY <2>1 DEF DraftInv, DraftsArePrivate, Reporters, Pending
  <2>3. ASSUME NEW v \in Workers
        PROVE  /\ row'.moderation = "DRAFT" => req'[v].at \in DraftSteps \cup {"idle"}
               /\ req'[v].at \in DraftSteps => req'[v].copy.moderation = "DRAFT"
    <3>1. CASE v = w
      <4>1. req'[w] = Idle => req'[w].at = "idle"
        BY DEF Idle
      <4>2. row'.moderation = "DRAFT" => req[w].at \in DraftSteps \cup {"idle"}
        BY <2>1 DEF DraftInv
      <4> QED BY <1>1, <2>1, <2>2, <3>1, <4>1, <4>2, OwnRequest DEF DraftSteps
    <3>2. CASE v # w
      BY <1>1, <2>1, <3>2, OthersKeep DEF DraftInv
    <3> QED BY <3>1, <3>2
  <2>4. DraftsArePrivate'
    BY <2>1 DEF DraftInv, DraftsArePrivate, Reporters
  <2> QED BY <2>3, <2>4 DEF DraftInv
<1>2. CASE \E a \in Admins : Look(a)
  BY <1>2 DEF Look, DraftInv, DraftsArePrivate
<1>3. CASE UNCHANGED vars
  BY <1>3 DEF vars, DraftInv, DraftsArePrivate, Reporters
<1> QED BY <1>1, <1>2, <1>3 DEF Next

LEMMA DraftInit == Init => DraftInv
<1> SUFFICES ASSUME Init PROVE DraftInv
  OBVIOUS
<1>1. \A w \in Workers : req[w].at = "idle"
  BY DEF Init, Idle
<1>2. Reporters = {} /\ REPORTED \notin row.flags /\ decided = {}
      /\ viewers = {}
  BY DEF Init, Reporters, NoCopy
<1>3. row.moderation = "DRAFT" => trusted = {}
  BY DEF Init, NoCopy
<1> QED BY <1>1, <1>2, <1>3 DEF DraftInv, DraftsArePrivate, DraftSteps

\* While a listing is a draft nobody but its provider has seen, judged or
\* reported it, and a listing that has left that state never returns to it,
\* whatever copies its requests still hold.
THEOREM DraftsStayPrivate == Spec => []DraftsArePrivate
<1>1. DraftInv => DraftsArePrivate
  BY DEF DraftInv
<1>2. Init => TypeOK /\ DraftInv
  BY InitType, DraftInit
<1>3. TypeOK /\ DraftInv /\ [Next]_vars => TypeOK' /\ DraftInv'
  BY TypeStep, DraftStep
<1> QED BY <1>1, <1>2, <1>3, PTL DEF Spec

-----------------------------------------------------------------------------
(***************************************************************************)
(* Requests that overlap                                                   *)
(***************************************************************************)

At(w, steps) == req[w].at \in steps

\* The provider submits or saves his draft in one request at a time.
DraftsApart == \A v, w \in Workers :
  v # w => ~(At(v, {"save", "submit"}) /\ At(w, {"save", "submit"}))

\* No listing is edited while a moderator's verdict on it is under way.
EditsApart == \A v, w \in Workers :
  v # w => ~(At(v, {"edit"}) /\ At(w, {"moderate"}))

\* Administrators put the listing up and take it down in one request at a time.
VerdictsApart == \A v, w \in Workers :
  v # w => ~(/\ At(v, {"moderate", "dismiss"})
             /\ At(w, {"moderate", "dismiss", "unpublish", "takeDown"}))

\* A request that saves or submits the draft holds it as it is, unless another
\* has discarded it.
FreshDrafts == \A w \in Workers :
  At(w, {"save", "submit"}) =>
    \/ row.moderation = "NONE"
    \/ row.moderation = "DRAFT" /\ req[w].copy = row

\* What each arrival remembers.
LEMMA Arrives ==
  ASSUME TypeOK, NEW w \in Workers, Arrive(w)
  PROVE  /\ UNCHANGED <<row, content, reports, decided, trusted, faults>>
         /\ req[w].at = "idle"
         /\ req'[w].copy = row
         /\ req'[w].at \in Ops
         /\ \/ At(w, DraftSteps)' /\ row.moderation = "DRAFT"
            \/ At(w, {"edit"})' /\ row.moderation \notin {"NONE", "DRAFT"}
            \/ At(w, {"moderate"})' /\ row.moderation = "PENDING"
            \/ At(w, {"confirm", "unpublish"})' /\ row.moderation = "APPROVED"
            \/ At(w, {"uphold", "dismiss", "report"})'
<1>1. ASSUME NEW op, NEW who, Load(w, op, who)
      PROVE  /\ req[w].at = "idle" /\ req'[w].copy = row /\ req'[w].at = op /\ op \in Ops
             /\ UNCHANGED <<row, content, reports, decided, trusted, faults>>
  BY <1>1 DEF Load, Idle, TypeOK
<1> QED BY <1>1
     DEF At, Arrive, LoadDraft, LoadForEdit, LoadForVerdict, LoadAutoPublished,
         LoadReported, LoadForReport, requirePending, requireAutoPublished

\* What a request that goes on is left with.
LEMMA GoesOn ==
  ASSUME TypeOK, NEW w \in Workers, Continue(w)
  PROVE  \/ At(w, {"idle"})'
         \/ At(w, {"count"})' /\ InsertReport(w)
         \/ At(w, {"refresh"})' /\ CountReporters(w)
         \/ /\ At(w, {"hide"})' /\ Refresh(w) /\ UNCHANGED row
            /\ req'[w].copy = row /\ row.moderation = "APPROVED"
            /\ req'[w].enough = req[w].enough
         \/ /\ At(w, {"takeDown"})' /\ Uphold(w)
            /\ req'[w].copy = req[w].copy
            /\ req[w].copy.moderation \in {"APPROVED", "PENDING"}
<1>1. CASE Finish(w)
  BY <1>1 DEF Finish, TypeOK, Idle, At
<1>2. CASE InsertReport(w) \/ CountReporters(w)
  BY <1>1, <1>2 DEF InsertReport, CountReporters, Goto, TypeOK, Request, At
<1>3. CASE Refresh(w)
  BY <1>1, <1>3 DEF Refresh, TypeOK, Request, At
<1>4. CASE Uphold(w)
  BY <1>1, <1>4 DEF Uphold, Goto, TypeOK, Request, At
<1> QED BY <1>1, <1>2, <1>3, <1>4
     DEF Continue, SaveDraft, SubmitDraft, DiscardDraft, Edit, Approve, Reject,
         confirmAutoPublished, takeDown, Hide, Dismiss

\* A listing that is gone is never written.
LEMMA GoneStays ==
  ASSUME TypeOK, NEW w \in Workers, Continue(w), row.moderation = "NONE"
  PROVE  row' = row
<1>1. ASSUME NEW new, Update(w, new)
      PROVE  row' = row
  BY <1>1 DEF Update, Written, Dirty, Exists, TypeOK, Row
<1>2. CASE DiscardDraft(w)
  BY <1>2 DEF DiscardDraft, TypeOK, Row
<1> QED BY <1>1, <1>2
     DEF Continue, SaveDraft, SubmitDraft, Edit, Approve, Reject,
         confirmAutoPublished, takeDown, InsertReport, CountReporters, Refresh,
         Hide, Dismiss, Uphold

-----------------------------------------------------------------------------
(***************************************************************************)
(* What each request writes, by whatever copy                              *)
(***************************************************************************)

SameModeration ==
  UNCHANGED <<row.moderation, row.auto, row.checked>>

\* A copy that is the row writes what it asks for.
LEMMA FreshUpdate ==
  ASSUME TypeOK, NEW w \in Workers, NEW new \in Row, Exists,
         req[w].copy = row, Update(w, new)
  PROVE  row' = new
<1>1. row' = [moderation |-> new.moderation, auto |-> new.auto,
              checked |-> new.checked, flags |-> new.flags]
  BY DEF Update, Written, Dirty
<1> QED BY <1>1 DEF Row

\* An edit queues the listing, or leaves its moderation alone, and then it has
\* changed what is offered only where its copy was waiting already.
LEMMA EditWrites ==
  ASSUME TypeOK, NEW w \in Workers, Edit(w)
  PROVE  \/ row'.moderation = "PENDING"
         \/ /\ SameModeration
            /\ content' = content \/ req[w].copy.moderation = "PENDING"
<1> DEFINE copy == req[w].copy
<1>1. copy \in Row /\ row \in Row
  BY DEF TypeOK, Request
<1>2. PICK material \in BOOLEAN, fresh \in SUBSET CheckerCodes :
        LET base == IF EntersQueue(copy, material) THEN Requeued(copy) ELSE copy
        IN /\ IF material THEN Rewrite ELSE UNCHANGED content
           /\ Update(w, [base EXCEPT !.flags = withStickyFlags(@, fresh)])
  BY DEF Edit
<1> DEFINE base == IF EntersQueue(copy, material) THEN Requeued(copy) ELSE copy
           new == [base EXCEPT !.flags = withStickyFlags(@, fresh)]
<1>3. base \in Row
  BY <1>1 DEF Row, Requeued, ModerationStatus
<1>4. /\ new.moderation = base.moderation /\ new.auto = base.auto
      /\ new.checked = base.checked
  <2> HIDE DEF base
  <2> QED BY <1>3 DEF Row
<1>5. Update(w, new)
  BY <1>2
<1>6. CASE ~EntersQueue(copy, material)
  <2>1. base = copy
    BY <1>6
  <2>2. SameModeration
    <3> HIDE DEF new, base
    <3> QED BY <1>4, <1>5, <2>1 DEF SameModeration, Update, Written, Dirty
  <2> QED BY <1>2, <1>6, <2>2 DEF EntersQueue
<1>7. CASE EntersQueue(copy, material)
  <2>1. base.moderation = "PENDING" /\ copy.moderation # "PENDING"
    BY <1>1, <1>7 DEF EntersQueue, Requeued, Row
  <2>2. CASE Exists
    <3> HIDE DEF new, base
    <3> QED BY <1>4, <1>5, <2>1, <2>2, UpdateWrites
  <2>3. CASE ~Exists
    <3>1. row' = row
      BY <2>3, GoneStays DEF Exists, Continue
    <3>2. content' = content
      BY <1>2, <2>3 DEF Rewrite
    <3> QED BY <3>1, <3>2 DEF SameModeration
  <2> QED BY <2>2, <2>3
<1> QED BY <1>6, <1>7

LEMMA ApproveWrites ==
  ASSUME TypeOK, NEW w \in Workers, Approve(w)
  PROVE  row'.moderation \in {row.moderation, "APPROVED"}
<1> DEFINE new == [req[w].copy EXCEPT !.moderation = "APPROVED", !.auto = FALSE,
                                      !.checked = FALSE]
<1>1. new.moderation = "APPROVED" /\ Update(w, new)
  BY DEF Approve, TypeOK, Request, Row
<1> HIDE DEF new
<1> QED BY <1>1, UpdateWrites

LEMMA RejectWrites ==
  ASSUME TypeOK, NEW w \in Workers, Reject(w)
  PROVE  SameModeration \/ row'.moderation = "REJECTED"
<1> DEFINE copy == req[w].copy
           new == [copy EXCEPT !.moderation = "REJECTED"]
<1>1. /\ new.moderation = "REJECTED" /\ new.auto = copy.auto
      /\ new.checked = copy.checked /\ Update(w, new)
  BY DEF Reject, TypeOK, Request, Row
<1> HIDE DEF new
<1> QED BY <1>1 DEF SameModeration, Update, Written, Dirty

LEMMA ConfirmWrites ==
  ASSUME TypeOK, NEW w \in Workers, confirmAutoPublished(w)
  PROVE  row'.moderation = row.moderation
<1> DEFINE new == [req[w].copy EXCEPT !.checked = TRUE]
<1>1. new.moderation = req[w].copy.moderation /\ Update(w, new)
  BY DEF confirmAutoPublished, TypeOK, Request, Row
<1> HIDE DEF new
<1> QED BY <1>1, UpdateWrites

LEMMA TakeDownWrites ==
  ASSUME TypeOK, NEW w \in Workers, takeDown(w), row.moderation # "NONE",
         req[w].copy.moderation \in {"APPROVED", "PENDING"}
  PROVE  row'.moderation = "REJECTED"
<1> DEFINE new == [req[w].copy EXCEPT !.moderation = "REJECTED", !.checked = TRUE]
<1>1. new.moderation = "REJECTED" /\ Update(w, new)
  BY DEF takeDown, TypeOK, Request, Row
<1> HIDE DEF new
<1> QED BY <1>1, UpdateWrites DEF Exists

LEMMA HideWrites ==
  ASSUME TypeOK, NEW w \in Workers, Hide(w)
  PROVE  /\ row'.moderation \in {row.moderation, "PENDING"}
         /\ row.moderation # "NONE" /\ req[w].copy.moderation = "APPROVED" =>
              row'.moderation = "PENDING"
<1> DEFINE waiting == Requeued(req[w].copy)
           new == [waiting EXCEPT !.flags = @ \cup {REPORTED}]
<1>1. waiting \in Row /\ waiting.moderation = "PENDING"
  BY DEF Requeued, TypeOK, Request, Row, ModerationStatus
<1>2. new.moderation = "PENDING"
  <2> HIDE DEF waiting
  <2> QED BY <1>1 DEF Row
<1>3. Update(w, new)
  BY DEF Hide
<1> HIDE DEF new
<1> QED BY <1>2, <1>3, UpdateWrites DEF Exists

LEMMA DismissWrites ==
  ASSUME TypeOK, NEW w \in Workers, Dismiss(w)
  PROVE  \/ UNCHANGED row
         \/ /\ HiddenByReports(req[w].copy)
            /\ row'.moderation \in {row.moderation, "APPROVED"}
<1> DEFINE new == [req[w].copy EXCEPT !.moderation = "APPROVED",
                                      !.flags = @ \ {REPORTED}]
<1>1. CASE HiddenByReports(req[w].copy)
  <2>1. new.moderation = "APPROVED" /\ Update(w, new)
    BY <1>1 DEF Dismiss, TypeOK, Request, Row
  <2> HIDE DEF new
  <2> QED BY <1>1, <2>1, UpdateWrites
<1>2. CASE ~HiddenByReports(req[w].copy)
  BY <1>2 DEF Dismiss
<1> QED BY <1>1, <1>2

\* A draft that is submitted waits, or is published and queued for a look.
LEMMA SubmitWrites ==
  ASSUME TypeOK, NEW w \in Workers, SubmitDraft(w),
         row.moderation = "DRAFT", req[w].copy = row
  PROVE  \/ row'.moderation = "PENDING"
         \/ /\ row'.moderation = "APPROVED" /\ row'.auto /\ ~row'.checked
            /\ content' \in trusted'
<1> DEFINE copy == req[w].copy
<1>1. row \in Row /\ Exists
  BY DEF TypeOK, Exists
<1>2. PICK fresh \in SUBSET CheckerCodes, trust \in BOOLEAN :
        LET autoApprove == trust /\ fresh = {}
        IN /\ Update(w, [copy EXCEPT
                !.moderation = IF autoApprove THEN "APPROVED" ELSE "PENDING",
                !.flags = fresh,
                !.auto = @ \/ autoApprove,
                !.checked = @ /\ ~autoApprove])
           /\ trusted' = IF autoApprove /\ Exists THEN trusted \cup {content'}
                                                  ELSE trusted
  BY DEF SubmitDraft
<1>3. CASE trust /\ fresh = {}
  <2> DEFINE new == [row EXCEPT !.moderation = "APPROVED", !.flags = fresh,
                                !.auto = TRUE, !.checked = FALSE]
  <2>1. new \in Row /\ new.moderation = "APPROVED" /\ new.auto /\ ~new.checked
    BY <1>1 DEF Row, ModerationStatus
  <2>2. Update(w, new) /\ trusted' = trusted \cup {content'}
    BY <1>1, <1>2, <1>3
  <2> HIDE DEF new
  <2> QED BY <1>1, <2>1, <2>2, FreshUpdate
<1>4. CASE ~(trust /\ fresh = {})
  <2> DEFINE new == [row EXCEPT !.moderation = "PENDING", !.flags = fresh]
  <2>1. new \in Row /\ new.moderation = "PENDING"
    BY <1>1 DEF Row, ModerationStatus
  <2>2. Update(w, new)
    BY <1>1, <1>2, <1>4 DEF Row
  <2> HIDE DEF new
  <2> QED BY <1>1, <2>1, <2>2, FreshUpdate
<1> QED BY <1>3, <1>4

LEMMA FreshDraftsStep ==
  ASSUME TypeOK, DraftInv, DraftsApart, FreshDrafts, [Next]_vars
  PROVE  FreshDrafts'
<1>1. ASSUME NEW w \in Workers, Arrive(w) \/ Continue(w) \/ Dies(w),
             NEW v \in Workers, At(v, {"save", "submit"})'
      PROVE  \/ row'.moderation = "NONE"
             \/ row'.moderation = "DRAFT" /\ req'[v].copy = row'
  <2>1. CASE v = w
    <3>1. ~Dies(w)
      BY <1>1, <2>1 DEF Dies, Finish, Idle, TypeOK, At
    <3>2. ~Continue(w)
      BY <1>1, <2>1, GoesOn DEF At
    <3> QED BY <1>1, <2>1, <3>1, <3>2, Arrives DEF At
  <2>2. CASE v # w
    <3>1. req'[v] = req[v] /\ At(v, {"save", "submit"})
      BY <1>1, <2>2, OthersKeep DEF At
    <3>2. CASE UNCHANGED row
      BY <3>1, <3>2 DEF FreshDrafts
    <3>3. CASE Continue(w) /\ row.moderation = "NONE"
      BY <3>2, <3>3, GoneStays
    <3>4. CASE Continue(w) /\ row.moderation = "DRAFT"
      <4>1. At(w, DraftSteps \cup {"idle"}) /\ ~At(w, {"save", "submit"})
        BY <2>2, <3>1, <3>4 DEF DraftInv, DraftsApart, At
      <4>2. DiscardDraft(w)
        BY <3>4, <4>1 DEF Continue, SaveDraft, SubmitDraft, Edit, Approve, Reject,
           confirmAutoPublished, takeDown, InsertReport, CountReporters, Refresh,
           Hide, Dismiss, Uphold, DraftSteps, At
      <4>3. row' = row \/ row'.moderation = "NONE"
        BY <4>2 DEF DiscardDraft, TypeOK, Row
      <4> QED BY <3>2, <4>3
    <3> QED BY <1>1, <3>1, <3>2, <3>3, <3>4, Arrives DEF Dies, FreshDrafts
  <2> QED BY <2>1, <2>2
<1>2. CASE (\E a \in Admins : Look(a)) \/ UNCHANGED vars
  <2>1. UNCHANGED <<row, req>>
    BY <1>2 DEF Look, vars
  <2> QED BY <2>1 DEF FreshDrafts, At
<1> QED BY <1>1, <1>2 DEF Next, FreshDrafts

-----------------------------------------------------------------------------
(***************************************************************************)
(* What is public is cleared, whatever overlaps                            *)
(***************************************************************************)

\* A request that takes the listing down, or hides it, holds a copy from which
\* that is a change; no edit believes a public listing waits for a verdict.
ClearInv ==
  /\ LiveIsCleared
  /\ FreshDrafts
  /\ \A w \in Workers :
       /\ At(w, {"edit"}) /\ req[w].copy.moderation = "PENDING" =>
            row.moderation # "APPROVED"
       /\ At(w, {"unpublish", "hide"}) => req[w].copy.moderation = "APPROVED"
       /\ At(w, {"takeDown"}) => req[w].copy.moderation \in {"APPROVED", "PENDING"}
       /\ ~At(w, {"dismiss"})

\* A listing that a request leaves as public as it was stays cleared.
LEMMA StillCleared ==
  ASSUME LiveIsCleared, SameModeration \/ UNCHANGED row, UNCHANGED <<decided, trusted>>,
         content' = content \/ row.moderation # "APPROVED"
  PROVE  LiveIsCleared'
BY DEF LiveIsCleared, SameModeration

\* What goes public was approved just now, or was a trusted provider's draft.
LEMMA ClearContinue ==
  ASSUME TypeOK, ClearInv, NEW w \in Workers, Continue(w)
  PROVE  /\ LiveIsCleared'
         /\ row.moderation # "APPROVED" /\ row'.moderation = "APPROVED" =>
              Approve(w) \/ row.moderation = "DRAFT"
<1> DEFINE Opens == row.moderation # "APPROVED" /\ row'.moderation = "APPROVED" =>
                      Approve(w) \/ row.moderation = "DRAFT"
<1>1. LiveIsCleared
  BY DEF ClearInv
<1>2. CASE SaveDraft(w)
  <2>1. row.moderation # "APPROVED"
    BY <1>2 DEF SaveDraft, ClearInv, FreshDrafts, At
  <2> QED BY <1>1, <1>2, <2>1, StillCleared DEF SaveDraft
<1>3. CASE SubmitDraft(w)
  <2>1. row.moderation = "NONE" \/ (row.moderation = "DRAFT" /\ req[w].copy = row)
    BY <1>3 DEF SubmitDraft, ClearInv, FreshDrafts, At
  <2>2. CASE row.moderation = "NONE"
    <3>1. row' = row
      BY <2>2, GoneStays
    <3> QED BY <2>2, <3>1 DEF LiveIsCleared
  <2>3. CASE row.moderation = "DRAFT" /\ req[w].copy = row
    BY <1>3, <2>3, SubmitWrites DEF LiveIsCleared
  <2> QED BY <2>1, <2>2, <2>3
<1>4. CASE DiscardDraft(w)
  <2>1. UNCHANGED row \/ row'.moderation = "NONE"
    BY <1>4 DEF DiscardDraft, TypeOK, Row
  <2>2. CASE UNCHANGED row
    BY <1>1, <1>4, <2>2, StillCleared DEF DiscardDraft
  <2>3. CASE row'.moderation = "NONE"
    BY <2>3 DEF LiveIsCleared
  <2> QED BY <2>1, <2>2, <2>3
<1>5. CASE Edit(w)
  <2>1. CASE row'.moderation = "PENDING"
    BY <2>1 DEF LiveIsCleared
  <2>2. CASE SameModeration /\ (content' = content \/ req[w].copy.moderation = "PENDING")
    <3>1. req[w].copy.moderation = "PENDING" => row.moderation # "APPROVED"
      BY <1>5 DEF Edit, ClearInv, At
    <3>2. LiveIsCleared'
      BY <1>1, <1>5, <2>2, <3>1, StillCleared DEF Edit
    <3> QED BY <2>2, <3>2 DEF SameModeration
  <2> QED BY <1>5, <2>1, <2>2, EditWrites
<1>6. CASE Approve(w)
  BY <1>6 DEF Approve, LiveIsCleared
<1>7. CASE Reject(w)
  <2>1. CASE SameModeration
    <3>1. LiveIsCleared'
      BY <1>1, <1>7, <2>1, StillCleared DEF Reject
    <3> QED BY <2>1, <3>1 DEF SameModeration
  <2>2. CASE row'.moderation = "REJECTED"
    BY <2>2 DEF LiveIsCleared
  <2> QED BY <1>7, <2>1, <2>2, RejectWrites
<1>8. CASE confirmAutoPublished(w)
  BY <1>8, ConfirmWrites DEF confirmAutoPublished, LiveIsCleared
<1>9. CASE takeDown(w)
  <2>1. req[w].copy.moderation \in {"APPROVED", "PENDING"}
    BY <1>9 DEF takeDown, ClearInv, At
  <2>2. CASE row.moderation = "NONE"
    <3>1. row' = row
      BY <2>2, GoneStays
    <3> QED BY <2>2, <3>1 DEF LiveIsCleared
  <2>3. CASE row.moderation # "NONE"
    BY <1>9, <2>1, <2>3, TakeDownWrites DEF LiveIsCleared
  <2> QED BY <2>2, <2>3
<1>10. CASE Hide(w)
  <2>1. req[w].copy.moderation = "APPROVED"
    BY <1>10 DEF Hide, ClearInv, At
  <2>2. CASE row.moderation = "NONE"
    <3>1. row' = row
      BY <2>2, GoneStays
    <3> QED BY <2>2, <3>1 DEF LiveIsCleared
  <2>3. CASE row.moderation # "NONE"
    BY <1>10, <2>1, <2>3, HideWrites DEF LiveIsCleared
  <2> QED BY <2>2, <2>3
<1>11. CASE InsertReport(w) \/ CountReporters(w) \/ Refresh(w) \/ Uphold(w)
  <2>1. UNCHANGED <<row, content, decided, trusted>>
    BY <1>11 DEF InsertReport, CountReporters, Refresh, Uphold
  <2> QED BY <1>1, <2>1, StillCleared
<1>12. ~Dismiss(w)
  BY DEF Dismiss, ClearInv, At
<1> QED BY <1>2, <1>3, <1>4, <1>5, <1>6, <1>7, <1>8, <1>9, <1>10, <1>11, <1>12
     DEF Continue

LEMMA ClearStep ==
  ASSUME "dismiss" \notin Ops, TypeOK, DraftInv, DraftsApart, EditsApart, ClearInv,
         [Next]_vars
  PROVE  ClearInv'
<1>1. ASSUME NEW w \in Workers, Arrive(w) \/ Continue(w) \/ Dies(w)
      PROVE  ClearInv'
  <2>1. LiveIsCleared'
    <3>1. CASE Continue(w)
      BY <3>1, ClearContinue
    <3>2. CASE Arrive(w) \/ Dies(w)
      <4>1. UNCHANGED <<row, content, decided, trusted>>
        BY <3>2, Arrives DEF Dies
      <4> QED BY <4>1, StillCleared DEF ClearInv
    <3> QED BY <1>1, <3>1, <3>2
  <2>2. FreshDrafts'
    BY FreshDraftsStep DEF ClearInv
  <2>3. ASSUME NEW v \in Workers
        PROVE  /\ At(v, {"edit"})' /\ req'[v].copy.moderation = "PENDING" =>
                    row'.moderation # "APPROVED"
               /\ At(v, {"unpublish", "hide"})' => req'[v].copy.moderation = "APPROVED"
               /\ At(v, {"takeDown"})' =>
                    req'[v].copy.moderation \in {"APPROVED", "PENDING"}
               /\ ~At(v, {"dismiss"})'
    <3>1. CASE v = w /\ Arrive(w)
      BY <3>1, Arrives DEF At, DraftSteps
    <3>2. CASE v = w /\ Continue(w)
      BY <3>2, GoesOn DEF At
    <3>3. CASE v = w /\ Dies(w)
      BY <3>3 DEF Dies, Finish, Idle, TypeOK, At
    <3>4. CASE v # w
      <4>1. req'[v] = req[v]
        BY <1>1, <3>4, OthersKeep
      <4>2. ASSUME At(v, {"edit"}), row.moderation # "APPROVED"
            PROVE  row'.moderation # "APPROVED"
        <5>1. row.moderation # "DRAFT"
          BY <4>2 DEF DraftInv, DraftSteps, At
        <5>2. ~Approve(w)
          BY <3>4, <4>2 DEF EditsApart, Approve, At
        <5>3. UNCHANGED row \/ Continue(w)
          BY <1>1, Arrives DEF Dies
        <5> QED BY <4>2, <5>1, <5>2, <5>3, ClearContinue
      <4> QED BY <4>1, <4>2 DEF ClearInv, At
    <3> QED BY <1>1, <3>1, <3>2, <3>3, <3>4
  <2> QED BY <2>1, <2>2, <2>3 DEF ClearInv
<1>2. CASE (\E a \in Admins : Look(a)) \/ UNCHANGED vars
  <2>1. UNCHANGED <<row, req, content, decided, trusted>>
    BY <1>2 DEF Look, vars
  <2> QED BY <2>1 DEF ClearInv, LiveIsCleared, FreshDrafts, At
<1> QED BY <1>1, <1>2 DEF Next

LEMMA ClearInit == Init => ClearInv
<1> SUFFICES ASSUME Init PROVE ClearInv
  OBVIOUS
<1>1. \A w \in Workers : req[w].at = "idle"
  BY DEF Init, Idle
<1>2. LiveIsCleared
  BY DEF Init, NoCopy, LiveIsCleared
<1> QED BY <1>1, <1>2 DEF ClearInv, FreshDrafts, At

\* However requests overlap, what is public was passed by an administrator or
\* is queued for one, as long as no reports are dismissed, the provider does not
\* submit a draft twice at once, and no edit overlaps a moderator's verdict
\* (OpportunityService::update, publishWithoutReview, confirmAutoPublished,
\* OpportunityReportService::hideIfReportedEnough).
THEOREM PublicIsCleared ==
  "dismiss" \notin Ops /\ Spec /\ [](DraftsApart /\ EditsApart) => []LiveIsCleared
<1> SUFFICES ASSUME "dismiss" \notin Ops
             PROVE  Spec /\ [](DraftsApart /\ EditsApart) => []LiveIsCleared
  OBVIOUS
<1>1. TypeOK /\ DraftInv /\ DraftsApart /\ EditsApart /\ ClearInv /\ [Next]_vars
        => ClearInv'
  BY ClearStep
<1>2. TypeOK /\ DraftInv /\ [Next]_vars => DraftInv'
  BY DraftStep
<1>3. ClearInv => LiveIsCleared
  BY DEF ClearInv
<1> QED BY <1>1, <1>2, <1>3, DraftInit, ClearInit, TypeCorrect, PTL DEF Spec

\* A request is at a step of a kind that arrives.
OpsInv == \A w \in Workers :
  req[w].at \in Ops \cup {"idle", "count", "refresh", "hide", "takeDown"}

LEMMA OpsOnly == Spec => []OpsInv
<1>1. Init => OpsInv
  BY DEF Init, Idle, OpsInv
<1>2. TypeOK /\ OpsInv /\ [Next]_vars => OpsInv'
  <2> SUFFICES ASSUME TypeOK, OpsInv, [Next]_vars, NEW v \in Workers
               PROVE  req'[v].at \in Ops \cup {"idle", "count", "refresh", "hide", "takeDown"}
    BY DEF OpsInv
  <2>1. ASSUME NEW w \in Workers, Arrive(w) \/ Continue(w) \/ Dies(w)
        PROVE  req'[v].at \in Ops \cup {"idle", "count", "refresh", "hide", "takeDown"}
    <3>1. CASE v = w /\ Arrive(w)
      BY <3>1, Arrives
    <3>2. CASE v = w /\ Continue(w)
      BY <3>2, GoesOn DEF At
    <3>3. CASE v = w /\ Dies(w)
      BY <3>3 DEF Dies, Finish, Idle, TypeOK
    <3>4. CASE v # w
      BY <2>1, <3>4, OthersKeep DEF OpsInv
    <3> QED BY <2>1, <3>1, <3>2, <3>3, <3>4
  <2>2. CASE (\E a \in Admins : Look(a)) \/ UNCHANGED vars
    BY <2>2 DEF Look, vars, OpsInv
  <2> QED BY <2>1, <2>2 DEF Next
<1> QED BY <1>1, <1>2, TypeCorrect, PTL DEF Spec

\* Edits, administrators' checks of what was published without review, reports
\* and upheld reports may overlap in any number and order: they never leave an
\* uncleared version public.
THEOREM ChecksMayRace ==
  Ops \cap {"save", "submit", "moderate", "dismiss"} = {} /\ Spec => []LiveIsCleared
<1> SUFFICES ASSUME Ops \cap {"save", "submit", "moderate", "dismiss"} = {}
             PROVE  Spec => []LiveIsCleared
  OBVIOUS
<1>1. OpsInv => DraftsApart /\ EditsApart
  BY DEF OpsInv, DraftsApart, EditsApart, At
<1>2. "dismiss" \notin Ops
  OBVIOUS
<1>3. Spec /\ [](DraftsApart /\ EditsApart) => []LiveIsCleared
  BY <1>2, PublicIsCleared
<1> QED BY <1>1, <1>3, OpsOnly, PTL

\* Requests do not overlap.
OneAtATime == \A v, w \in Workers : v = w

\* Where requests do not overlap, and no reports are dismissed, what is public
\* was passed by an administrator or is queued for one.
THEOREM PublicIsClearedOneAtATime ==
  OneAtATime /\ "dismiss" \notin Ops /\ Spec => []LiveIsCleared
<1> SUFFICES ASSUME OneAtATime, "dismiss" \notin Ops PROVE Spec => []LiveIsCleared
  OBVIOUS
<1>1. Spec /\ [](DraftsApart /\ EditsApart) => []LiveIsCleared
  BY PublicIsCleared
<1>2. TypeOK => DraftsApart /\ EditsApart
  BY DEF OneAtATime, DraftsApart, EditsApart
<1> QED BY <1>1, <1>2, TypeCorrect, PTL

-----------------------------------------------------------------------------
(***************************************************************************)
(* Verdicts                                                                *)
(***************************************************************************)

\* A request that is about to pass judgement on a listing that waits for one.
Judges(r) == r.at = "moderate" \/ (r.at = "dismiss" /\ HiddenByReports(r.copy))

\* What is being judged still waits, or is gone.
VerdictInv ==
  /\ FreshDrafts
  /\ \A w \in Workers : Judges(req[w]) => row.moderation \in {"PENDING", "NONE"}

\* Only a verdict, or an administrator who takes it down, moves a waiting listing.
LEMMA WaitingStays ==
  ASSUME TypeOK, FreshDrafts, NEW w \in Workers, Continue(w),
         row.moderation \in {"PENDING", "NONE"},
         ~At(w, {"moderate", "dismiss", "unpublish", "takeDown"})
  PROVE  row'.moderation \in {"PENDING", "NONE"}
<1>1. CASE row.moderation = "NONE"
  BY <1>1, GoneStays
<1>2. CASE row.moderation = "PENDING"
  <2>1. ~SubmitDraft(w)
    BY <1>2 DEF SubmitDraft, FreshDrafts, At
  <2>2. CASE Edit(w)
    BY <1>2, <2>2, EditWrites DEF SameModeration
  <2>3. CASE confirmAutoPublished(w)
    BY <1>2, <2>3, ConfirmWrites
  <2>4. CASE Hide(w)
    BY <1>2, <2>4, HideWrites
  <2>5. CASE DiscardDraft(w)
    BY <1>2, <2>5 DEF DiscardDraft, TypeOK, Row
  <2> QED BY <1>2, <2>1, <2>2, <2>3, <2>4, <2>5
       DEF Continue, SaveDraft, Approve, Reject, takeDown, InsertReport,
           CountReporters, Refresh, Dismiss, Uphold, At
<1> QED BY <1>1, <1>2

LEMMA VerdictStep ==
  ASSUME TypeOK, DraftInv, DraftsApart, VerdictsApart, VerdictInv, [Next]_vars
  PROVE  VerdictInv'
<1>1. FreshDrafts'
  BY FreshDraftsStep DEF VerdictInv
<1>2. ASSUME NEW w \in Workers, Arrive(w) \/ Continue(w) \/ Dies(w),
             NEW v \in Workers, Judges(req'[v])
      PROVE  row'.moderation \in {"PENDING", "NONE"}
  <2>1. CASE v = w
    <3>1. ~Continue(w)
      BY <1>2, <2>1, GoesOn DEF Judges, At
    <3>2. ~Dies(w)
      BY <1>2, <2>1 DEF Dies, Finish, Idle, TypeOK, Judges
    <3> QED BY <1>2, <2>1, <3>1, <3>2, Arrives
         DEF Judges, HiddenByReports, At, DraftSteps
  <2>2. CASE v # w
    <3>1. Judges(req[v])
      BY <1>2, <2>2, OthersKeep
    <3>2. row.moderation \in {"PENDING", "NONE"}
      BY <3>1 DEF VerdictInv
    <3>3. ~At(w, {"moderate", "dismiss", "unpublish", "takeDown"})
      BY <2>2, <3>1 DEF VerdictsApart, Judges, At
    <3>4. UNCHANGED row \/ Continue(w)
      BY <1>2, Arrives DEF Dies
    <3> QED BY <3>2, <3>3, <3>4, WaitingStays DEF VerdictInv
  <2> QED BY <2>1, <2>2
<1>3. CASE (\E a \in Admins : Look(a)) \/ UNCHANGED vars
  <2>1. UNCHANGED <<row, req>>
    BY <1>3 DEF Look, vars
  <2> QED BY <2>1 DEF VerdictInv, FreshDrafts, At
<1> QED BY <1>1, <1>2, <1>3 DEF Next, VerdictInv

LEMMA VerdictInit == Init => VerdictInv
<1> SUFFICES ASSUME Init PROVE VerdictInv
  OBVIOUS
<1>1. \A w \in Workers : req[w].at = "idle"
  BY DEF Init, Idle
<1> QED BY <1>1 DEF VerdictInv, FreshDrafts, Judges, At

LegalMove ==
  \/ row'.moderation = row.moderation
  \/ <<row.moderation, row'.moderation>> \in MODERATION_TRANSITIONS

LEMMA LegalMoves ==
  ASSUME TypeOK, DraftInv, VerdictInv, NEW w \in Workers,
         Approve(w) \/ Reject(w) \/ Edit(w) \/ Hide(w) \/ Dismiss(w)
  PROVE  LegalMove
<1> USE DEF LegalMove, MODERATION_TRANSITIONS
<1>1. CASE row.moderation = "NONE"
  BY <1>1, GoneStays DEF Continue
<1>2. ASSUME row.moderation # "NONE"
      PROVE  /\ Judges(req[w]) => row.moderation = "PENDING"
             /\ At(w, {"edit", "hide"}) =>
                  row.moderation \in {"PENDING", "APPROVED", "REJECTED"}
  BY <1>2 DEF VerdictInv, DraftInv, DraftSteps, TypeOK, Row, ModerationStatus, At
<1>3. CASE row.moderation # "NONE" /\ Approve(w)
  BY <1>2, <1>3, ApproveWrites DEF Approve, Judges
<1>4. CASE row.moderation # "NONE" /\ Reject(w)
  BY <1>2, <1>4, RejectWrites DEF Reject, Judges, SameModeration
<1>5. CASE row.moderation # "NONE" /\ Edit(w)
  BY <1>2, <1>5, EditWrites DEF Edit, At, SameModeration
<1>6. CASE row.moderation # "NONE" /\ Hide(w)
  BY <1>2, <1>6, HideWrites DEF Hide, At
<1>7. CASE row.moderation # "NONE" /\ Dismiss(w)
  BY <1>2, <1>7, DismissWrites DEF Dismiss, Judges
<1> QED BY <1>1, <1>3, <1>4, <1>5, <1>6, <1>7

\* However many requests overlap, and whatever else they do, each verdict, edit,
\* hiding and dismissal is a legal move of the listing as it is when it is
\* written, as long as administrators put the listing up and take it down in one
\* request at a time and a draft is submitted in one
\* (OpportunityLifecycle::MODERATION_TRANSITIONS).
THEOREM VerdictsAreLegal ==
  Spec /\ [](DraftsApart /\ VerdictsApart) => MovesAreLegal
<1> DEFINE Moves == \A w \in Workers :
      Approve(w) \/ Reject(w) \/ Edit(w) \/ Hide(w) \/ Dismiss(w) => LegalMove
<1>1. TypeOK /\ DraftInv /\ DraftsApart /\ VerdictsApart /\ VerdictInv /\ [Next]_vars
        => VerdictInv'
  BY VerdictStep
<1>2. TypeOK /\ DraftInv /\ [Next]_vars => DraftInv'
  BY DraftStep
<1>3. TypeOK /\ DraftInv /\ VerdictInv => [Moves]_vars
  BY LegalMoves
<1>4. Spec /\ [](DraftsApart /\ VerdictsApart) => [][Moves]_vars
  BY <1>1, <1>2, <1>3, DraftInit, VerdictInit, TypeCorrect, PTL DEF Spec
<1> QED BY <1>4 DEF MovesAreLegal, LegalMove

\* Where requests do not overlap, each move of the moderation is a legal one,
\* the dismissal of reports included.
THEOREM MovesAreLegalOneAtATime == OneAtATime /\ Spec => MovesAreLegal
<1> SUFFICES ASSUME OneAtATime PROVE Spec => MovesAreLegal
  OBVIOUS
<1>1. TypeOK => DraftsApart /\ VerdictsApart
  BY DEF OneAtATime, DraftsApart, VerdictsApart
<1>2. Spec /\ [](DraftsApart /\ VerdictsApart) => MovesAreLegal
  BY VerdictsAreLegal
<1> QED BY <1>1, <1>2, TypeCorrect, PTL

-----------------------------------------------------------------------------
(***************************************************************************)
(* Reports that are enough                                                 *)
(***************************************************************************)

\* A request that will still act on the reports.
Counts(r) == r.at = "count" \/ (r.at \in {"refresh", "hide"} /\ r.enough)

\* A public listing that enough students have reported is on its way down, unless
\* a request has died (OpportunityReportService::hideIfReportedEnough).
ReportsAreNotForgotten ==
  faults = 0 /\ row.moderation = "APPROVED" /\ Cardinality(Pending) >= HideAfter
    => \E w \in Workers : Counts(req[w])

ForgetInv ==
  /\ ReportsAreNotForgotten
  /\ FreshDrafts
  /\ \A w \in Workers :
       /\ At(w, {"hide"}) => req[w].copy.moderation = "APPROVED"
       /\ ~At(w, {"moderate", "dismiss"})

\* Without verdicts and dismissals, only a draft's submission makes it public.
LEMMA NothingOpens ==
  ASSUME TypeOK, ForgetInv, NEW w \in Workers, Continue(w),
         row'.moderation = "APPROVED"
  PROVE  row.moderation = "APPROVED" \/ (row.moderation = "DRAFT" /\ UNCHANGED reports)
<1>1. CASE SubmitDraft(w)
  <2>1. row.moderation \in {"NONE", "DRAFT"}
    BY <1>1 DEF SubmitDraft, ForgetInv, FreshDrafts, At
  <2> QED BY <1>1, <2>1, GoneStays DEF SubmitDraft
<1>2. CASE Edit(w)
  BY <1>2, EditWrites DEF SameModeration
<1>3. CASE confirmAutoPublished(w)
  BY <1>3, ConfirmWrites
<1>4. CASE takeDown(w)
  <2> DEFINE new == [req[w].copy EXCEPT !.moderation = "REJECTED", !.checked = TRUE]
  <2>1. new.moderation = "REJECTED" /\ Update(w, new)
    BY <1>4 DEF takeDown, TypeOK, Request, Row
  <2> HIDE DEF new
  <2> QED BY <2>1, UpdateWrites
<1>5. CASE Hide(w)
  BY <1>5, HideWrites
<1>6. CASE DiscardDraft(w)
  BY <1>6 DEF DiscardDraft, TypeOK, Row
<1>7. ~(Approve(w) \/ Reject(w) \/ Dismiss(w))
  BY DEF Approve, Reject, Dismiss, ForgetInv, At
<1> QED BY <1>1, <1>2, <1>3, <1>4, <1>5, <1>6, <1>7
     DEF Continue, SaveDraft, InsertReport, CountReporters, Refresh, Uphold

\* Only a new report, which its request goes on to count, adds to those pending.
LEMMA PendingGrows ==
  ASSUME TypeOK, NEW w \in Workers, Continue(w)
  PROVE  At(w, {"count"})' \/ Pending' \subseteq Pending
<1>1. CASE InsertReport(w)
  BY <1>1 DEF InsertReport, Goto, TypeOK, Request, Pending, At
<1>2. CASE Dismiss(w) \/ Uphold(w)
  <2>1. \E answer \in {"DISMISSED", "UPHELD"} : resolveReports(answer)
    BY <1>2 DEF Dismiss, Uphold
  <2> QED BY <2>1 DEF resolveReports, Pending
<1> QED BY <1>1, <1>2
     DEF Continue, SaveDraft, SubmitDraft, DiscardDraft, Edit, Approve, Reject,
         confirmAutoPublished, takeDown, CountReporters, Refresh, Hide, Pending

\* A request that counts goes on counting until the listing is not public.
LEMMA CountsOn ==
  ASSUME TypeOK, ForgetInv, NEW w \in Workers, Continue(w), Counts(req[w]),
         row.moderation = "APPROVED", row'.moderation = "APPROVED",
         Cardinality(Pending) >= HideAfter
  PROVE  Counts(req'[w])
<1>1. CASE CountReporters(w)
  BY <1>1 DEF CountReporters, TypeOK, Request, Counts
<1>2. CASE Refresh(w)
  BY <1>2 DEF Refresh, TypeOK, Request, Counts
<1>3. CASE Hide(w)
  <2>1. req[w].copy.moderation = "APPROVED"
    BY <1>3 DEF Hide, ForgetInv, At
  <2> QED BY <1>3, <2>1, HideWrites
<1> QED BY <1>1, <1>2, <1>3
     DEF Counts, Continue, SaveDraft, SubmitDraft, DiscardDraft, Edit, Approve,
         Reject, confirmAutoPublished, takeDown, InsertReport, Dismiss, Uphold

LEMMA ForgetStep ==
  ASSUME Ops \cap {"moderate", "dismiss"} = {}, TypeOK, DraftInv, DraftsApart,
         ForgetInv, [Next]_vars
  PROVE  ForgetInv'
<1>1. ASSUME NEW w \in Workers, Continue(w), faults' = 0,
             row'.moderation = "APPROVED", Cardinality(Pending') >= HideAfter
      PROVE  \E v \in Workers : Counts(req'[v])
  <2>1. CASE At(w, {"count"})'
    BY <2>1 DEF Counts, At
  <2>2. CASE Pending' \subseteq Pending
    <3>1. Cardinality(Pending') <= Cardinality(Pending) /\ Cardinality(Pending') \in Nat
      BY <2>2, ReportersFinite, FS_Subset, FS_CardinalityType
    <3>2. Cardinality(Pending) >= HideAfter
      BY <1>1, <3>1, ReportersFinite, ConstantsAssumption
    <3>3. row.moderation # "DRAFT"
      <4>1. Pending # {}
        BY <3>2, FS_EmptySet, ConstantsAssumption
      <4> QED BY <4>1 DEF DraftInv, DraftsArePrivate, Reporters, Pending
    <3>4. row.moderation = "APPROVED"
      BY <1>1, <3>3, NothingOpens
    <3>5. faults = 0
      BY <1>1 DEF Continue, SaveDraft, SubmitDraft, DiscardDraft, Edit, Approve,
         Reject, confirmAutoPublished, takeDown, InsertReport, CountReporters,
         Refresh, Hide, Dismiss, Uphold
    <3>6. PICK v \in Workers : Counts(req[v])
      BY <3>2, <3>4, <3>5 DEF ForgetInv, ReportsAreNotForgotten
    <3>7. CASE v = w
      BY <1>1, <3>2, <3>4, <3>6, <3>7, CountsOn
    <3>8. CASE v # w
      BY <1>1, <3>6, <3>8, OthersKeep
    <3> QED BY <3>7, <3>8
  <2> QED BY <1>1, <2>1, <2>2, PendingGrows
<1>2. ASSUME NEW w \in Workers, Arrive(w)
      PROVE  ReportsAreNotForgotten'
  <2>1. UNCHANGED <<row, reports, faults>> /\ req[w].at = "idle"
    BY <1>2, Arrives
  <2>2. \A v \in Workers : Counts(req[v]) => req'[v] = req[v]
    BY <1>2, <2>1, OthersKeep DEF Counts
  <2> QED BY <2>1, <2>2 DEF ForgetInv, ReportsAreNotForgotten, Pending
<1>3. ASSUME NEW w \in Workers, Dies(w)
      PROVE  ReportsAreNotForgotten'
  BY <1>3 DEF Dies, TypeOK, ReportsAreNotForgotten
<1>4. ASSUME NEW w \in Workers, Arrive(w) \/ Continue(w) \/ Dies(w), NEW v \in Workers
      PROVE  /\ At(v, {"hide"})' => req'[v].copy.moderation = "APPROVED"
             /\ ~At(v, {"moderate", "dismiss"})'
  <2>1. CASE v = w /\ Arrive(w)
    BY <2>1, Arrives DEF At, DraftSteps
  <2>2. CASE v = w /\ Continue(w)
    BY <2>2, GoesOn DEF At
  <2>3. CASE v = w /\ Dies(w)
    BY <2>3 DEF Dies, Finish, Idle, TypeOK, At
  <2>4. CASE v # w
    BY <1>4, <2>4, OthersKeep DEF ForgetInv, At
  <2> QED BY <1>4, <2>1, <2>2, <2>3, <2>4
<1>5. CASE (\E a \in Admins : Look(a)) \/ UNCHANGED vars
  <2>1. UNCHANGED <<row, req, reports, faults>>
    BY <1>5 DEF Look, vars
  <2> QED BY <2>1 DEF ForgetInv, ReportsAreNotForgotten, Pending, FreshDrafts, At
<1>6. FreshDrafts'
  BY FreshDraftsStep DEF ForgetInv
<1>7. ASSUME NEW w \in Workers, Arrive(w) \/ Continue(w) \/ Dies(w)
      PROVE  ForgetInv'
  <2>1. Continue(w) => ReportsAreNotForgotten'
    BY <1>1 DEF ReportsAreNotForgotten
  <2> QED BY <1>2, <1>3, <1>4, <1>6, <1>7, <2>1 DEF ForgetInv
<1> QED BY <1>5, <1>7 DEF Next

LEMMA ForgetInit == Init => ForgetInv
<1> SUFFICES ASSUME Init PROVE ForgetInv
  OBVIOUS
<1>1. \A w \in Workers : req[w].at = "idle"
  BY DEF Init, Idle
<1>2. Pending = {}
  BY DEF Init, Pending
<1>3. ~(Cardinality(Pending) >= HideAfter)
  BY <1>2, FS_EmptySet, ConstantsAssumption
<1> QED BY <1>1, <1>3 DEF ForgetInv, ReportsAreNotForgotten, FreshDrafts, At

\* Where no verdict and no dismissal can put the listing back, enough reports are
\* never forgotten: while the listing is public, some request that has not died
\* will still count them or is about to hide it.  With every request going on,
\* this is why ReportedComesDown holds.
THEOREM ReportsAreActedOn ==
  Ops \cap {"moderate", "dismiss"} = {} /\ Spec /\ []DraftsApart
    => []ReportsAreNotForgotten
<1> SUFFICES ASSUME Ops \cap {"moderate", "dismiss"} = {}
             PROVE  Spec /\ []DraftsApart => []ReportsAreNotForgotten
  OBVIOUS
<1>1. TypeOK /\ DraftInv /\ DraftsApart /\ ForgetInv /\ [Next]_vars => ForgetInv'
  BY ForgetStep
<1>2. TypeOK /\ DraftInv /\ [Next]_vars => DraftInv'
  BY DraftStep
<1>3. ForgetInv => ReportsAreNotForgotten
  BY DEF ForgetInv
<1> QED BY <1>1, <1>2, <1>3, DraftInit, ForgetInit, TypeCorrect, PTL DEF Spec

===============================================================================
