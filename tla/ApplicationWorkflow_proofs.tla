--------------------- MODULE ApplicationWorkflow_proofs ---------------------
(***************************************************************************)
(* Proofs about ApplicationWorkflow, for every number of students,         *)
(* workers, files and faults.                                              *)
(***************************************************************************)
EXTENDS ApplicationWorkflow, TLAPS, FiniteSetTheorems

-----------------------------------------------------------------------------
(***************************************************************************)
(* The inductive invariant: where a request stands says what it remembers, *)
(* which locks it holds, and what it may rely on in the rows it has locked *)
(***************************************************************************)

Deciding == {"decide_start", "decide_listing", "decide_row", "decide_tell"}

\* A request about an application names its student, one that decides has a
\* verdict, and one about to announce a verdict has committed it.
RequestOK(w) ==
  /\ req[w].at \notin {"idle", "abandon", "listing_write"} =>
       req[w].who \in Students
  /\ req[w].at \in Deciding => req[w].verdict \in DECISIONS
  /\ req[w].at = "decide_tell" => apps[req[w].who].status = req[w].verdict

RequestInv == \A w \in Workers : RequestOK(w)

IInv ==
  /\ TypeOK
  /\ RequestInv
  /\ LockInv
  /\ LockedReadsHold
  /\ AnnouncedIsDecided

-----------------------------------------------------------------------------
(***************************************************************************)
(* Types                                                                   *)
(***************************************************************************)

LEMMA IdleType == Idle \in Request
BY DEF Idle, Request, Step, Clean, Dirty

LEMMA FinishType ==
  ASSUME TypeOK, NEW w \in Workers, Finish(w)
  PROVE  req' \in [Workers -> Request]
BY IdleType DEF TypeOK, Finish

LEMMA GotoType ==
  ASSUME TypeOK, NEW w \in Workers, NEW step \in Step, Goto(w, step)
  PROVE  req' \in [Workers -> Request]
BY DEF TypeOK, Goto, Request

LEMMA RefuseType ==
  ASSUME TypeOK, NEW w \in Workers, Refuse(w)
  PROVE  req' \in [Workers -> Request]
BY IdleType DEF TypeOK, Refuse, Request, Step

LEMMA ReleaseType ==
  ASSUME TypeOK, NEW w \in Workers, ReleaseLocks(w)
  PROVE  /\ listingLock' \in Workers \cup {Nobody}
         /\ rowLock' \in [Students -> Workers \cup {Nobody}]
BY DEF TypeOK, ReleaseLocks

LEMMA DiscardType ==
  ASSUME TypeOK, NEW f, Discard(f)
  PROVE  files' \in SUBSET Files /\ faults' \in Nat
BY DEF TypeOK, Discard

LEMMA TellType ==
  ASSUME TypeOK, NEW s \in Students, NEW n \in Notice, Tell(s, n)
  PROVE  told' \in [Students -> SUBSET Notice] /\ faults' \in Nat
BY DEF TypeOK, Tell

LEMMA StoreType ==
  ASSUME TypeOK, NEW w \in Workers, NEW r \in Request, NEW attach \in BOOLEAN,
         StoreUpload(w, r, attach)
  PROVE  req' \in [Workers -> Request] /\ files' \in SUBSET Files
BY DEF TypeOK, StoreUpload, Request, FreshFiles

LEMMA ArriveType ==
  ASSUME TypeOK, NEW w \in Workers, Arrive(w)
  PROVE  TypeOK'
<1>1. CASE \E s \in Students, attach \in BOOLEAN : BeginSubmit(w, s, attach)
  <2>1. PICK s \in Students, attach \in BOOLEAN : BeginSubmit(w, s, attach)
    BY <1>1
  <2>2. [Idle EXCEPT !.at = "submit_start", !.who = s] \in Request
    BY IdleType DEF Request, Step
  <2> QED BY <2>1, <2>2, StoreType DEF BeginSubmit, TypeOK
<1>2. CASE \E s \in Students, verdict \in DECISIONS : BeginDecide(w, s, verdict)
  <2>1. PICK s \in Students, verdict \in DECISIONS : BeginDecide(w, s, verdict)
    BY <1>2
  <2>2. [Idle EXCEPT !.at = "decide_start", !.who = s, !.verdict = verdict]
          \in Request
    BY IdleType DEF Request, Step
  <2> QED BY <2>1, <2>2 DEF BeginDecide, TypeOK
<1>3. CASE \E s \in Students : BeginWithdraw(w, s)
  <2>1. PICK s \in Students : BeginWithdraw(w, s)
    BY <1>3
  <2>2. [Idle EXCEPT !.at = "withdraw_start", !.who = s] \in Request
    BY IdleType DEF Request, Step
  <2> QED BY <2>1, <2>2 DEF BeginWithdraw, TypeOK
<1>4. CASE \E s \in Students : BeginView(w, s)
  <2>1. PICK s \in Students : BeginView(w, s)
    BY <1>4
  <2>2. [Idle EXCEPT !.at = "view_start", !.who = s] \in Request
    BY IdleType DEF Request, Step
  <2> QED BY <2>1, <2>2 DEF BeginView, TypeOK
<1>5. CASE \E s \in Students : BeginRepair(w, s)
  <2>1. PICK s \in Students : BeginRepair(w, s)
    BY <1>5
  <2>2. [Idle EXCEPT !.at = "repair_start", !.who = s, !.old = apps[s].file]
          \in Request
    BY IdleType DEF Request, Step, TypeOK, Application
  <2> QED BY <2>1, <2>2, StoreType DEF BeginRepair, TypeOK
<1>6. CASE \/ \E date \in {"keep", "ahead"} : BeginExtendDeadline(w, date)
           \/ \E slots \in SlotChoices, date \in {"keep", "rolling", "ahead"},
                 otherMaterial \in BOOLEAN :
                 BeginEdit(w, slots, date, otherMaterial)
           \/ BeginUnlist(w)
           \/ BeginArchive(w)
           \/ \E verdict \in {"APPROVED", "REJECTED"} : BeginModerate(w, verdict)
  <2>1. PICK dirty \in Dirty : LoadListing(w, dirty)
    BY <1>6, ConstantsAssumption
    DEF BeginExtendDeadline, BeginEdit, BeginUnlist, BeginArchive, BeginModerate,
        Dirty, Clean, PublicationStatus, ModerationStatus, Deadline
  <2>2. [Idle EXCEPT !.at = "listing_write", !.dirty = dirty] \in Request
    BY IdleType DEF Request, Step
  <2> QED BY <2>1, <2>2 DEF LoadListing, TypeOK
<1> QED BY <1>1, <1>2, <1>3, <1>4, <1>5, <1>6 DEF Arrive

LEMMA ProceedType ==
  ASSUME TypeOK, RequestInv, NEW w \in Workers, Proceed(w)
  PROVE  TypeOK'
<1> DEFINE s == req[w].who
<1> /\ req[w].at \notin {"idle", "abandon", "listing_write"} => s \in Students
    /\ req[w].at \in Deciding => req[w].verdict \in DECISIONS
  BY DEF RequestInv, RequestOK
<1> USE DEF Deciding
<1>1. CASE SubmitLockListing(w)
  <2>1. req' \in [Workers -> Request]
    BY <1>1, GotoType, RefuseType DEF SubmitLockListing, Step
  <2> QED BY <1>1, <2>1 DEF SubmitLockListing, TypeOK
<1>2. CASE SubmitLockRow(w)
  <2>1. req' \in [Workers -> Request]
    BY <1>2, GotoType, RefuseType DEF SubmitLockRow, Step
  <2> QED BY <1>2, <2>1, ReleaseType DEF SubmitLockRow, TypeOK
<1>3. CASE SubmitCommit(w)
  <2>1. req[w].upload \in Files \cup {NoFile} /\ s \in Students
    BY <1>3 DEF SubmitCommit, TypeOK, Request
  <2>2. Superseded(s, req[w].upload) \in Files \cup {NoFile}
    BY <2>1 DEF Superseded, TypeOK, Application
  <2>3. [Idle EXCEPT !.at = "submit_after", !.who = s,
                     !.old = Superseded(s, req[w].upload)] \in Request
    BY <2>1, <2>2, IdleType DEF Request, Step
  <2>4. req' \in [Workers -> Request]
    BY <1>3, <2>3, IdleType DEF SubmitCommit, TypeOK
  <2>5. apps' \in [Students -> Application]
    BY <1>3, <2>1 DEF SubmitCommit, TypeOK, Application, ApplicationStatus
  <2> QED BY <1>3, <2>4, <2>5, ReleaseType DEF SubmitCommit, TypeOK
<1>4. CASE SubmitReleaseOld(w)
  BY <1>4, FinishType, DiscardType DEF SubmitReleaseOld, TypeOK
<1>5. CASE DeleteUpload(w)
  BY <1>5, FinishType, DiscardType DEF DeleteUpload, TypeOK
<1>6. CASE DecideLockListing(w)
  <2>1. req' \in [Workers -> Request]
    BY <1>6, GotoType DEF DecideLockListing, Step
  <2> QED BY <1>6, <2>1 DEF DecideLockListing, TypeOK
<1>7. CASE DecideLockRow(w)
  <2>1. CASE MayDecide(s, req[w].verdict)
    <3>1. req' \in [Workers -> Request]
      BY <1>7, <2>1 DEF DecideLockRow, TypeOK, Request, Step
    <3> QED BY <1>7, <2>1, <3>1 DEF DecideLockRow, TypeOK
  <2>2. CASE ~MayDecide(s, req[w].verdict)
    BY <1>7, <2>2, RefuseType, ReleaseType DEF DecideLockRow, TypeOK
  <2> QED BY <2>1, <2>2
<1>8. CASE DecideCommit(w)
  <2>1. req' \in [Workers -> Request]
    BY <1>8, GotoType DEF DecideCommit, Step
  <2>2. apps' \in [Students -> Application]
    BY <1>8 DEF DecideCommit, TypeOK, Application, ApplicationStatus, DECISIONS
  <2>3. listing' \in Listing
    BY <1>8 DEF DecideCommit, TypeOK, Listing, PublicationStatus
  <2> QED BY <1>8, <2>1, <2>2, <2>3, ReleaseType DEF DecideCommit, TypeOK
<1>9. CASE DecideTell(w)
  BY <1>9, FinishType, TellType DEF DecideTell, TypeOK, Notice
<1>10. CASE WithdrawLockRow(w)
  <2>1. req' \in [Workers -> Request]
    BY <1>10, GotoType, RefuseType DEF WithdrawLockRow, Step
  <2> QED BY <1>10, <2>1 DEF WithdrawLockRow, TypeOK
<1>11. CASE WithdrawCommit(w)
  <2>1. apps' \in [Students -> Application]
    BY <1>11 DEF WithdrawCommit, TypeOK, Application, ApplicationStatus
  <2> QED BY <1>11, <2>1, FinishType, ReleaseType DEF WithdrawCommit, TypeOK
<1>12. CASE ViewWrite(w)
  <2>1. req' \in [Workers -> Request]
    BY <1>12, GotoType, FinishType DEF ViewWrite, Step
  <2>2. apps' \in [Students -> Application]
    <3>1. s \in Students => [apps[s] EXCEPT !.viewed = TRUE] \in Application
      BY DEF TypeOK, Application
    <3> QED BY <1>12, <3>1 DEF ViewWrite, TypeOK
  <2> QED BY <1>12, <2>1, <2>2 DEF ViewWrite, TypeOK
<1>13. CASE ViewTell(w)
  BY <1>13, FinishType, TellType DEF ViewTell, TypeOK, Notice
<1>14. CASE RepairLockRow(w)
  <2>1. req' \in [Workers -> Request]
    BY <1>14, GotoType, RefuseType DEF RepairLockRow, Step
  <2> QED BY <1>14, <2>1 DEF RepairLockRow, TypeOK
<1>15. CASE RepairCommit(w)
  <2>1. req' \in [Workers -> Request]
    <3>1. [req[w] EXCEPT !.at = "repair_after", !.upload = NoFile] \in Request
      BY DEF TypeOK, Request, Step
    <3> QED BY <1>15, <3>1 DEF RepairCommit, TypeOK
  <2>2. apps' \in [Students -> Application]
    BY <1>15 DEF RepairCommit, TypeOK, Request, Application
  <2> QED BY <1>15, <2>1, <2>2, ReleaseType DEF RepairCommit, TypeOK
<1>16. CASE RepairReleaseOld(w)
  BY <1>16, FinishType, DiscardType DEF RepairReleaseOld, TypeOK
<1>17. CASE WriteListing(w)
  <2>1. listing' \in Listing
    BY <1>17 DEF WriteListing, Put, TypeOK, Request, Dirty, Listing
  <2> QED BY <1>17, <2>1, FinishType DEF WriteListing, TypeOK
<1> QED
  BY <1>1, <1>2, <1>3, <1>4, <1>5, <1>6, <1>7, <1>8, <1>9, <1>10, <1>11,
     <1>12, <1>13, <1>14, <1>15, <1>16, <1>17 DEF Proceed

LEMMA TypeStep ==
  ASSUME TypeOK, RequestInv, [Next]_vars
  PROVE  TypeOK'
<1>1. ASSUME NEW w \in Workers, TransactionFails(w)
      PROVE  TypeOK'
  BY <1>1, RefuseType, ReleaseType DEF TransactionFails, TypeOK
<1>2. ASSUME NEW w \in Workers, Crash(w)
      PROVE  TypeOK'
  BY <1>2, FinishType, ReleaseType DEF Crash, TypeOK
<1>3. ASSUME NEW f \in Files, LoseFile(f)
      PROVE  TypeOK'
  BY <1>3 DEF LoseFile, TypeOK
<1>4. CASE DeadlinePasses
  <2>1. listing' \in Listing
    BY <1>4 DEF DeadlinePasses, TypeOK, Listing, Deadline
  <2> QED BY <1>4, <2>1 DEF DeadlinePasses, TypeOK
<1>5. CASE UNCHANGED vars
  BY <1>5 DEF vars, TypeOK
<1> QED BY <1>1, <1>2, <1>3, <1>4, <1>5, ArriveType, ProceedType DEF Next

-----------------------------------------------------------------------------
(***************************************************************************)
(* Locks                                                                   *)
(***************************************************************************)

\* A step of w changes what w remembers and nobody else's request.
LEMMA OwnRequestOnly ==
  ASSUME TypeOK, NEW w \in Workers,
         Arrive(w) \/ Proceed(w) \/ TransactionFails(w) \/ Crash(w),
         NEW v \in Workers \ {w}
  PROVE  req'[v] = req[v]
<1>1. CASE Arrive(w)
  BY <1>1
  DEF TypeOK, Arrive, BeginSubmit, BeginDecide, BeginWithdraw, BeginView,
      BeginRepair, BeginExtendDeadline, BeginEdit, BeginUnlist, BeginArchive,
      BeginModerate, LoadListing, StoreUpload
<1>2. CASE Proceed(w)
  BY <1>2
  DEF TypeOK, Proceed, SubmitLockListing, SubmitLockRow, SubmitCommit,
      SubmitReleaseOld, DeleteUpload, DecideLockListing, DecideLockRow,
      DecideCommit, DecideTell, WithdrawLockRow, WithdrawCommit, ViewWrite,
      ViewTell, RepairLockRow, RepairCommit, RepairReleaseOld, WriteListing,
      Goto, Finish, Refuse
<1>3. CASE TransactionFails(w)
  BY <1>3 DEF TypeOK, TransactionFails, Refuse
<1>4. CASE Crash(w)
  BY <1>4 DEF TypeOK, Crash, Finish
<1> QED BY <1>1, <1>2, <1>3, <1>4

\* What w remembers after it goes on, ends or is refused.
LEMMA AfterGoto ==
  ASSUME TypeOK, NEW w \in Workers, NEW step, Goto(w, step)
  PROVE  /\ req'[w].at = step
         /\ req'[w].who = req[w].who
         /\ req'[w].verdict = req[w].verdict
         /\ req'[w].closes = req[w].closes
BY DEF TypeOK, Goto, Request

LEMMA AfterFinish ==
  ASSUME TypeOK, NEW w \in Workers, Finish(w)
  PROVE  req'[w] = Idle /\ req'[w].at = "idle"
BY DEF TypeOK, Finish, Idle

LEMMA AfterRefuse ==
  ASSUME TypeOK, NEW w \in Workers, Refuse(w)
  PROVE  req'[w].at \in {"idle", "abandon"}
BY DEF TypeOK, Refuse, Request, Idle

\* What w remembers of a request that has just arrived.
LEMMA AfterArrive ==
  ASSUME TypeOK, NEW w \in Workers, Arrive(w)
  PROVE  /\ req[w].at = "idle"
         /\ req'[w].at \in {"submit_start", "decide_start", "withdraw_start",
                            "view_start", "repair_start", "listing_write"}
         /\ req'[w].at # "listing_write" => req'[w].who \in Students
         /\ req'[w].at = "decide_start" => req'[w].verdict \in DECISIONS
         /\ req'[w].at = "repair_start" => "repair" \in Ops
         /\ UNCHANGED <<listing, apps, listingLock, rowLock, told>>
<1>1. req[w].at = "idle"
  <2>1. req[w] = Idle
    BY DEF Arrive, BeginSubmit, BeginDecide, BeginWithdraw, BeginView,
           BeginRepair, BeginExtendDeadline, BeginEdit, BeginUnlist,
           BeginArchive, BeginModerate, Begin
  <2> QED BY <2>1 DEF Idle
<1> USE DEF TypeOK, Begin, Idle
<1>2. ASSUME NEW s \in Students, NEW attach \in BOOLEAN,
             BeginSubmit(w, s, attach)
      PROVE  req'[w].at = "submit_start" /\ req'[w].who = s
  BY <1>2 DEF BeginSubmit, StoreUpload
<1>3. ASSUME NEW s \in Students, BeginRepair(w, s)
      PROVE  req'[w].at = "repair_start" /\ req'[w].who = s /\ "repair" \in Ops
  BY <1>3 DEF BeginRepair, StoreUpload
<1>4. ASSUME NEW s \in Students, NEW verdict \in DECISIONS,
             BeginDecide(w, s, verdict)
      PROVE  /\ req'[w].at = "decide_start" /\ req'[w].who = s
             /\ req'[w].verdict = verdict
  BY <1>4 DEF BeginDecide
<1>5. ASSUME NEW s \in Students, BeginWithdraw(w, s)
      PROVE  req'[w].at = "withdraw_start" /\ req'[w].who = s
  BY <1>5 DEF BeginWithdraw
<1>6. ASSUME NEW s \in Students, BeginView(w, s)
      PROVE  req'[w].at = "view_start" /\ req'[w].who = s
  BY <1>6 DEF BeginView
<1>7. ASSUME NEW dirty, LoadListing(w, dirty)
      PROVE  req'[w].at = "listing_write"
  BY <1>7 DEF LoadListing
<1>8. UNCHANGED <<listing, apps, listingLock, rowLock, told>>
  BY DEF Arrive, BeginSubmit, BeginDecide, BeginWithdraw, BeginView,
         BeginRepair, BeginExtendDeadline, BeginEdit, BeginUnlist, BeginArchive,
         BeginModerate, LoadListing
<1>9. CASE \E s \in Students, attach \in BOOLEAN : BeginSubmit(w, s, attach)
  BY <1>2, <1>1, <1>8, <1>9
<1>10. CASE \E s \in Students, verdict \in DECISIONS : BeginDecide(w, s, verdict)
  BY <1>4, <1>1, <1>8, <1>10
<1>11. CASE \E s \in Students : BeginWithdraw(w, s)
  BY <1>5, <1>1, <1>8, <1>11
<1>12. CASE \E s \in Students : BeginView(w, s)
  BY <1>6, <1>1, <1>8, <1>12
<1>13. CASE \E s \in Students : BeginRepair(w, s)
  BY <1>3, <1>1, <1>8, <1>13
<1>14. CASE \E dirty : LoadListing(w, dirty)
  BY <1>7, <1>1, <1>8, <1>14
<1> QED
  BY <1>9, <1>10, <1>11, <1>12, <1>13, <1>14
  DEF Arrive, BeginExtendDeadline, BeginEdit, BeginUnlist, BeginArchive,
      BeginModerate

\* The three things a step of w can do about locks: nothing, let go of all it
\* holds, or take one.
LEMMA LocksKept ==
  ASSUME LockInv, NEW w \in Workers,
         \A v \in Workers \ {w} : req'[v] = req[v],
         UNCHANGED <<listingLock, rowLock>>,
         req'[w].at \in HoldsListing <=> req[w].at \in HoldsListing,
         req'[w].at \notin HoldsRow, req[w].at \notin HoldsRow
  PROVE  LockInv'
BY DEF LockInv

LEMMA LocksReleased ==
  ASSUME TypeOK, LockInv, NEW w \in Workers,
         \A v \in Workers \ {w} : req'[v] = req[v],
         ReleaseLocks(w),
         req'[w].at \notin HoldsListing, req'[w].at \notin HoldsRow
  PROVE  LockInv'
BY ConstantsAssumption DEF TypeOK, LockInv, ReleaseLocks

LEMMA ListingTaken ==
  ASSUME TypeOK, LockInv, NEW w \in Workers,
         \A v \in Workers \ {w} : req'[v] = req[v],
         ListingFree(w), listingLock' = w, UNCHANGED rowLock,
         req'[w].at \in HoldsListing, req[w].at \notin HoldsRow,
         req'[w].at \notin HoldsRow
  PROVE  LockInv'
BY ConstantsAssumption DEF TypeOK, LockInv, ListingFree

LEMMA RowTaken ==
  ASSUME TypeOK, LockInv, NEW w \in Workers, NEW s \in Students,
         \A v \in Workers \ {w} : req'[v] = req[v],
         RowFree(w, s), rowLock' = [rowLock EXCEPT ![s] = w],
         UNCHANGED listingLock,
         req'[w].who = s,
         req'[w].at \in HoldsListing <=> req[w].at \in HoldsListing,
         req[w].at \notin HoldsRow, req'[w].at \in HoldsRow
  PROVE  LockInv'
BY ConstantsAssumption DEF TypeOK, LockInv, RowFree

LEMMA LockProceed ==
  ASSUME TypeOK, RequestInv, LockInv, NEW w \in Workers, Proceed(w)
  PROVE  LockInv'
<1> DEFINE s == req[w].who
<1>1. \A v \in Workers \ {w} : req'[v] = req[v]
  BY OwnRequestOnly
<1>2. req \in [Workers -> Request]
  BY DEF TypeOK
<1>3. req[w].at \notin {"idle", "abandon", "listing_write"} => s \in Students
  BY DEF RequestInv, RequestOK
<1> USE DEF HoldsListing, HoldsRow
<1>4. CASE SubmitLockListing(w)
  <2>1. CASE OpenForApplications
    BY <1>1, <1>2, <1>4, <2>1, ListingTaken, AfterGoto
    DEF SubmitLockListing
  <2>2. CASE ~OpenForApplications
    BY <1>1, <1>2, <1>4, <2>2, LocksKept, AfterRefuse
    DEF SubmitLockListing
  <2> QED BY <2>1, <2>2
<1>5. CASE SubmitLockRow(w)
  <2>1. CASE allowsReapplication(apps[s].status)
    BY <1>1, <1>2, <1>3, <1>5, <2>1, RowTaken, AfterGoto
    DEF SubmitLockRow
  <2>2. CASE ~allowsReapplication(apps[s].status)
    BY <1>1, <1>2, <1>5, <2>2, LocksReleased, AfterRefuse
    DEF SubmitLockRow
  <2> QED BY <2>1, <2>2
<1>6. CASE DecideLockListing(w)
  BY <1>1, <1>2, <1>6, ListingTaken, AfterGoto
  DEF DecideLockListing
<1>7. CASE DecideLockRow(w)
  <2>1. CASE MayDecide(s, req[w].verdict)
    <3>1. req'[w].at = "decide_row" /\ req'[w].who = s
      BY <1>2, <1>7, <2>1 DEF DecideLockRow, Request
    <3> QED BY <1>1, <1>2, <1>3, <1>7, <2>1, <3>1, RowTaken DEF DecideLockRow
  <2>2. CASE ~MayDecide(s, req[w].verdict)
    BY <1>1, <1>2, <1>7, <2>2, LocksReleased, AfterRefuse
    DEF DecideLockRow
  <2> QED BY <2>1, <2>2
<1>8. CASE WithdrawLockRow(w)
  <2>1. CASE canTransition(apps[s].status, "WITHDRAWN", "applicant")
    BY <1>1, <1>2, <1>3, <1>8, <2>1, RowTaken, AfterGoto
    DEF WithdrawLockRow
  <2>2. CASE ~canTransition(apps[s].status, "WITHDRAWN", "applicant")
    BY <1>1, <1>2, <1>8, <2>2, LocksKept, AfterRefuse
    DEF WithdrawLockRow
  <2> QED BY <2>1, <2>2
<1>9. CASE RepairLockRow(w)
  <2>1. CASE apps[s].status = "PENDING"
    BY <1>1, <1>2, <1>3, <1>9, <2>1, RowTaken, AfterGoto
    DEF RepairLockRow
  <2>2. CASE apps[s].status # "PENDING"
    BY <1>1, <1>2, <1>9, <2>2, LocksKept, AfterRefuse
    DEF RepairLockRow
  <2> QED BY <2>1, <2>2
<1>10. CASE SubmitCommit(w)
  <2>1. req'[w].at \in {"idle", "submit_after"}
    BY <1>2, <1>10 DEF SubmitCommit, Idle
  <2> QED BY <1>1, <2>1, <1>10, LocksReleased DEF SubmitCommit
<1>11. CASE DecideCommit(w)
  BY <1>1, <1>2, <1>11, LocksReleased, AfterGoto
  DEF DecideCommit
<1>12. CASE WithdrawCommit(w)
  BY <1>1, <1>2, <1>12, LocksReleased, AfterFinish
  DEF WithdrawCommit
<1>13. CASE RepairCommit(w)
  <2>1. req'[w].at = "repair_after"
    BY <1>2, <1>13 DEF RepairCommit, Request
  <2> QED BY <1>1, <2>1, <1>13, LocksReleased DEF RepairCommit
<1>14. CASE \/ SubmitReleaseOld(w) \/ DeleteUpload(w) \/ DecideTell(w)
            \/ ViewWrite(w) \/ ViewTell(w) \/ RepairReleaseOld(w)
            \/ WriteListing(w)
  BY <1>1, <1>2, <1>14, LocksKept, AfterGoto, AfterFinish
  DEF SubmitReleaseOld, DeleteUpload, DecideTell, ViewWrite, ViewTell,
      RepairReleaseOld, WriteListing
<1> QED
  BY <1>4, <1>5, <1>6, <1>7, <1>8, <1>9, <1>10, <1>11, <1>12, <1>13, <1>14
  DEF Proceed

LEMMA LockStep ==
  ASSUME TypeOK, RequestInv, LockInv, [Next]_vars
  PROVE  LockInv'
<1>1. ASSUME NEW w \in Workers, Arrive(w)
      PROVE  LockInv'
  <2>1. \A v \in Workers \ {w} : req'[v] = req[v]
    BY <1>1, OwnRequestOnly
  <2> QED BY <1>1, <2>1, AfterArrive, LocksKept DEF HoldsListing, HoldsRow
<1>2. ASSUME NEW w \in Workers, TransactionFails(w)
      PROVE  LockInv'
  BY <1>2, OwnRequestOnly, LocksReleased, AfterRefuse
  DEF TransactionFails, TypeOK, HoldsListing, HoldsRow
<1>3. ASSUME NEW w \in Workers, Crash(w)
      PROVE  LockInv'
  BY <1>3, OwnRequestOnly, LocksReleased, AfterFinish
  DEF Crash, TypeOK, HoldsListing, HoldsRow
<1>4. CASE (\E f \in Files : LoseFile(f)) \/ DeadlinePasses \/ UNCHANGED vars
  BY <1>4 DEF LoseFile, DeadlinePasses, vars, LockInv
<1> QED BY <1>1, <1>2, <1>3, <1>4, LockProceed DEF Next

-----------------------------------------------------------------------------
(***************************************************************************)
(* What a request has read under its locks                                 *)
(***************************************************************************)

OwnStep(w) == Arrive(w) \/ Proceed(w) \/ TransactionFails(w) \/ Crash(w)

\* A step of w moves only the application whose row it has locked, never one
\* that is decided; it accepts only at the commit of a decision; and it writes
\* the listing only when nobody else has that locked.
LEMMA StepEffect ==
  ASSUME IInv, NEW w \in Workers, OwnStep(w)
  PROVE  /\ \A s \in Students : apps'[s].status # apps[s].status =>
              /\ s = req[w].who /\ req[w].at \in HoldsRow
              /\ apps[s].status \notin DECISIONS
              /\ apps'[s].status = "ACCEPTED" => req[w].at = "decide_row"
         /\ listing' # listing => ListingFree(w)
<1> DEFINE s == req[w].who
<1> USE DEF IInv, TypeOK, HoldsRow, DECISIONS
<1>1. CASE SubmitCommit(w)
  <2>1. allowsReapplication(apps[s].status)
    BY <1>1 DEF SubmitCommit, LockedReadsHold, LockedReads
  <2> QED BY <1>1, <2>1 DEF SubmitCommit, allowsReapplication, Application
<1>2. CASE DecideCommit(w) \/ WithdrawCommit(w) \/ RepairCommit(w)
  <2>1. apps[s].status = "PENDING"
    BY <1>2 DEF DecideCommit, WithdrawCommit, RepairCommit, LockedReadsHold,
                LockedReads
  <2>2. req[w].at = "decide_row" => listingLock = w
    BY DEF LockInv, HoldsListing
  <2>3. CASE DecideCommit(w)
    BY <2>1, <2>2, <2>3 DEF DecideCommit, ListingFree, Application
  <2>4. CASE WithdrawCommit(w)
    BY <2>1, <2>4 DEF WithdrawCommit, Application
  <2>5. CASE RepairCommit(w)
    BY <2>1, <2>5 DEF RepairCommit, Application
  <2> QED BY <1>2, <2>3, <2>4, <2>5
<1>3. CASE ViewWrite(w)
  BY <1>3 DEF ViewWrite, Application
<1>4. CASE WriteListing(w)
  BY <1>4 DEF WriteListing
<1>5. CASE \/ Arrive(w) \/ TransactionFails(w) \/ Crash(w)
           \/ SubmitLockListing(w) \/ SubmitLockRow(w) \/ SubmitReleaseOld(w)
           \/ DeleteUpload(w) \/ DecideLockListing(w) \/ DecideLockRow(w)
           \/ DecideTell(w) \/ WithdrawLockRow(w) \/ ViewTell(w)
           \/ RepairLockRow(w) \/ RepairReleaseOld(w)
  <2>1. UNCHANGED <<apps, listing>>
    BY <1>5, AfterArrive
    DEF TransactionFails, Crash, SubmitLockListing, SubmitLockRow,
        SubmitReleaseOld, DeleteUpload, DecideLockListing, DecideLockRow,
        DecideTell, WithdrawLockRow, ViewTell, RepairLockRow, RepairReleaseOld
  <2> QED BY <2>1
<1> QED BY <1>1, <1>2, <1>3, <1>4, <1>5 DEF OwnStep, Proceed

\* Awards are counted from the statuses alone.
LEMMA SameAwards ==
  ASSUME listing'.slots = listing.slots,
         \A s \in Students : apps'[s].status = "ACCEPTED"
                               <=> apps[s].status = "ACCEPTED"
  PROVE  /\ Accepted' = Accepted
         /\ AwardsFilled' <=> AwardsFilled
         /\ FillsLastSeat' <=> FillsLastSeat
<1>1. Accepted' = Accepted
  BY DEF Accepted
<1> QED BY <1>1 DEF AwardsFilled, FillsLastSeat

\* A step of w leaves true what another request has read under its locks.
LEMMA OthersReads ==
  ASSUME IInv, NEW w \in Workers, OwnStep(w), NEW v \in Workers \ {w}
  PROVE  LockedReads(v)'
<1> DEFINE s == req[v].who
<1>1. req'[v] = req[v]
  BY OwnRequestOnly DEF IInv, OwnStep
<1>2. req[v].at \in HoldsRow => s \in Students /\ apps'[s].status = apps[s].status
  <2>1. SUFFICES ASSUME req[v].at \in HoldsRow
                 PROVE  s \in Students /\ apps'[s].status = apps[s].status
    OBVIOUS
  <2>2. s \in Students
    BY <2>1 DEF IInv, RequestInv, RequestOK, HoldsRow
  <2>3. rowLock[s] = v
    BY <2>1, <2>2 DEF IInv, LockInv
  <2>4. req[w].at \in HoldsRow => req[w].who # s
    BY <2>2, <2>3 DEF IInv, LockInv
  <2> QED BY <2>2, <2>4, StepEffect
<1>3. req[v].at \in HoldsListing =>
        /\ listing' = listing
        /\ AwardsFilled' <=> AwardsFilled
        /\ FillsLastSeat' <=> FillsLastSeat
  <2>1. SUFFICES ASSUME req[v].at \in HoldsListing
                 PROVE  /\ listing' = listing
                        /\ AwardsFilled' <=> AwardsFilled
                        /\ FillsLastSeat' <=> FillsLastSeat
    OBVIOUS
  <2>2. listingLock = v /\ v # Nobody
    BY <2>1, ConstantsAssumption DEF IInv, LockInv
  <2>3. listing' = listing
    BY <2>2, StepEffect DEF ListingFree
  <2>4. req[w].at # "decide_row"
    BY <2>2 DEF IInv, LockInv, HoldsListing
  <2>5. \A t \in Students : apps'[t].status = "ACCEPTED"
                              <=> apps[t].status = "ACCEPTED"
    BY <2>4, StepEffect DEF DECISIONS
  <2> QED BY <2>3, <2>5, SameAwards
<1>4. LockedReads(v)
  BY DEF IInv, LockedReadsHold
<1> QED BY <1>1, <1>2, <1>3, <1>4 DEF LockedReads, HoldsRow, HoldsListing

\* A request that holds no lock has read nothing under one.
LEMMA NothingRead ==
  ASSUME NEW w \in Workers, req'[w].at \notin HoldsListing \cup HoldsRow
  PROVE  LockedReads(w)'
BY DEF LockedReads, HoldsListing, HoldsRow

\* A step of w leaves true what w itself has read under its locks.
LEMMA OwnReads ==
  ASSUME IInv, NEW w \in Workers, OwnStep(w)
  PROVE  LockedReads(w)'
<1> DEFINE s == req[w].who
<1> TypeOK
  BY DEF IInv
<1>1. LockedReads(w)
  BY DEF IInv, LockedReadsHold
<1>2. CASE SubmitLockListing(w)
  <2>1. CASE OpenForApplications
    <3>1. req'[w].at = "submit_listing"
      BY <1>2, <2>1, AfterGoto DEF SubmitLockListing
    <3>2. UNCHANGED <<listing, apps>>
      BY <1>2 DEF SubmitLockListing
    <3>3. ~AwardsFilled'
      BY <2>1, <3>2
      DEF OpenForApplications, assertAcceptingApplications, AwardsFilled, Accepted
    <3> QED BY <2>1, <3>1, <3>2, <3>3
            DEF LockedReads, OpenForApplications, assertAcceptingApplications
  <2>2. CASE ~OpenForApplications
    BY <1>2, <2>2, AfterRefuse, NothingRead
    DEF SubmitLockListing, HoldsListing, HoldsRow
  <2> QED BY <2>1, <2>2
<1>3. CASE SubmitLockRow(w)
  <2>1. CASE allowsReapplication(apps[s].status)
    <3>1. req[w].at = "submit_listing"
      BY <1>3 DEF SubmitLockRow
    <3>2. req'[w].at = "submit_row" /\ req'[w].who = s
      BY <1>3, <2>1, AfterGoto DEF SubmitLockRow
    <3>3. UNCHANGED <<listing, apps>>
      BY <1>3 DEF SubmitLockRow
    <3>4. ~AwardsFilled'
      BY <1>1, <3>1, <3>3 DEF LockedReads, AwardsFilled, Accepted
    <3> QED BY <1>1, <2>1, <3>1, <3>2, <3>3, <3>4
            DEF LockedReads, allowsReapplication
  <2>2. CASE ~allowsReapplication(apps[s].status)
    BY <1>3, <2>2, AfterRefuse, NothingRead
    DEF SubmitLockRow, HoldsListing, HoldsRow
  <2> QED BY <2>1, <2>2
<1>4. CASE DecideLockRow(w)
  <2> DEFINE verdict == req[w].verdict
  <2>1. CASE MayDecide(s, verdict)
    <3>1. /\ req'[w].at = "decide_row" /\ req'[w].who = s
          /\ req'[w].verdict = verdict
          /\ req'[w].closes = (verdict = "ACCEPTED" /\ FillsLastSeat)
      BY <1>4, <2>1 DEF DecideLockRow, TypeOK, Request
    <3>2. UNCHANGED <<listing, apps>>
      BY <1>4 DEF DecideLockRow
    <3>3. /\ AwardsFilled' <=> AwardsFilled
          /\ FillsLastSeat' <=> FillsLastSeat
      BY <3>2 DEF AwardsFilled, FillsLastSeat, Accepted
    <3>4. /\ apps[s].status = "PENDING"
          /\ verdict = "ACCEPTED" => ~AwardsFilled
      BY <2>1 DEF MayDecide, canTransition, MOVES
    <3> QED BY <3>1, <3>2, <3>3, <3>4 DEF LockedReads
  <2>2. CASE ~MayDecide(s, verdict)
    BY <1>4, <2>2, AfterRefuse, NothingRead
    DEF DecideLockRow, HoldsListing, HoldsRow
  <2> QED BY <2>1, <2>2
<1>5. CASE WithdrawLockRow(w)
  <2>1. CASE canTransition(apps[s].status, "WITHDRAWN", "applicant")
    <3>1. req'[w].at = "withdraw_row" /\ req'[w].who = s /\ UNCHANGED apps
      BY <1>5, <2>1, AfterGoto DEF WithdrawLockRow
    <3>2. apps[s].status = "PENDING"
      BY <2>1 DEF canTransition, MOVES
    <3> QED BY <3>1, <3>2 DEF LockedReads
  <2>2. CASE ~canTransition(apps[s].status, "WITHDRAWN", "applicant")
    BY <1>5, <2>2, AfterRefuse, NothingRead
    DEF WithdrawLockRow, HoldsListing, HoldsRow
  <2> QED BY <2>1, <2>2
<1>6. CASE RepairLockRow(w)
  <2>1. CASE apps[s].status = "PENDING"
    <3>1. req'[w].at = "repair_row" /\ req'[w].who = s /\ UNCHANGED apps
      BY <1>6, <2>1, AfterGoto DEF RepairLockRow
    <3> QED BY <2>1, <3>1 DEF LockedReads
  <2>2. CASE apps[s].status # "PENDING"
    BY <1>6, <2>2, AfterRefuse, NothingRead
    DEF RepairLockRow, HoldsListing, HoldsRow
  <2> QED BY <2>1, <2>2
<1>7. CASE DecideLockListing(w)
  <2>1. req'[w].at = "decide_listing"
    BY <1>7, AfterGoto DEF DecideLockListing
  <2> QED BY <2>1 DEF LockedReads
<1>8. CASE SubmitCommit(w)
  <2>1. req'[w].at \in {"idle", "submit_after"}
    BY <1>8 DEF SubmitCommit, TypeOK, Idle
  <2> QED BY <2>1, NothingRead DEF HoldsListing, HoldsRow
<1>9. CASE RepairCommit(w)
  <2>1. req'[w].at = "repair_after"
    BY <1>9 DEF RepairCommit, TypeOK, Request
  <2> QED BY <2>1, NothingRead DEF HoldsListing, HoldsRow
<1>10. CASE DecideCommit(w) \/ ViewWrite(w)
  <2>1. req'[w].at \in {"decide_tell", "view_tell", "idle"}
    BY <1>10, AfterGoto, AfterFinish DEF DecideCommit, ViewWrite
  <2> QED BY <2>1, NothingRead DEF HoldsListing, HoldsRow
<1>11. CASE \/ SubmitReleaseOld(w) \/ DeleteUpload(w) \/ DecideTell(w)
            \/ WithdrawCommit(w) \/ ViewTell(w) \/ RepairReleaseOld(w)
            \/ WriteListing(w) \/ Crash(w) \/ TransactionFails(w)
  <2>1. req'[w].at \in {"idle", "abandon"}
    BY <1>11, AfterFinish, AfterRefuse
    DEF SubmitReleaseOld, DeleteUpload, DecideTell, WithdrawCommit, ViewTell,
        RepairReleaseOld, WriteListing, Crash, TransactionFails
  <2> QED BY <2>1, NothingRead DEF HoldsListing, HoldsRow
<1>12. CASE Arrive(w)
  BY <1>12, AfterArrive, NothingRead DEF HoldsListing, HoldsRow
<1> QED
  BY <1>2, <1>3, <1>4, <1>5, <1>6, <1>7, <1>8, <1>9, <1>10, <1>11, <1>12
  DEF OwnStep, Proceed

LEMMA ReadsStep ==
  ASSUME IInv, [Next]_vars
  PROVE  LockedReadsHold'
<1>1. ASSUME NEW w \in Workers, OwnStep(w)
      PROVE  LockedReadsHold'
  BY <1>1, OwnReads, OthersReads DEF LockedReadsHold
<1>2. ASSUME UNCHANGED <<apps, req>>, listing'.status = listing.status,
             listing'.moderation = listing.moderation,
             listing'.slots = listing.slots
      PROVE  LockedReadsHold'
  BY <1>2, SameAwards DEF IInv, LockedReadsHold, LockedReads
<1>3. CASE \E f \in Files : LoseFile(f)
  BY <1>2, <1>3 DEF LoseFile
<1>4. CASE DeadlinePasses
  BY <1>2, <1>4 DEF DeadlinePasses, IInv, TypeOK, Listing
<1>5. CASE UNCHANGED vars
  BY <1>2, <1>5 DEF vars
<1> QED BY <1>1, <1>3, <1>4, <1>5 DEF Next, OwnStep

-----------------------------------------------------------------------------
(***************************************************************************)
(* The invariant holds                                                     *)
(***************************************************************************)

LEMMA OwnRequest ==
  ASSUME IInv, NEW w \in Workers, OwnStep(w)
  PROVE  RequestOK(w)'
<1> TypeOK /\ RequestOK(w)
  BY DEF IInv, RequestInv
<1> USE DEF Deciding
<1>1. CASE Arrive(w)
  BY <1>1, AfterArrive DEF RequestOK
<1>2. CASE \/ SubmitReleaseOld(w) \/ DeleteUpload(w) \/ DecideTell(w)
           \/ WithdrawCommit(w) \/ ViewTell(w) \/ RepairReleaseOld(w)
           \/ WriteListing(w) \/ Crash(w) \/ TransactionFails(w)
  <2>1. req'[w].at \in {"idle", "abandon"}
    BY <1>2, AfterFinish, AfterRefuse
    DEF SubmitReleaseOld, DeleteUpload, DecideTell, WithdrawCommit, ViewTell,
        RepairReleaseOld, WriteListing, Crash, TransactionFails
  <2> QED BY <2>1 DEF RequestOK
<1>3. CASE SubmitLockListing(w) \/ SubmitLockRow(w)
  <2>1. \/ req'[w].at \in {"idle", "abandon"}
        \/ /\ req'[w].at \in {"submit_listing", "submit_row"}
           /\ req'[w].who = req[w].who
           /\ req[w].at \in {"submit_start", "submit_listing"}
    BY <1>3, AfterGoto, AfterRefuse DEF SubmitLockListing, SubmitLockRow
  <2> QED BY <2>1 DEF RequestOK
<1>4. CASE SubmitCommit(w)
  <2>1. \/ req'[w].at = "idle"
        \/ /\ req'[w].at = "submit_after" /\ req'[w].who = req[w].who
           /\ req[w].at = "submit_row"
    BY <1>4 DEF SubmitCommit, TypeOK, Idle
  <2> QED BY <2>1 DEF RequestOK
<1>5. CASE DecideLockListing(w)
  <2>1. /\ req'[w].at = "decide_listing" /\ req'[w].who = req[w].who
        /\ req'[w].verdict = req[w].verdict /\ req[w].at = "decide_start"
    BY <1>5, AfterGoto DEF DecideLockListing
  <2> QED BY <2>1 DEF RequestOK
<1>6. CASE DecideLockRow(w)
  <2>1. \/ req'[w].at \in {"idle", "abandon"}
        \/ /\ req'[w].at = "decide_row" /\ req'[w].who = req[w].who
           /\ req'[w].verdict = req[w].verdict /\ req[w].at = "decide_listing"
    <3>1. CASE MayDecide(req[w].who, req[w].verdict)
      BY <1>6, <3>1 DEF DecideLockRow, TypeOK, Request
    <3>2. CASE ~MayDecide(req[w].who, req[w].verdict)
      BY <1>6, <3>2, AfterRefuse DEF DecideLockRow
    <3> QED BY <3>1, <3>2
  <2> QED BY <2>1 DEF RequestOK
<1>7. CASE DecideCommit(w)
  <2>1. /\ req'[w].at = "decide_tell" /\ req'[w].who = req[w].who
        /\ req'[w].verdict = req[w].verdict /\ req[w].at = "decide_row"
    BY <1>7, AfterGoto DEF DecideCommit
  <2>2. apps'[req[w].who].status = req[w].verdict
    BY <1>7 DEF DecideCommit, RequestOK, TypeOK, Application
  <2> QED BY <2>1, <2>2 DEF RequestOK
<1>8. CASE WithdrawLockRow(w) \/ ViewWrite(w) \/ RepairLockRow(w)
  <2>1. \/ req'[w].at \in {"idle", "abandon"}
        \/ /\ req'[w].at \in {"withdraw_row", "view_tell", "repair_row"}
           /\ req'[w].who = req[w].who
           /\ req[w].at \in {"withdraw_start", "view_start", "repair_start"}
    BY <1>8, AfterGoto, AfterRefuse, AfterFinish
    DEF WithdrawLockRow, ViewWrite, RepairLockRow
  <2> QED BY <2>1 DEF RequestOK
<1>9. CASE RepairCommit(w)
  <2>1. /\ req'[w].at = "repair_after" /\ req'[w].who = req[w].who
        /\ req[w].at = "repair_row"
    BY <1>9 DEF RepairCommit, TypeOK, Request
  <2> QED BY <2>1 DEF RequestOK
<1> QED
  BY <1>1, <1>2, <1>3, <1>4, <1>5, <1>6, <1>7, <1>8, <1>9 DEF OwnStep, Proceed

\* A committed decision stays: it is what the other requests are announcing.
LEMMA RequestStep ==
  ASSUME IInv, [Next]_vars
  PROVE  RequestInv'
<1>1. ASSUME NEW w \in Workers, OwnStep(w), NEW v \in Workers \ {w}
      PROVE  RequestOK(v)'
  <2>1. req'[v] = req[v]
    BY <1>1, OwnRequestOnly DEF IInv, OwnStep
  <2>2. RequestOK(v)
    BY DEF IInv, RequestInv
  <2>3. req[v].at = "decide_tell" =>
          apps'[req[v].who].status = apps[req[v].who].status
    BY <1>1, <2>2, StepEffect DEF RequestOK, Deciding
  <2> QED BY <2>1, <2>2, <2>3 DEF RequestOK
<1>2. ASSUME NEW w \in Workers, OwnStep(w)
      PROVE  RequestInv'
  BY <1>1, <1>2, OwnRequest DEF RequestInv
<1>3. CASE (\E f \in Files : LoseFile(f)) \/ DeadlinePasses \/ UNCHANGED vars
  BY <1>3 DEF LoseFile, DeadlinePasses, vars, IInv, RequestInv, RequestOK
<1> QED BY <1>2, <1>3 DEF Next, OwnStep

LEMMA AnnouncedStep ==
  ASSUME IInv, [Next]_vars
  PROVE  AnnouncedIsDecided'
<1>1. ASSUME NEW w \in Workers, OwnStep(w)
      PROVE  AnnouncedIsDecided'
  <2> SUFFICES ASSUME NEW s \in Students, NEW d \in told'[s] \cap DECISIONS
               PROVE  d = apps'[s].status
    BY DEF AnnouncedIsDecided
  <2>1. CASE d \in told[s]
    <3>1. d = apps[s].status
      BY <2>1 DEF IInv, AnnouncedIsDecided
    <3> QED BY <1>1, <3>1, StepEffect
  <2>2. CASE d \notin told[s]
    <3>1. DecideTell(w) /\ s = req[w].who /\ d = req[w].verdict
      <4>1. told' # told
        BY <2>2
      <4>2. DecideTell(w) \/ ViewTell(w)
        BY <1>1, <4>1, AfterArrive
        DEF OwnStep, Proceed, TransactionFails, Crash, SubmitLockListing,
            SubmitLockRow, SubmitCommit, SubmitReleaseOld, DeleteUpload,
            DecideLockListing, DecideLockRow, DecideCommit, WithdrawLockRow,
            WithdrawCommit, ViewWrite, RepairLockRow, RepairCommit,
            RepairReleaseOld, WriteListing, IInv
      <4> QED BY <2>2, <4>2 DEF DecideTell, ViewTell, Tell, IInv, TypeOK, DECISIONS
    <3>2. apps[s].status = d /\ apps' = apps
      BY <3>1 DEF DecideTell, IInv, RequestInv, RequestOK
    <3> QED BY <3>2
  <2> QED BY <2>1, <2>2
<1>2. CASE (\E f \in Files : LoseFile(f)) \/ DeadlinePasses \/ UNCHANGED vars
  BY <1>2 DEF LoseFile, DeadlinePasses, vars, IInv, AnnouncedIsDecided
<1> QED BY <1>1, <1>2 DEF Next, OwnStep

LEMMA InitIInv == Init => IInv
<1> SUFFICES ASSUME Init PROVE IInv
  OBVIOUS
<1>1. TypeOK
  <2>1. listing \in Listing
    BY ConstantsAssumption
    DEF Init, Listing, PublicationStatus, ModerationStatus, Deadline
  <2>2. NoRow \in Application
    BY DEF NoRow, Application, ApplicationStatus
  <2> QED BY <2>1, <2>2, IdleType DEF Init, TypeOK
<1>2. \A w \in Workers : req[w].at = "idle"
  BY DEF Init, Idle
<1>3. LockInv
  BY <1>2, ConstantsAssumption DEF Init, LockInv, HoldsListing, HoldsRow
<1>4. RequestInv /\ LockedReadsHold
  BY <1>2 DEF RequestInv, RequestOK, LockedReadsHold, LockedReads, Deciding
<1>5. AnnouncedIsDecided
  BY DEF Init, AnnouncedIsDecided
<1> QED BY <1>1, <1>3, <1>4, <1>5 DEF IInv

LEMMA NextIInv == IInv /\ [Next]_vars => IInv'
BY TypeStep, LockStep, RequestStep, ReadsStep, AnnouncedStep DEF IInv

\* The state of the system is always one its reachable states describe.
THEOREM InductiveInvariant == Spec => []IInv
BY InitIInv, NextIInv, PTL DEF Spec

-----------------------------------------------------------------------------
(***************************************************************************)
(* What follows from it                                                    *)
(***************************************************************************)

\* Every reachable state is well typed: in particular a request always names
\* its student and its verdict where the code uses them.
THEOREM TypeCorrect == Spec => []TypeOK
BY InductiveInvariant, PTL DEF IInv

\* No request leaves a lock behind, and no two hold the same row.
THEOREM LocksAreHeldInTransactions == Spec => []LockInv
BY InductiveInvariant, PTL DEF IInv

\* What submit, decide, withdraw and repairDocument read under their locks is
\* still so when they write, whatever the others do in between.
THEOREM WhatIsReadUnderLocksHolds == Spec => []LockedReadsHold
BY InductiveInvariant, PTL DEF IInv

\* What a student has been told of the decision is what their row says.
THEOREM AnnouncementsAreTrue == Spec => []AnnouncedIsDecided
BY InductiveInvariant, PTL DEF IInv

\* Who waits for a listing holds nothing; who waits for an application row may
\* hold the listing, but whoever holds the row waits for nothing.
LEMMA WaitsInOrder ==
  ASSUME LockInv, RequestInv, NEW v \in Workers, NEW w \in Workers, Blocks(v, w)
  PROVE  \/ req[w].at \in WaitsListing /\ req[v].at \in HoldsListing
         \/ req[w].at \in WaitsRow /\ req[v].at \in HoldsRow
BY DEF Blocks, LockInv, RequestInv, RequestOK, WaitsListing, WaitsRow

LEMMA NoCircle == LockInv /\ RequestInv => NoCircularWait
<1> SUFFICES ASSUME LockInv, RequestInv, NEW W \in (SUBSET Workers) \ {{}}
             PROVE  \E w \in W : \A v \in W : ~Blocks(v, w)
  BY DEF NoCircularWait
<1> USE DEF WaitsListing, WaitsRow, HoldsListing, HoldsRow
<1>1. CASE \E w \in W : req[w].at \in HoldsRow
  <2>1. PICK w \in W : req[w].at \in HoldsRow
    BY <1>1
  <2> WITNESS w \in W
  <2> QED BY <2>1, WaitsInOrder
<1>2. CASE \A w \in W : req[w].at \notin HoldsRow
  <2>1. CASE \E w \in W : req[w].at \notin WaitsListing
    <3>1. PICK w \in W : req[w].at \notin WaitsListing
      BY <2>1
    <3> WITNESS w \in W
    <3> QED BY <1>2, <3>1, WaitsInOrder
  <2>2. CASE \A w \in W : req[w].at \in WaitsListing
    <3>1. PICK w \in W : TRUE
      OBVIOUS
    <3> WITNESS w \in W
    <3> QED BY <2>2, WaitsInOrder
  <2> QED BY <2>1, <2>2
<1> QED BY <1>1, <1>2

\* Requests that lock the listing before an application cannot deadlock.
THEOREM NoDeadlock == Spec => []NoCircularWait
BY InductiveInvariant, NoCircle, PTL DEF IInv

-----------------------------------------------------------------------------
(***************************************************************************)
(* Files and the first look                                                *)
(***************************************************************************)

UploadSteps == {"submit_start", "submit_listing", "submit_row",
                "repair_start", "repair_row", "abandon"}
RepairSteps == {"repair_start", "repair_row", "repair_after"}

\* An upload under way belongs to one request and to no row, rows do not share
\* files, and what a resubmission replaced is in no row any more.
PathsInv ==
  /\ \A w \in Workers : req[w].upload # NoFile =>
       /\ req[w].at \in UploadSteps
       /\ \A s \in Students : apps[s].file # req[w].upload
       /\ \A v \in Workers :
            /\ req[v].old # req[w].upload
            /\ v # w => req[v].upload # req[w].upload
  /\ \A s, t \in Students :
       s # t /\ apps[s].file = apps[t].file => apps[s].file = NoFile
  /\ \A w \in Workers : req[w].at = "submit_after" =>
       /\ req[w].old # NoFile
       /\ \A s \in Students : apps[s].file # req[w].old

\* While nothing has failed, every file a row or a request relies on is in the
\* store, so that nothing is repaired, and nothing else is in it.
StoredInv ==
  faults = 0 =>
    /\ \A s \in Students : apps[s].file \in files \cup {NoFile}
    /\ \A w \in Workers :
         /\ req[w].upload \in files \cup {NoFile}
         /\ req[w].at \notin RepairSteps
         /\ req[w].old # NoFile => req[w].at = "submit_after"
    /\ files \subseteq Remembered

\* Who was told of the first look, or is about to be, has a row that was seen.
ViewInv ==
  /\ \A s \in Students : "VIEWED" \in told[s] => apps[s].viewed
  /\ \A w \in Workers : req[w].at = "view_tell" => apps[req[w].who].viewed
  /\ ViewedToldOnce

\* What a step of w does with files: it begins, with an upload of its own or none;
Begins(w) ==
  /\ req[w] = Idle /\ UNCHANGED <<apps, faults>>
  /\ req'[w].at # "submit_after"
  /\ \/ /\ req'[w].upload = NoFile /\ req'[w].old = NoFile
        /\ req'[w].at \notin RepairSteps /\ UNCHANGED files
     \/ \E f \in FreshFiles :
          /\ req'[w].upload = f /\ files' = files \cup {f}
          /\ req'[w].at \in UploadSteps
          /\ \/ req'[w].old = NoFile /\ req'[w].at \notin RepairSteps
             \/ \E s \in Students : /\ req'[w].old = apps[s].file
                                    /\ req'[w].at \in RepairSteps
                                    /\ apps[s].file \notin files \cup {NoFile}

\* it goes on with what it has;
Carries(w) ==
  /\ \A s \in Students : apps'[s].file = apps[s].file
  /\ UNCHANGED <<files, faults>>
  /\ req'[w].upload = req[w].upload /\ req'[w].old = req[w].old
  /\ req[w].at \in UploadSteps => req'[w].at \in UploadSteps
  /\ req'[w].at \in RepairSteps => req[w].at \in RepairSteps
  /\ req[w].at # "submit_after" /\ req'[w].at # "submit_after"

\* it ends, with nothing to delete unless it crashed;
Ends(w) ==
  /\ \A s \in Students : apps'[s].file = apps[s].file
  /\ UNCHANGED files /\ req'[w] = Idle
  /\ \/ faults' = faults + 1
     \/ /\ faults' = faults /\ req[w].at # "submit_after"
        /\ req[w].upload = NoFile \/ req[w].at \notin UploadSteps

\* it commits: the row has its upload, if it brought one, and it has what the
\* row had before;
Commits(w) ==
  \E s \in Students :
    /\ UNCHANGED <<files, faults>>
    /\ \A t \in Students \ {s} : apps'[t].file = apps[t].file
    /\ req'[w].upload = NoFile
    /\ \/ /\ req[w].at = "repair_row" /\ req'[w].at = "repair_after"
          /\ apps'[s].file = req[w].upload /\ req'[w].old = req[w].old
       \/ /\ req[w].at = "submit_row" /\ req[w].upload = NoFile
          /\ apps'[s].file = apps[s].file /\ req'[w] = Idle
       \/ /\ req[w].at = "submit_row" /\ req[w].upload # NoFile
          /\ apps'[s].file = req[w].upload
          /\ \/ apps[s].file = NoFile /\ req'[w] = Idle
             \/ /\ apps[s].file # NoFile
                /\ req'[w].at = "submit_after" /\ req'[w].old = apps[s].file

\* or it deletes a file, or fails to.
Deletes(w) ==
  \E f \in {req[w].upload, req[w].old} :
    /\ UNCHANGED apps /\ req'[w] = Idle
    /\ \/ req[w].at = "abandon" /\ f = req[w].upload
       \/ req[w].at = "submit_after" /\ f = req[w].old
       \/ /\ req[w].at = "repair_after" /\ f = req[w].old
          /\ \A s \in Students : apps[s].file # f
    /\ \/ files' = files \ {f} /\ UNCHANGED faults
       \/ faults' = faults + 1 /\ UNCHANGED files

LEMMA ArriveBegins ==
  ASSUME IInv, NEW w \in Workers, Arrive(w)
  PROVE  Begins(w)
<1> USE DEF IInv, TypeOK, Begin
<1>1. UNCHANGED apps /\ req[w] = Idle /\ UNCHANGED faults
  BY DEF Arrive, BeginSubmit, BeginDecide, BeginWithdraw, BeginView,
         BeginRepair, BeginExtendDeadline, BeginEdit, BeginUnlist, BeginArchive,
         BeginModerate, LoadListing
<1>2. ASSUME NEW r, req' = [req EXCEPT ![w] = r], UNCHANGED files,
             r.upload = NoFile, r.old = NoFile,
             r.at \notin RepairSteps \cup {"submit_after"}
      PROVE  Begins(w)
  BY <1>1, <1>2 DEF Begins
<1>3. ASSUME NEW s \in Students, NEW attach \in BOOLEAN, BeginSubmit(w, s, attach)
      PROVE  Begins(w)
  <2> DEFINE r == [Idle EXCEPT !.at = "submit_start", !.who = s]
  <2>1. /\ r.at = "submit_start" /\ r.upload = NoFile /\ r.old = NoFile
        /\ \A f : [r EXCEPT !.upload = f].upload = f
        /\ \A f : [r EXCEPT !.upload = f].at = "submit_start"
        /\ \A f : [r EXCEPT !.upload = f].old = NoFile
    BY DEF Idle
  <2>2. StoreUpload(w, r, attach)
    BY <1>3 DEF BeginSubmit
  <2> HIDE DEF r
  <2>3. CASE ~attach
    BY <1>2, <2>1, <2>2, <2>3 DEF StoreUpload, RepairSteps
  <2>4. CASE attach
    <3>1. PICK f \in FreshFiles : files' = files \cup {f}
                 /\ req' = [req EXCEPT ![w] = [r EXCEPT !.upload = f]]
      BY <2>2, <2>4 DEF StoreUpload
    <3>2. req'[w] = [r EXCEPT !.upload = f]
      BY <3>1
    <3> QED BY <1>1, <2>1, <3>1, <3>2 DEF Begins, UploadSteps, RepairSteps
  <2> QED BY <2>3, <2>4
<1>4. ASSUME NEW s \in Students, BeginRepair(w, s)
      PROVE  Begins(w)
  <2> DEFINE r == [Idle EXCEPT !.at = "repair_start", !.who = s, !.old = apps[s].file]
  <2>1. /\ \A f : [r EXCEPT !.upload = f].upload = f
        /\ \A f : [r EXCEPT !.upload = f].at = "repair_start"
        /\ \A f : [r EXCEPT !.upload = f].old = apps[s].file
    BY DEF Idle
  <2>2. StoreUpload(w, r, TRUE) /\ apps[s].file \notin files \cup {NoFile}
    BY <1>4 DEF BeginRepair
  <2> HIDE DEF r
  <2>3. PICK f \in FreshFiles : files' = files \cup {f}
               /\ req' = [req EXCEPT ![w] = [r EXCEPT !.upload = f]]
    BY <2>2 DEF StoreUpload
  <2>4. req'[w] = [r EXCEPT !.upload = f]
    BY <2>3
  <2> QED BY <1>1, <2>1, <2>2, <2>3, <2>4 DEF Begins, UploadSteps, RepairSteps
<1>5. ASSUME NEW s \in Students, NEW verdict \in DECISIONS, BeginDecide(w, s, verdict)
      PROVE  Begins(w)
  <2> DEFINE r == [Idle EXCEPT !.at = "decide_start", !.who = s, !.verdict = verdict]
  <2>1. r.at = "decide_start" /\ r.upload = NoFile /\ r.old = NoFile
    BY DEF Idle
  <2>2. req' = [req EXCEPT ![w] = r] /\ UNCHANGED files
    BY <1>5 DEF BeginDecide
  <2> HIDE DEF r
  <2> QED BY <1>2, <2>1, <2>2 DEF RepairSteps
<1>6. ASSUME NEW s \in Students, BeginWithdraw(w, s)
      PROVE  Begins(w)
  <2> DEFINE r == [Idle EXCEPT !.at = "withdraw_start", !.who = s]
  <2>1. r.at = "withdraw_start" /\ r.upload = NoFile /\ r.old = NoFile
    BY DEF Idle
  <2>2. req' = [req EXCEPT ![w] = r] /\ UNCHANGED files
    BY <1>6 DEF BeginWithdraw
  <2> HIDE DEF r
  <2> QED BY <1>2, <2>1, <2>2 DEF RepairSteps
<1>7. ASSUME NEW s \in Students, BeginView(w, s)
      PROVE  Begins(w)
  <2> DEFINE r == [Idle EXCEPT !.at = "view_start", !.who = s]
  <2>1. r.at = "view_start" /\ r.upload = NoFile /\ r.old = NoFile
    BY DEF Idle
  <2>2. req' = [req EXCEPT ![w] = r] /\ UNCHANGED files
    BY <1>7 DEF BeginView
  <2> HIDE DEF r
  <2> QED BY <1>2, <2>1, <2>2 DEF RepairSteps
<1>8. ASSUME NEW dirty, LoadListing(w, dirty)
      PROVE  Begins(w)
  <2> DEFINE r == [Idle EXCEPT !.at = "listing_write", !.dirty = dirty]
  <2>1. r.at = "listing_write" /\ r.upload = NoFile /\ r.old = NoFile
    BY DEF Idle
  <2>2. req' = [req EXCEPT ![w] = r] /\ UNCHANGED files
    BY <1>8 DEF LoadListing
  <2> HIDE DEF r
  <2> QED BY <1>2, <2>1, <2>2 DEF RepairSteps
<1>9. \/ \E s \in Students, attach \in BOOLEAN : BeginSubmit(w, s, attach)
      \/ \E s \in Students, verdict \in DECISIONS : BeginDecide(w, s, verdict)
      \/ \E s \in Students : BeginWithdraw(w, s)
      \/ \E s \in Students : BeginView(w, s)
      \/ \E s \in Students : BeginRepair(w, s)
      \/ \E dirty : LoadListing(w, dirty)
  BY DEF Arrive, BeginExtendDeadline, BeginEdit, BeginUnlist, BeginArchive,
         BeginModerate
<1> QED BY <1>3, <1>4, <1>5, <1>6, <1>7, <1>8, <1>9

\* A request that is refused keeps what it has to delete, or has nothing.
LEMMA RefuseFiles ==
  ASSUME IInv, NEW w \in Workers, Refuse(w), req[w].at # "submit_after",
         UNCHANGED <<apps, files, faults>>
  PROVE  Carries(w) \/ Ends(w)
<1>1. CASE req[w].upload = NoFile
  BY <1>1 DEF Refuse, Ends, IInv, TypeOK
<1>2. CASE req[w].upload # NoFile
  <2>1. req'[w] = [req[w] EXCEPT !.at = "abandon"]
    BY <1>2 DEF Refuse, IInv, TypeOK
  <2> QED BY <2>1 DEF Carries, UploadSteps, RepairSteps, IInv, TypeOK, Request
<1> QED BY <1>1, <1>2

LEMMA GotoFiles ==
  ASSUME IInv, NEW w \in Workers, NEW step \in Step, Goto(w, step),
         req[w].at # "submit_after", step # "submit_after",
         \A s \in Students : apps'[s].file = apps[s].file,
         UNCHANGED <<files, faults>>,
         req[w].at \in UploadSteps => step \in UploadSteps,
         step \in RepairSteps => req[w].at \in RepairSteps
  PROVE  Carries(w)
BY DEF Goto, Carries, IInv, TypeOK, Request

LEMMA FinishFiles ==
  ASSUME IInv, NEW w \in Workers, Finish(w),
         req[w].at \notin UploadSteps \cup {"submit_after"},
         \A s \in Students : apps'[s].file = apps[s].file,
         UNCHANGED files, faults' = faults \/ faults' = faults + 1
  PROVE  Ends(w)
BY DEF Finish, Ends, IInv, TypeOK

LEMMA ProceedFiles ==
  ASSUME IInv, NEW w \in Workers, Proceed(w)
  PROVE  Carries(w) \/ Ends(w) \/ Commits(w) \/ Deletes(w)
<1> DEFINE s == req[w].who
<1> USE DEF UploadSteps, RepairSteps
<1>1. TypeOK /\ (req[w].at \notin {"idle", "abandon", "listing_write"} => s \in Students)
  BY DEF IInv, RequestInv, RequestOK
<1>2. CASE \/ SubmitLockListing(w) \/ SubmitLockRow(w) \/ DecideLockListing(w)
           \/ WithdrawLockRow(w) \/ RepairLockRow(w)
  <2>1. UNCHANGED <<apps, files, faults>>
    BY <1>2 DEF SubmitLockListing, SubmitLockRow, DecideLockListing,
                WithdrawLockRow, RepairLockRow
  <2>2. \/ Refuse(w) /\ req[w].at # "submit_after"
        \/ req[w].at = "submit_start" /\ Goto(w, "submit_listing")
        \/ req[w].at = "submit_listing" /\ Goto(w, "submit_row")
        \/ req[w].at = "decide_start" /\ Goto(w, "decide_listing")
        \/ req[w].at = "withdraw_start" /\ Goto(w, "withdraw_row")
        \/ req[w].at = "repair_start" /\ Goto(w, "repair_row")
    BY <1>2 DEF SubmitLockListing, SubmitLockRow, DecideLockListing,
                WithdrawLockRow, RepairLockRow
  <2> QED BY <2>1, <2>2, RefuseFiles, GotoFiles DEF Step
<1>3. CASE DecideLockRow(w)
  <2>1. CASE MayDecide(s, req[w].verdict)
    <3>1. /\ req'[w].at = "decide_row" /\ req'[w].upload = req[w].upload
          /\ req'[w].old = req[w].old
      BY <1>1, <1>3, <2>1 DEF DecideLockRow, TypeOK, Request
    <3> QED BY <1>3, <3>1 DEF DecideLockRow, Carries
  <2>2. CASE ~MayDecide(s, req[w].verdict)
    BY <1>3, <2>2, RefuseFiles DEF DecideLockRow
  <2> QED BY <2>1, <2>2
<1>4. CASE DecideCommit(w)
  <2>1. \A t \in Students : apps'[t].file = apps[t].file
    BY <1>1, <1>4 DEF DecideCommit, TypeOK, Application
  <2> QED BY <1>4, <2>1, GotoFiles DEF DecideCommit, Step
<1>5. CASE ViewWrite(w)
  <2>1. \A t \in Students : apps'[t].file = apps[t].file
    BY <1>1, <1>5 DEF ViewWrite, TypeOK, Application
  <2> QED BY <1>5, <2>1, GotoFiles, FinishFiles DEF ViewWrite, Step
<1>6. CASE WithdrawCommit(w)
  <2>1. \A t \in Students : apps'[t].file = apps[t].file
    BY <1>1, <1>6 DEF WithdrawCommit, TypeOK, Application
  <2> QED BY <1>6, <2>1, FinishFiles DEF WithdrawCommit
<1>7. CASE DecideTell(w) \/ ViewTell(w) \/ WriteListing(w)
  BY <1>7, FinishFiles DEF DecideTell, ViewTell, WriteListing, Tell
<1>8. CASE SubmitReleaseOld(w) \/ DeleteUpload(w)
  BY <1>1, <1>8
  DEF SubmitReleaseOld, DeleteUpload, Discard, Deletes, Finish, TypeOK
<1>9. CASE RepairReleaseOld(w)
  <2>1. CASE \A t \in Students : apps[t].file # req[w].old
    BY <1>1, <1>9, <2>1
    DEF RepairReleaseOld, Discard, Deletes, Finish, TypeOK
  <2>2. CASE \E t \in Students : apps[t].file = req[w].old
    BY <1>9, <2>2, FinishFiles DEF RepairReleaseOld
  <2> QED BY <2>1, <2>2
<1>10. CASE RepairCommit(w)
  <2>1. /\ req'[w].at = "repair_after" /\ req'[w].upload = NoFile
        /\ req'[w].old = req[w].old
    BY <1>1, <1>10 DEF RepairCommit, TypeOK, Request
  <2>2. s \in Students /\ req[w].at = "repair_row"
    BY <1>1, <1>10 DEF RepairCommit
  <2>3. /\ apps'[s].file = req[w].upload
        /\ \A t \in Students \ {s} : apps'[t].file = apps[t].file
    BY <1>1, <1>10, <2>2 DEF RepairCommit, TypeOK, Application
  <2> QED BY <1>10, <2>1, <2>2, <2>3 DEF RepairCommit, Commits
<1>11. CASE SubmitCommit(w)
  <2>1. s \in Students /\ req[w].at = "submit_row"
    BY <1>1, <1>11 DEF SubmitCommit
  <2>2. /\ apps'[s].file = IF req[w].upload = NoFile THEN apps[s].file
                                                      ELSE req[w].upload
        /\ \A t \in Students \ {s} : apps'[t].file = apps[t].file
    BY <1>1, <1>11, <2>1 DEF SubmitCommit, TypeOK, Application
  <2>3. IF Superseded(s, req[w].upload) = NoFile
          THEN req'[w] = Idle
          ELSE req'[w] = [Idle EXCEPT !.at = "submit_after", !.who = s,
                                      !.old = Superseded(s, req[w].upload)]
    BY <1>1, <1>11 DEF SubmitCommit, TypeOK
  <2>4. \/ req'[w] = Idle /\ Superseded(s, req[w].upload) = NoFile
        \/ /\ req'[w].at = "submit_after" /\ req'[w].upload = NoFile
           /\ req'[w].old = Superseded(s, req[w].upload)
           /\ Superseded(s, req[w].upload) # NoFile
    BY <2>3 DEF Idle
  <2>5. req'[w].upload = NoFile
    BY <2>4 DEF Idle
  <2> QED BY <1>11, <2>1, <2>2, <2>4, <2>5 DEF SubmitCommit, Superseded, Commits
<1> QED
  BY <1>2, <1>3, <1>4, <1>5, <1>6, <1>7, <1>8, <1>9, <1>10, <1>11 DEF Proceed

LEMMA StepFiles ==
  ASSUME IInv, NEW w \in Workers, TransactionFails(w) \/ Crash(w) \/ Proceed(w)
  PROVE  Carries(w) \/ Ends(w) \/ Commits(w) \/ Deletes(w)
<1>1. CASE TransactionFails(w)
  <2>1. /\ Refuse(w) /\ UNCHANGED <<apps, files, faults>>
        /\ req[w].at # "submit_after"
    BY <1>1 DEF TransactionFails, WaitsListing, WaitsRow, HoldsRow
  <2> QED BY <2>1, RefuseFiles
<1>2. CASE Crash(w)
  BY <1>2 DEF Crash, Finish, Ends, IInv, TypeOK
<1> QED BY <1>1, <1>2, ProceedFiles

LEMMA FilesOfStep ==
  ASSUME IInv, NEW w \in Workers, OwnStep(w)
  PROVE  Begins(w) \/ Carries(w) \/ Ends(w) \/ Commits(w) \/ Deletes(w)
BY ArriveBegins, StepFiles DEF OwnStep

LEMMA PathsStep ==
  ASSUME IInv, PathsInv, [Next]_vars
  PROVE  PathsInv'
<1>1. ASSUME NEW w \in Workers, OwnStep(w)
      PROVE  PathsInv'
  <2>1. \A v \in Workers \ {w} : req'[v] = req[v]
    BY <1>1, OwnRequestOnly DEF IInv, OwnStep
  <2>2. Idle.upload = NoFile /\ Idle.old = NoFile /\ Idle.at = "idle"
    BY DEF Idle
  <2> USE DEF PathsInv
  <2>3. CASE Begins(w)
    <3>1. UNCHANGED apps /\ req'[w].at # "submit_after"
      BY <2>3 DEF Begins
    <3>2. CASE req'[w].upload = NoFile /\ req'[w].old = NoFile
      BY <2>1, <3>1, <3>2
    <3>3. CASE \E f \in FreshFiles :
                 /\ req'[w].upload = f /\ req'[w].at \in UploadSteps
                 /\ req'[w].old = NoFile \/ \E s \in Students : req'[w].old = apps[s].file
      <4>1. PICK f \in FreshFiles :
                 /\ req'[w].upload = f /\ req'[w].at \in UploadSteps
                 /\ req'[w].old = NoFile \/ \E s \in Students : req'[w].old = apps[s].file
        BY <3>3
      <4>2. /\ f # NoFile
            /\ \A s \in Students : apps[s].file # f
            /\ \A v \in Workers : req[v].upload # f /\ req[v].old # f
        BY ConstantsAssumption DEF FreshFiles, Remembered
      <4>3. req'[w].old # f
        BY <4>1, <4>2
      <4>4. \A v \in Workers \ {w} : req[v].upload # NoFile => req'[w].old # req[v].upload
        BY <4>1
      <4> QED BY <2>1, <3>1, <4>1, <4>2, <4>3, <4>4
    <3> QED BY <2>3, <3>2, <3>3 DEF Begins
  <2>4. CASE Carries(w)
    <3>1. \A v \in Workers : /\ req'[v].upload = req[v].upload
                             /\ req'[v].old = req[v].old
                             /\ req[v].at \in UploadSteps => req'[v].at \in UploadSteps
                             /\ req'[v].at = "submit_after" => req[v].at = "submit_after"
      BY <2>1, <2>4 DEF Carries
    <3> QED BY <2>4, <3>1 DEF Carries
  <2>5. CASE Ends(w)
    BY <2>1, <2>2, <2>5 DEF Ends
  <2>6. CASE Deletes(w)
    BY <2>1, <2>2, <2>6 DEF Deletes
  <2>7. CASE Commits(w)
    <3>1. PICK s \in Students :
            /\ \A t \in Students \ {s} : apps'[t].file = apps[t].file
            /\ req'[w].upload = NoFile
            /\ apps'[s].file \in {apps[s].file, req[w].upload}
            /\ \/ req'[w].at # "submit_after" /\ req'[w].old \in {NoFile, req[w].old}
               \/ /\ req'[w].at = "submit_after" /\ req'[w].old = apps[s].file
                  /\ apps[s].file # NoFile /\ req[w].upload # NoFile
                  /\ apps'[s].file = req[w].upload
      BY <2>2, <2>7 DEF Commits
    <3>2. \A v \in Workers \ {w} : req[v].upload # NoFile =>
            /\ req[v].upload # req[w].upload
            /\ \A t \in Students : apps'[t].file # req[v].upload
            /\ req'[w].old # req[v].upload
      BY <3>1
    <3>3. \A t, u \in Students :
            t # u /\ apps'[t].file = apps'[u].file => apps'[t].file = NoFile
      BY <3>1
    <3>4. \A v \in Workers \ {w} : req[v].at = "submit_after" =>
            \A t \in Students : apps'[t].file # req[v].old
      BY <3>1
    <3>5. req'[w].at = "submit_after" => /\ req'[w].old # NoFile
                                         /\ \A t \in Students : apps'[t].file # req'[w].old
      BY <3>1
    <3> QED BY <2>1, <3>1, <3>2, <3>3, <3>4, <3>5
  <2> QED BY <1>1, <2>3, <2>4, <2>5, <2>6, <2>7, FilesOfStep
<1>2. CASE (\E f \in Files : LoseFile(f)) \/ DeadlinePasses \/ UNCHANGED vars
  BY <1>2 DEF LoseFile, DeadlinePasses, vars, PathsInv
<1> QED BY <1>1, <1>2 DEF Next, OwnStep

LEMMA StoredStep ==
  ASSUME IInv, PathsInv, StoredInv, [Next]_vars
  PROVE  StoredInv'
<1> faults \in Nat
  BY DEF IInv, TypeOK
<1> USE DEF StoredInv
<1>1. ASSUME NEW w \in Workers, OwnStep(w)
      PROVE  StoredInv'
  <2>1. \A v \in Workers \ {w} : req'[v] = req[v]
    BY <1>1, OwnRequestOnly DEF IInv, OwnStep
  <2>2. /\ Idle.upload = NoFile /\ Idle.old = NoFile
        /\ Idle.at \notin RepairSteps /\ Idle.at # "submit_after"
    BY DEF Idle, RepairSteps
  <2>3. SUFFICES ASSUME faults' = 0 PROVE StoredInv'
    OBVIOUS
  <2>4. CASE Begins(w)
    <3>1. UNCHANGED <<apps, faults>>
      BY <2>4 DEF Begins
    <3>2. CASE /\ req'[w].upload = NoFile /\ req'[w].old = NoFile
               /\ req'[w].at \notin RepairSteps /\ UNCHANGED files
      <4>1. Remembered \subseteq Remembered' \cup {NoFile}
        BY <2>1, <2>2, <2>4, <3>1 DEF Remembered, Begins
      <4>2. NoFile \notin files
        BY ConstantsAssumption DEF IInv, TypeOK
      <4> QED BY <2>1, <2>3, <3>1, <3>2, <4>1, <4>2
    <3>3. CASE \E f \in FreshFiles :
                 /\ req'[w].upload = f /\ files' = files \cup {f}
                 /\ req'[w].old = NoFile /\ req'[w].at \notin RepairSteps
      <4>1. PICK f \in FreshFiles :
                 /\ req'[w].upload = f /\ files' = files \cup {f}
                 /\ req'[w].old = NoFile /\ req'[w].at \notin RepairSteps
        BY <3>3
      <4>2. Remembered \cup {f} \subseteq Remembered' \cup {NoFile}
        BY <2>1, <2>2, <2>4, <3>1, <4>1 DEF Remembered, Begins
      <4>3. NoFile \notin files'
        BY <4>1, ConstantsAssumption DEF IInv, TypeOK, FreshFiles
      <4> QED BY <2>1, <2>3, <3>1, <4>1, <4>2, <4>3
    <3>4. ~ \E s \in Students : apps[s].file \notin files \cup {NoFile}
      BY <2>3, <3>1
    <3> QED BY <2>4, <3>2, <3>3, <3>4 DEF Begins
  <2>5. CASE Carries(w)
    <3>1. \A v \in Workers : req'[v].upload = req[v].upload /\ req'[v].old = req[v].old
      BY <2>1, <2>5 DEF Carries
    <3>2. Remembered' = Remembered
      BY <2>5, <3>1 DEF Remembered, Carries
    <3>3. /\ req'[w].at \in RepairSteps => req[w].at \in RepairSteps
          /\ req[w].at # "submit_after" /\ UNCHANGED <<files, faults>>
          /\ \A s \in Students : apps'[s].file = apps[s].file
      BY <2>5 DEF Carries
    <3> QED BY <2>1, <2>3, <3>1, <3>2, <3>3
  <2>6. CASE Ends(w)
    <3>1. faults' = faults
      BY <2>3, <2>6 DEF Ends
    <3>2. req[w].upload = NoFile /\ req[w].old = NoFile
      BY <2>3, <2>6, <3>1 DEF Ends, PathsInv
    <3>3. /\ req'[w] = Idle /\ UNCHANGED files
          /\ \A s \in Students : apps'[s].file = apps[s].file
      BY <2>6 DEF Ends
    <3>4. Remembered' = Remembered
      BY <2>1, <2>2, <3>2, <3>3 DEF Remembered
    <3> QED BY <2>1, <2>2, <2>3, <3>1, <3>3, <3>4
  <2>7. CASE Deletes(w)
    <3>1. PICK f \in {req[w].upload, req[w].old} :
            /\ UNCHANGED apps /\ req'[w] = Idle /\ UNCHANGED faults
            /\ files' = files \ {f}
            /\ \/ req[w].at = "abandon" /\ f = req[w].upload
               \/ req[w].at = "submit_after" /\ f = req[w].old
               \/ req[w].at = "repair_after"
      BY <2>3, <2>7 DEF Deletes
    <3>2. /\ {req[w].upload, req[w].old} \subseteq {f, NoFile}
          /\ \A s \in Students : apps[s].file # f \/ f = NoFile
          /\ \A v \in Workers \ {w} : req[v].upload # f \/ f = NoFile
      BY <2>3, <3>1 DEF PathsInv, UploadSteps, RepairSteps
    <3>3. Remembered \subseteq Remembered' \cup {f, NoFile}
      BY <2>1, <3>1, <3>2 DEF Remembered
    <3>4. NoFile \notin files
      BY ConstantsAssumption DEF IInv, TypeOK
    <3>5. files' \subseteq Remembered'
      BY <2>3, <3>1, <3>3, <3>4
    <3>6. \A s \in Students : apps'[s].file \in files' \cup {NoFile}
      BY <2>3, <3>1, <3>2
    <3>7. \A v \in Workers :
            /\ req'[v].upload \in files' \cup {NoFile}
            /\ req'[v].at \notin RepairSteps
            /\ req'[v].old # NoFile => req'[v].at = "submit_after"
      BY <2>1, <2>2, <2>3, <3>1, <3>2
    <3> QED BY <3>5, <3>6, <3>7
  <2>8. CASE Commits(w)
    <3>1. PICK s \in Students :
            /\ UNCHANGED <<files, faults>> /\ req[w].at = "submit_row"
            /\ \A t \in Students \ {s} : apps'[t].file = apps[t].file
            /\ req'[w].upload = NoFile
            /\ \/ /\ req[w].upload = NoFile
                  /\ apps'[s].file = apps[s].file /\ req'[w] = Idle
               \/ /\ apps'[s].file = req[w].upload
                  /\ \/ apps[s].file = NoFile /\ req'[w] = Idle
                     \/ req'[w].at = "submit_after" /\ req'[w].old = apps[s].file
      BY <2>3, <2>8 DEF Commits, RepairSteps
    <3>2. req[w].old = NoFile
      BY <2>3, <3>1
    <3>3. Remembered \subseteq Remembered' \cup {NoFile}
      BY <2>1, <2>2, <3>1, <3>2 DEF Remembered
    <3>4. NoFile \notin files
      BY ConstantsAssumption DEF IInv, TypeOK
    <3>5. files' \subseteq Remembered'
      BY <2>3, <3>1, <3>3, <3>4
    <3>6. \A t \in Students : apps'[t].file \in files' \cup {NoFile}
      BY <2>3, <3>1
    <3>7. \A v \in Workers :
            /\ req'[v].upload \in files' \cup {NoFile}
            /\ req'[v].at \notin RepairSteps
            /\ req'[v].old # NoFile => req'[v].at = "submit_after"
      BY <2>1, <2>2, <2>3, <3>1 DEF RepairSteps
    <3> QED BY <3>5, <3>6, <3>7
  <2> QED BY <1>1, <2>4, <2>5, <2>6, <2>7, <2>8, FilesOfStep
<1>2. CASE \E f \in Files : LoseFile(f)
  BY <1>2 DEF LoseFile
<1>3. CASE DeadlinePasses \/ UNCHANGED vars
  BY <1>3 DEF DeadlinePasses, vars, Remembered
<1> QED BY <1>1, <1>2, <1>3 DEF Next, OwnStep

LEMMA ViewStep ==
  ASSUME IInv, ViewInv, [Next]_vars
  PROVE  ViewInv'
<1> USE DEF ViewInv, ViewedToldOnce
<1>1. ASSUME NEW w \in Workers, OwnStep(w)
      PROVE  ViewInv'
  <2> DEFINE s == req[w].who
  <2>1. \A v \in Workers \ {w} : req'[v] = req[v]
    BY <1>1, OwnRequestOnly DEF IInv, OwnStep
  <2>2. TypeOK /\ \A v \in Workers : req[v].at = "view_tell" => req[v].who \in Students
    BY DEF IInv, RequestInv, RequestOK
  <2>3. req[w].at \notin {"idle", "abandon", "listing_write"} => s \in Students
    BY DEF IInv, RequestInv, RequestOK
  <2>4. CASE ViewWrite(w) /\ ~apps[s].viewed
    <3>1. /\ req'[w].at = "view_tell" /\ req'[w].who = s
          /\ s \in Students /\ told' = told
      BY <2>2, <2>3, <2>4, AfterGoto DEF ViewWrite
    <3>2. /\ apps'[s].viewed
          /\ \A t \in Students \ {s} : apps'[t].viewed = apps[t].viewed
      BY <2>2, <2>4, <3>1 DEF ViewWrite, TypeOK, Application
    <3>3. /\ "VIEWED" \notin told[s]
          /\ \A v \in Workers : req[v].at = "view_tell" => req[v].who # s
      BY <2>4, <3>1
    <3> QED BY <2>1, <2>2, <3>1, <3>2, <3>3
  <2>5. CASE ViewTell(w)
    <3>1. /\ req[w].at = "view_tell" /\ s \in Students /\ apps' = apps
          /\ req'[w].at = "idle"
      BY <2>2, <2>5, AfterFinish DEF ViewTell
    <3>2. \A t \in Students : told'[t] = told[t] \/ t = s
      BY <2>2, <2>5, <3>1 DEF ViewTell, Tell, TypeOK
    <3> QED BY <2>1, <2>2, <3>1, <3>2
  <2>6. CASE DecideTell(w)
    <3>1. /\ req[w].at = "decide_tell" /\ s \in Students /\ apps' = apps
          /\ req'[w].at = "idle" /\ req[w].verdict # "VIEWED"
      BY <2>2, <2>6, AfterFinish
      DEF DecideTell, IInv, RequestInv, RequestOK, Deciding, DECISIONS
    <3>2. \A t \in Students : "VIEWED" \in told'[t] <=> "VIEWED" \in told[t]
      BY <2>2, <2>6, <3>1 DEF DecideTell, Tell, TypeOK
    <3> QED BY <2>1, <2>2, <3>1, <3>2
  <2>7. CASE ~ViewTell(w) /\ ~DecideTell(w) /\ ~(ViewWrite(w) /\ ~apps[s].viewed)
    <3>1. told' = told
      BY <1>1, <2>2, <2>7, AfterArrive
      DEF OwnStep, Proceed, TransactionFails, Crash, SubmitLockListing,
          SubmitLockRow, SubmitCommit, SubmitReleaseOld, DeleteUpload,
          DecideLockListing, DecideLockRow, DecideCommit, WithdrawLockRow,
          WithdrawCommit, ViewWrite, RepairLockRow, RepairCommit,
          RepairReleaseOld, WriteListing
    <3>2. \A t \in Students : apps'[t].viewed = apps[t].viewed
      <4>1. CASE SubmitCommit(w) \/ DecideCommit(w) \/ WithdrawCommit(w)
        <5>1. CASE SubmitCommit(w)
          BY <2>2, <2>3, <5>1 DEF SubmitCommit, TypeOK, Application
        <5>2. CASE DecideCommit(w)
          BY <2>2, <2>3, <5>2 DEF DecideCommit, TypeOK, Application
        <5>3. CASE WithdrawCommit(w)
          BY <2>2, <2>3, <5>3 DEF WithdrawCommit, TypeOK, Application
        <5> QED BY <4>1, <5>1, <5>2, <5>3
      <4>2. CASE RepairCommit(w)
        BY <2>2, <4>2 DEF RepairCommit, TypeOK, Application
      <4>3. CASE ~(SubmitCommit(w) \/ DecideCommit(w) \/ WithdrawCommit(w)
                     \/ RepairCommit(w))
        BY <1>1, <2>2, <2>7, <4>3, AfterArrive
        DEF OwnStep, Proceed, TransactionFails, Crash, SubmitLockListing,
            SubmitLockRow, SubmitReleaseOld, DeleteUpload, DecideLockListing,
            DecideLockRow, WithdrawLockRow, ViewWrite, RepairLockRow,
            RepairReleaseOld, WriteListing
      <4> QED BY <4>1, <4>2, <4>3
    <3>3. req'[w].at # "view_tell"
      <4>1. CASE Arrive(w)
        BY <2>2, <4>1, AfterArrive
      <4>2. CASE TransactionFails(w) \/ Crash(w)
        BY <2>2, <4>2, AfterRefuse, AfterFinish DEF TransactionFails, Crash
      <4>3. CASE Proceed(w)
        <5>1. CASE SubmitCommit(w) \/ RepairCommit(w) \/ DecideLockRow(w)
          <6>1. CASE SubmitCommit(w)
            BY <2>2, <6>1 DEF SubmitCommit, TypeOK, Idle
          <6>2. CASE RepairCommit(w)
            BY <2>2, <6>2 DEF RepairCommit, TypeOK, Request
          <6>3. CASE DecideLockRow(w) /\ MayDecide(s, req[w].verdict)
            BY <2>2, <6>3 DEF DecideLockRow, TypeOK, Request
          <6>4. CASE DecideLockRow(w) /\ ~MayDecide(s, req[w].verdict)
            BY <2>2, <6>4, AfterRefuse DEF DecideLockRow
          <6> QED BY <5>1, <6>1, <6>2, <6>3, <6>4
        <5>2. CASE ~(SubmitCommit(w) \/ RepairCommit(w) \/ DecideLockRow(w))
          BY <2>2, <2>7, <4>3, <5>2, AfterGoto, AfterRefuse, AfterFinish
          DEF Proceed, SubmitLockListing, SubmitLockRow, SubmitReleaseOld,
              DeleteUpload, DecideLockListing, DecideCommit, WithdrawLockRow,
              WithdrawCommit, ViewWrite, RepairLockRow, RepairReleaseOld,
              WriteListing
        <5> QED BY <5>1, <5>2
      <4> QED BY <1>1, <4>1, <4>2, <4>3 DEF OwnStep
    <3> QED BY <2>1, <2>2, <3>1, <3>2, <3>3
  <2> QED BY <2>4, <2>5, <2>6, <2>7
<1>2. CASE (\E f \in Files : LoseFile(f)) \/ DeadlinePasses \/ UNCHANGED vars
  BY <1>2 DEF LoseFile, DeadlinePasses, vars
<1> QED BY <1>1, <1>2 DEF Next, OwnStep

LEMMA InitFiles == Init => PathsInv /\ StoredInv /\ ViewInv
<1> SUFFICES ASSUME Init PROVE PathsInv /\ StoredInv /\ ViewInv
  OBVIOUS
<1>1. /\ \A w \in Workers : /\ req[w].at = "idle" /\ req[w].upload = NoFile
                            /\ req[w].old = NoFile
      /\ \A s \in Students : apps[s].file = NoFile /\ told[s] = {}
      /\ files = {}
  BY DEF Init, Idle, NoRow
<1> QED BY <1>1 DEF PathsInv, StoredInv, ViewInv, ViewedToldOnce, RepairSteps

\* The invariants of files and of the first look hold in every state.
THEOREM FilesInvariant == Spec => [](IInv /\ PathsInv /\ StoredInv /\ ViewInv)
<1>1. IInv /\ PathsInv /\ StoredInv /\ ViewInv /\ [Next]_vars
        => (IInv /\ PathsInv /\ StoredInv /\ ViewInv)'
  BY NextIInv, PathsStep, StoredStep, ViewStep
<1> QED BY <1>1, InitIInv, InitFiles, PTL DEF Spec

\* The applicant is told of the first look at an application at most once,
\* however many providers open it and whatever is submitted again meanwhile.
THEOREM FirstLookToldOnce == Spec => []ViewedToldOnce
BY FilesInvariant, PTL DEF ViewInv

\* While nothing fails, no refusal, rollback or lost race leaves a file behind
\* that neither a row nor a request refers to.
THEOREM NoUploadIsOrphaned == Spec => []NoOrphanUpload
<1>1. StoredInv => NoOrphanUpload
  BY DEF StoredInv, NoOrphanUpload
<1> QED BY <1>1, FilesInvariant, PTL

\* No request deletes a file that an application's row points at.
THEOREM OwnFilesAreKept == Spec => OwnFilesSurvive
<1> DEFINE Survive == faults' = faults =>
      \A s \in Students : apps'[s].file \in files => apps'[s].file \in files'
<1>1. IInv /\ PathsInv /\ [Next]_vars => [Survive]_vars
  <2> SUFFICES ASSUME IInv, PathsInv, Next, faults' = faults, NEW s \in Students,
                      apps'[s].file \in files
               PROVE  apps'[s].file \in files'
    OBVIOUS
  <2> faults \in Nat
    BY DEF IInv, TypeOK
  <2>1. ASSUME NEW w \in Workers, OwnStep(w)
        PROVE  apps'[s].file \in files'
    <3>1. CASE Deletes(w)
      <4>1. PICK f \in {req[w].upload, req[w].old} :
              /\ UNCHANGED apps /\ files' = files \ {f}
              /\ \/ req[w].at = "abandon" /\ f = req[w].upload
                 \/ req[w].at = "submit_after" /\ f = req[w].old
                 \/ \A t \in Students : apps[t].file # f
        BY <3>1 DEF Deletes
      <4>2. apps[s].file # f \/ f = NoFile
        BY <4>1 DEF PathsInv
      <4>3. NoFile \notin files
        BY ConstantsAssumption DEF IInv, TypeOK
      <4> QED BY <4>1, <4>2, <4>3
    <3>2. CASE Begins(w) \/ Carries(w) \/ Ends(w) \/ Commits(w)
      BY <3>2 DEF Begins, Carries, Ends, Commits
    <3> QED BY <2>1, <3>1, <3>2, FilesOfStep
  <2>2. CASE (\E f \in Files : LoseFile(f)) \/ DeadlinePasses
    BY <2>2 DEF LoseFile, DeadlinePasses
  <2> QED BY <2>1, <2>2 DEF Next, OwnStep
<1> QED BY <1>1, FilesInvariant, PTL DEF Spec, OwnFilesSurvive

-----------------------------------------------------------------------------
(***************************************************************************)
(* The workflow implements the ledger                                      *)
(***************************************************************************)

LEMMA AcceptedFinite == Cardinality(Accepted) \in Nat
<1>1. Accepted \subseteq Students
  BY DEF Accepted
<1>2. IsFiniteSet(Accepted)
  BY <1>1, ConstantsAssumption, FS_Subset
<1> QED BY <1>2, FS_CardinalityType

\* The instance counts with the Cardinality of its own FiniteSets.
LEMMA SameCardinality ==
  ASSUME NEW S
  PROVE  Ledger!Cardinality(S) = Cardinality(S)
BY DEF Ledger!Cardinality, Cardinality

\* The two specifications count awards alike.
LEMMA SameCount ==
  ASSUME TypeOK
  PROVE  /\ Ledger!Granted = Accepted
         /\ Ledger!SeatLeft <=> ~AwardsFilled
         /\ ~AwardsFilled => (Ledger!LastSeat <=> FillsLastSeat)
<1>1. Ledger!Granted = Accepted
  BY DEF Ledger!Granted, Accepted
<1>2. listing.slots \in Nat
  BY DEF TypeOK, Listing
<1> QED
  BY <1>1, <1>2, AcceptedFinite, SameCardinality
  DEF Ledger!SeatLeft, Ledger!LastSeat, AwardsFilled, FillsLastSeat

\* The ledger's moves of one application.
LEMMA LedgerMoves ==
  ASSUME NEW s \in Students,
         Ledger!Apply(s) \/ Ledger!Withdraw(s) \/ Ledger!Accept(s) \/ Ledger!Reject(s)
  PROVE  Ledger!Next
BY DEF Ledger!Next

LEMMA LedgerStutters ==
  ASSUME TypeOK, UNCHANGED listing,
         \A s \in Students : apps'[s].status = apps[s].status
  PROVE  UNCHANGED Ledger!vars
BY DEF Ledger!vars

LEMMA LedgerSubmit ==
  ASSUME IInv, NEW w \in Workers, SubmitCommit(w)
  PROVE  Ledger!Next
<1>0. PICK s \in Students : s = req[w].who
  BY DEF SubmitCommit, IInv, RequestInv, RequestOK
<1>1. /\ allowsReapplication(apps[s].status)
      /\ listing.status = "ACTIVE" /\ listing.moderation = "APPROVED"
      /\ ~AwardsFilled
  BY <1>0 DEF SubmitCommit, IInv, LockedReadsHold, LockedReads
<1>2. \A t \in Students : apps'[t].status = IF t = s THEN "PENDING"
                                            ELSE apps[t].status
  BY <1>0 DEF SubmitCommit, IInv, TypeOK, Application
<1>3. UNCHANGED listing
  BY DEF SubmitCommit
<1>4. Ledger!Apply(s)
  BY <1>1, <1>2, <1>3, SameCount
  DEF Ledger!Apply, IInv, allowsReapplication
<1> QED BY <1>4, LedgerMoves

LEMMA LedgerDecide ==
  ASSUME IInv, NEW w \in Workers, DecideCommit(w)
  PROVE  Ledger!Next
<1> DEFINE verdict == req[w].verdict
<1>0. PICK s \in Students : s = req[w].who
  BY DEF DecideCommit, IInv, RequestInv, RequestOK
<1>1. /\ verdict \in DECISIONS
      /\ apps[s].status = "PENDING"
      /\ verdict = "ACCEPTED" => ~AwardsFilled
      /\ req[w].closes <=> verdict = "ACCEPTED" /\ FillsLastSeat
  BY <1>0 DEF DecideCommit, IInv, RequestInv, RequestOK, LockedReadsHold,
              LockedReads, Deciding
<1>2. \A t \in Students : apps'[t].status = IF t = s THEN verdict
                                            ELSE apps[t].status
  BY <1>0 DEF DecideCommit, IInv, TypeOK, Application
<1>3. /\ listing'.slots = listing.slots
      /\ listing'.moderation = listing.moderation
      /\ listing'.status = IF req[w].closes /\ listing.status = "ACTIVE"
                           THEN "CLOSED" ELSE listing.status
  BY DEF DecideCommit, IInv, TypeOK, Listing
<1>4. CASE verdict = "ACCEPTED"
  <2>1. Ledger!LastSeat <=> req[w].closes
    BY <1>1, <1>4, SameCount DEF IInv
  <2>2. Ledger!SeatLeft
    BY <1>1, <1>4, SameCount DEF IInv
  <2>3. Ledger!Accept(s)
    BY <1>1, <1>2, <1>3, <1>4, <2>1, <2>2 DEF Ledger!Accept
  <2> QED BY <2>3, LedgerMoves
<1>5. CASE verdict = "REJECTED"
  <2>1. Ledger!Reject(s)
    BY <1>1, <1>2, <1>3, <1>5 DEF Ledger!Reject
  <2> QED BY <2>1, LedgerMoves
<1> QED BY <1>1, <1>4, <1>5 DEF DECISIONS

LEMMA LedgerWithdraw ==
  ASSUME IInv, NEW w \in Workers, WithdrawCommit(w)
  PROVE  Ledger!Next
<1>0. PICK s \in Students : s = req[w].who
  BY DEF WithdrawCommit, IInv, RequestInv, RequestOK
<1>1. apps[s].status = "PENDING"
  BY <1>0 DEF WithdrawCommit, IInv, LockedReadsHold, LockedReads
<1>2. \A t \in Students : apps'[t].status = IF t = s THEN "WITHDRAWN"
                                            ELSE apps[t].status
  BY <1>0 DEF WithdrawCommit, IInv, TypeOK, Application
<1>3. UNCHANGED listing
  BY DEF WithdrawCommit
<1>4. Ledger!Withdraw(s)
  BY <1>1, <1>2, <1>3 DEF Ledger!Withdraw
<1> QED BY <1>4, LedgerMoves

LEMMA LedgerRelist ==
  ASSUME TypeOK', \A s \in Students : apps'[s].status = apps[s].status
  PROVE  Ledger!Next
<1>1. listing'.slots \in Nat
  BY DEF TypeOK, Listing
<1> QED BY <1>1 DEF Ledger!Next, Ledger!Relist

LEMMA LedgerStep ==
  ASSUME IInv, IInv', [Next]_vars
  PROVE  [Ledger!Next]_(Ledger!vars)
<1>1. CASE \E w \in Workers : SubmitCommit(w) \/ DecideCommit(w) \/ WithdrawCommit(w)
  BY <1>1, LedgerSubmit, LedgerDecide, LedgerWithdraw
<1>2. CASE (\E w \in Workers : WriteListing(w)) \/ DeadlinePasses
  BY <1>2, LedgerRelist DEF WriteListing, DeadlinePasses, IInv
<1>3. CASE (\E f \in Files : LoseFile(f)) \/ UNCHANGED vars
  BY <1>3, LedgerStutters DEF LoseFile, vars, IInv
<1>4. ASSUME NEW w \in Workers, OwnStep(w),
             ~SubmitCommit(w), ~DecideCommit(w), ~WithdrawCommit(w),
             ~WriteListing(w)
      PROVE  UNCHANGED Ledger!vars
  <2>1. UNCHANGED listing
    BY <1>4, AfterArrive
    DEF OwnStep, Proceed, TransactionFails, Crash, SubmitLockListing,
        SubmitLockRow, SubmitReleaseOld, DeleteUpload, DecideLockListing,
        DecideLockRow, DecideTell, WithdrawLockRow, ViewWrite, ViewTell,
        RepairLockRow, RepairCommit, RepairReleaseOld, IInv
  <2>2. CASE ViewWrite(w) \/ RepairCommit(w)
    BY <2>1, <2>2, LedgerStutters
    DEF ViewWrite, RepairCommit, IInv, TypeOK, Application
  <2>3. CASE ~ViewWrite(w) /\ ~RepairCommit(w)
    <3>1. UNCHANGED apps
      BY <1>4, <2>3, AfterArrive
      DEF OwnStep, Proceed, TransactionFails, Crash, SubmitLockListing,
          SubmitLockRow, SubmitReleaseOld, DeleteUpload, DecideLockListing,
          DecideLockRow, DecideTell, WithdrawLockRow, ViewTell,
          RepairLockRow, RepairReleaseOld, IInv
    <3> QED BY <2>1, <3>1, LedgerStutters DEF IInv
  <2> QED BY <2>2, <2>3
<1> QED BY <1>1, <1>2, <1>3, <1>4 DEF Next, OwnStep, Proceed

LEMMA LedgerInit == Init => Ledger!Init
<1> SUFFICES ASSUME Init PROVE Ledger!Init
  OBVIOUS
<1>1. listing.slots \in Nat
  BY ConstantsAssumption DEF Init
<1>2. [s \in Students |-> apps[s].status] = [s \in Students |-> "NONE"]
  BY DEF Init, NoRow
<1> QED BY <1>1, <1>2 DEF Ledger!Init

\* The locks, the order they are taken in and the checks made under them give
\* applicants and providers the ledger's atomic steps: nobody is accepted
\* beyond the last award, no decision is overturned, no application enters a
\* listing that has closed or filled, and filling a listing closes it.
THEOREM WorkflowImplementsLedger == Spec => ImplementsAwardLedger
<1>1. Init => Ledger!Init
  BY LedgerInit
<1>2. IInv /\ IInv' /\ [Next]_vars => [Ledger!Next]_(Ledger!vars)
  BY LedgerStep
<1> QED
  BY <1>1, <1>2, InductiveInvariant, PTL
  DEF Spec, ImplementsAwardLedger, Ledger!Spec

-----------------------------------------------------------------------------
(***************************************************************************)
(* What the applicants and the provider may rely on                        *)
(***************************************************************************)

\* A decision on an application is the last thing that happens to its status.
DecisionsAreFinal ==
  [][\A s \in Students : apps[s].status \in DECISIONS
                           => apps'[s].status = apps[s].status]_vars

LEMMA DecisionsStep ==
  ASSUME IInv, [Next]_vars, NEW s \in Students, apps[s].status \in DECISIONS
  PROVE  apps'[s].status = apps[s].status
<1>1. CASE \E w \in Workers : OwnStep(w)
  BY <1>1, StepEffect
<1>2. CASE (\E f \in Files : LoseFile(f)) \/ DeadlinePasses \/ UNCHANGED vars
  BY <1>2 DEF LoseFile, DeadlinePasses, vars
<1> QED BY <1>1, <1>2 DEF Next, OwnStep

\* However many reviewers decide at once, and whatever the applicant does
\* meanwhile, an accepted or rejected application stays so (decide, submit and
\* withdraw ask the state machine again under the row lock).
THEOREM NoDecisionIsOverturned == Spec => DecisionsAreFinal
<1>1. IInv /\ [Next]_vars =>
        [\A s \in Students : apps[s].status \in DECISIONS
                               => apps'[s].status = apps[s].status]_vars
  BY DecisionsStep
<1> QED BY <1>1, InductiveInvariant, PTL DEF Spec, DecisionsAreFinal

\* An acceptance adds one student, while an award is left, to a listing whose
\* awards it does not change, and closes it with the last.
Accepts ==
  \E s \in Students :
    /\ s \notin Accepted /\ Accepted' = Accepted \cup {s}
    /\ ~AwardsFilled
    /\ listing'.slots = listing.slots
    /\ FillsLastSeat => listing'.status # "ACTIVE"

LEMMA AcceptedStep ==
  ASSUME IInv, [Next]_vars
  PROVE  Accepted' = Accepted \/ Accepts
<1>1. ASSUME NEW w \in Workers, DecideCommit(w)
      PROVE  Accepted' = Accepted \/ Accepts
  <2>0. PICK s \in Students : s = req[w].who
    BY <1>1 DEF DecideCommit, IInv, RequestInv, RequestOK
  <2>1. /\ req[w].verdict \in DECISIONS
        /\ apps[s].status = "PENDING"
        /\ req[w].verdict = "ACCEPTED" => ~AwardsFilled
        /\ req[w].closes <=> req[w].verdict = "ACCEPTED" /\ FillsLastSeat
    BY <1>1, <2>0 DEF DecideCommit, IInv, RequestInv, RequestOK, LockedReadsHold,
                LockedReads, Deciding
  <2>2. \A t \in Students : apps'[t].status = IF t = s THEN req[w].verdict
                                              ELSE apps[t].status
    BY <1>1, <2>0 DEF DecideCommit, IInv, TypeOK, Application
  <2>3. /\ listing'.slots = listing.slots
        /\ req[w].closes => listing'.status # "ACTIVE"
    BY <1>1 DEF DecideCommit, IInv, TypeOK, Listing
  <2>4. CASE req[w].verdict = "ACCEPTED"
    <3>1. s \notin Accepted /\ Accepted' = Accepted \cup {s}
      BY <2>1, <2>2, <2>4 DEF Accepted
    <3> QED BY <2>1, <2>3, <2>4, <3>1 DEF Accepts
  <2>5. CASE req[w].verdict = "REJECTED"
    BY <2>1, <2>2, <2>5 DEF Accepted
  <2> QED BY <2>1, <2>4, <2>5 DEF DECISIONS
<1>2. ASSUME NEW w \in Workers, OwnStep(w), ~DecideCommit(w)
      PROVE  Accepted' = Accepted
  <2>1. ASSUME NEW s \in Students, apps'[s].status # apps[s].status
        PROVE  apps'[s].status # "ACCEPTED" /\ apps[s].status # "ACCEPTED"
    <3>1. /\ s = req[w].who /\ apps[s].status \notin DECISIONS
          /\ apps'[s].status = "ACCEPTED" => req[w].at = "decide_row"
      BY <1>2, <2>1, StepEffect
    <3>2. req[w].at = "decide_row" => TransactionFails(w) \/ Crash(w)
      BY <1>2, AfterArrive
      DEF OwnStep, Proceed, SubmitLockListing, SubmitLockRow, SubmitCommit,
          SubmitReleaseOld, DeleteUpload, DecideLockListing, DecideLockRow,
          DecideTell, WithdrawLockRow, WithdrawCommit, ViewWrite, ViewTell,
          RepairLockRow, RepairCommit, RepairReleaseOld, WriteListing, IInv
    <3>3. req[w].at # "decide_row"
      BY <2>1, <3>2 DEF TransactionFails, Crash
    <3> QED BY <3>1, <3>3 DEF DECISIONS
  <2> QED BY <2>1 DEF Accepted
<1>3. CASE (\E f \in Files : LoseFile(f)) \/ DeadlinePasses \/ UNCHANGED vars
  BY <1>3 DEF LoseFile, DeadlinePasses, vars, Accepted
<1> QED BY <1>1, <1>2, <1>3 DEF Next, OwnStep

LEMMA OneMoreAccepted ==
  ASSUME NEW s \in Students, s \notin Accepted, Accepted' = Accepted \cup {s}
  PROVE  Cardinality(Accepted') = Cardinality(Accepted) + 1
<1>1. IsFiniteSet(Accepted)
  <2>1. Accepted \subseteq Students
    BY DEF Accepted
  <2> QED BY <2>1, ConstantsAssumption, FS_Subset
<1> QED BY <1>1, FS_AddElement

\* No award is granted beyond those the listing has at that moment.
GrantsAreCovered ==
  [][Accepted' # Accepted =>
       listing'.slots = 0 \/ Cardinality(Accepted') <= listing'.slots]_vars

LEMMA AcceptsCovered ==
  ASSUME IInv, Accepts
  PROVE  listing'.slots = 0 \/ Cardinality(Accepted') <= listing'.slots
<1>1. PICK s \in Students :
        /\ s \notin Accepted /\ Accepted' = Accepted \cup {s}
        /\ ~AwardsFilled /\ listing'.slots = listing.slots
  BY DEF Accepts
<1>2. Cardinality(Accepted') = Cardinality(Accepted) + 1
  BY <1>1, OneMoreAccepted
<1> QED BY <1>1, <1>2, AcceptedFinite DEF AwardsFilled, IInv, TypeOK, Listing

\* However many decisions race for the last award, and whatever the provider
\* edits meanwhile, an acceptance never exceeds award_slots as it is then.
THEOREM NoAwardTooMany == Spec => GrantsAreCovered
<1>1. IInv /\ [Next]_vars =>
        [Accepted' # Accepted =>
           listing'.slots = 0 \/ Cardinality(Accepted') <= listing'.slots]_vars
  BY AcceptedStep, AcceptsCovered
<1> QED BY <1>1, InductiveInvariant, PTL DEF Spec, GrantsAreCovered

\* What a listing that nobody edits or extends keeps: it never has more accepted
\* applications than awards, and once they are all granted it is not ACTIVE.
FilledIsClosed ==
  listing.slots # 0 =>
    /\ Cardinality(Accepted) <= listing.slots
    /\ Cardinality(Accepted) = listing.slots => listing.status # "ACTIVE"

\* A loaded copy that is about to be written neither reopens the listing nor
\* changes its awards.
OnlyCloses(r) == r.at = "listing_write" => r.dirty.status # "ACTIVE" /\ r.dirty.slots = 0

FilledInv == FilledIsClosed /\ \A w \in Workers : OnlyCloses(req[w])

\* The requests that write a copy of the listing they have loaded.
LEMMA ListingArrives ==
  ASSUME TypeOK, NEW w \in Workers, Arrive(w), req'[w].at = "listing_write"
  PROVE  \/ \E date \in {"keep", "ahead"} : BeginExtendDeadline(w, date)
         \/ \E slots \in SlotChoices, date \in {"keep", "rolling", "ahead"},
               otherMaterial \in BOOLEAN : BeginEdit(w, slots, date, otherMaterial)
         \/ BeginUnlist(w) \/ BeginArchive(w)
         \/ \E verdict \in {"APPROVED", "REJECTED"} : BeginModerate(w, verdict)
<1>1. ASSUME NEW r, req' = [req EXCEPT ![w] = r], r.at # "listing_write"
      PROVE  FALSE
  BY <1>1 DEF TypeOK
<1>2. ASSUME NEW s \in Students, NEW attach \in BOOLEAN, BeginSubmit(w, s, attach)
      PROVE  FALSE
  BY <1>2 DEF BeginSubmit, StoreUpload, Idle, TypeOK
<1>3. ASSUME NEW s \in Students, BeginRepair(w, s)
      PROVE  FALSE
  BY <1>3 DEF BeginRepair, StoreUpload, Idle, TypeOK
<1>4. ASSUME NEW s \in Students, NEW verdict \in DECISIONS, BeginDecide(w, s, verdict)
      PROVE  FALSE
  <2> DEFINE r == [Idle EXCEPT !.at = "decide_start", !.who = s, !.verdict = verdict]
  <2>1. req' = [req EXCEPT ![w] = r] /\ r.at = "decide_start"
    BY <1>4 DEF BeginDecide, Idle
  <2> HIDE DEF r
  <2> QED BY <1>1, <2>1
<1>5. ASSUME NEW s \in Students, BeginWithdraw(w, s)
      PROVE  FALSE
  <2> DEFINE r == [Idle EXCEPT !.at = "withdraw_start", !.who = s]
  <2>1. req' = [req EXCEPT ![w] = r] /\ r.at = "withdraw_start"
    BY <1>5 DEF BeginWithdraw, Idle
  <2> HIDE DEF r
  <2> QED BY <1>1, <2>1
<1>6. ASSUME NEW s \in Students, BeginView(w, s)
      PROVE  FALSE
  <2> DEFINE r == [Idle EXCEPT !.at = "view_start", !.who = s]
  <2>1. req' = [req EXCEPT ![w] = r] /\ r.at = "view_start"
    BY <1>6 DEF BeginView, Idle
  <2> HIDE DEF r
  <2> QED BY <1>1, <2>1
<1> QED BY <1>2, <1>3, <1>4, <1>5, <1>6 DEF Arrive

LEMMA CopyLoaded ==
  ASSUME TypeOK, NEW w \in Workers, NEW dirty, LoadListing(w, dirty)
  PROVE  req'[w].dirty = dirty
BY DEF LoadListing, TypeOK, Idle

LEMMA ArriveOnlyCloses ==
  ASSUME TypeOK, Ops \cap {"edit", "extend"} = {}, NEW w \in Workers, Arrive(w)
  PROVE  OnlyCloses(req'[w])
<1> SUFFICES ASSUME req'[w].at = "listing_write"
             PROVE  req'[w].dirty.status # "ACTIVE" /\ req'[w].dirty.slots = 0
  BY DEF OnlyCloses
<1>1. CASE BeginUnlist(w)
  <2> DEFINE dirty == [Clean EXCEPT !.status = "WITHDRAWN"]
  <2>1. LoadListing(w, dirty) /\ dirty.status = "WITHDRAWN" /\ dirty.slots = 0
    BY <1>1 DEF BeginUnlist, Clean
  <2> HIDE DEF dirty
  <2> QED BY <2>1, CopyLoaded
<1>2. CASE BeginArchive(w)
  <2> DEFINE dirty == [Clean EXCEPT !.status = "CLOSED"]
  <2>1. LoadListing(w, dirty) /\ dirty.status = "CLOSED" /\ dirty.slots = 0
    BY <1>2 DEF BeginArchive, Clean
  <2> HIDE DEF dirty
  <2> QED BY <2>1, CopyLoaded
<1>3. ASSUME NEW verdict \in {"APPROVED", "REJECTED"}, BeginModerate(w, verdict)
      PROVE  req'[w].dirty.status # "ACTIVE" /\ req'[w].dirty.slots = 0
  <2> DEFINE dirty == [Clean EXCEPT !.moderation = verdict]
  <2>1. LoadListing(w, dirty) /\ dirty.status = "keep" /\ dirty.slots = 0
    BY <1>3 DEF BeginModerate, Clean
  <2> HIDE DEF dirty
  <2> QED BY <2>1, CopyLoaded
<1> QED BY <1>1, <1>2, <1>3, ListingArrives DEF BeginExtendDeadline, BeginEdit, Begin

\* Steps that a request still has before it, at most.
StepsLeft(step) ==
  CASE step = "idle" -> 0
    [] step \in {"submit_start", "decide_start"} -> 4
    [] step \in {"submit_listing", "decide_listing", "repair_start",
                 "withdraw_start"} -> 3
    [] step \in {"submit_row", "decide_row", "repair_row", "withdraw_row",
                 "view_start", "listing_write"} -> 2
    [] OTHER -> 1

LEMMA Advance ==
  ASSUME IInv, NEW w \in Workers, Proceed(w) \/ TransactionFails(w) \/ Crash(w)
  PROVE  /\ req[w].at # "idle" => StepsLeft(req'[w].at) < StepsLeft(req[w].at)
         /\ req'[w].at # "listing_write"
<1> TypeOK
  BY DEF IInv
<1> USE DEF StepsLeft
<1>1. CASE SubmitReleaseOld(w) \/ DeleteUpload(w) \/ DecideTell(w) \/ ViewTell(w)
           \/ WithdrawCommit(w) \/ RepairReleaseOld(w) \/ WriteListing(w)
  BY <1>1, AfterFinish
  DEF SubmitReleaseOld, DeleteUpload, DecideTell, ViewTell, WithdrawCommit,
      RepairReleaseOld, WriteListing
<1>2. CASE SubmitLockListing(w) \/ SubmitLockRow(w)
  BY <1>2, AfterGoto, AfterRefuse DEF SubmitLockListing, SubmitLockRow
<1>3. CASE SubmitCommit(w)
  <2>1. req'[w].at \in {"idle", "submit_after"}
    BY <1>3 DEF SubmitCommit, TypeOK, Idle
  <2> QED BY <1>3, <2>1 DEF SubmitCommit
<1>4. CASE DecideLockListing(w) \/ DecideCommit(w)
  BY <1>4, AfterGoto DEF DecideLockListing, DecideCommit
<1>5. CASE DecideLockRow(w)
  <2>1. req'[w].at \in {"idle", "abandon", "decide_row"}
    <3>1. CASE MayDecide(req[w].who, req[w].verdict)
      BY <1>5, <3>1 DEF DecideLockRow, TypeOK, Request
    <3>2. CASE ~MayDecide(req[w].who, req[w].verdict)
      BY <1>5, <3>2, AfterRefuse DEF DecideLockRow
    <3> QED BY <3>1, <3>2
  <2> QED BY <1>5, <2>1 DEF DecideLockRow
<1>6. CASE WithdrawLockRow(w) \/ ViewWrite(w) \/ RepairLockRow(w)
  BY <1>6, AfterGoto, AfterRefuse, AfterFinish
  DEF WithdrawLockRow, ViewWrite, RepairLockRow
<1>7. CASE RepairCommit(w)
  <2>1. req'[w].at = "repair_after"
    BY <1>7 DEF RepairCommit, TypeOK, Request
  <2> QED BY <1>7, <2>1 DEF RepairCommit
<1>8. CASE TransactionFails(w)
  BY <1>8, AfterRefuse DEF TransactionFails, WaitsListing, WaitsRow, HoldsRow
<1>9. CASE Crash(w)
  BY <1>9, AfterFinish DEF Crash
<1> QED BY <1>1, <1>2, <1>3, <1>4, <1>5, <1>6, <1>7, <1>8, <1>9 DEF Proceed

\* A request that has begun is nearer its end after every step that changes it,
\* its own or another's.
RequestsAdvance ==
  [][\A w \in Workers :
       req[w].at # "idle" /\ req'[w] # req[w] =>
         StepsLeft(req'[w].at) < StepsLeft(req[w].at)]_vars

LEMMA AdvanceStep ==
  ASSUME IInv, [Next]_vars, NEW v \in Workers, req[v].at # "idle", req'[v] # req[v]
  PROVE  StepsLeft(req'[v].at) < StepsLeft(req[v].at)
<1>1. ASSUME NEW w \in Workers, OwnStep(w)
      PROVE  StepsLeft(req'[v].at) < StepsLeft(req[v].at)
  <2>1. v = w
    BY <1>1, OwnRequestOnly DEF IInv, OwnStep
  <2>2. ~Arrive(w)
    BY <2>1, AfterArrive DEF IInv
  <2> QED BY <1>1, <2>1, <2>2, Advance DEF OwnStep
<1>2. CASE (\E f \in Files : LoseFile(f)) \/ DeadlinePasses \/ UNCHANGED vars
  BY <1>2 DEF LoseFile, DeadlinePasses, vars
<1> QED BY <1>1, <1>2 DEF Next, OwnStep

\* No request starts over or waits in a loop, and none sends another back: with
\* NoDeadlock, and locks granted in turn, this is why RequestsFinish holds.
THEOREM RequestsNeverStartOver == Spec => RequestsAdvance
<1>1. IInv /\ [Next]_vars =>
        [\A w \in Workers :
           req[w].at # "idle" /\ req'[w] # req[w] =>
             StepsLeft(req'[w].at) < StepsLeft(req[w].at)]_vars
  BY AdvanceStep
<1> QED BY <1>1, InductiveInvariant, PTL DEF Spec, RequestsAdvance

LEMMA OnlyClosesStep ==
  ASSUME IInv, Ops \cap {"edit", "extend"} = {}, FilledInv, [Next]_vars
  PROVE  \A v \in Workers : OnlyCloses(req'[v])
<1>1. ASSUME NEW w \in Workers, OwnStep(w), NEW v \in Workers
      PROVE  OnlyCloses(req'[v])
  <2>1. CASE v # w
    BY <1>1, <2>1, OwnRequestOnly DEF IInv, OwnStep, FilledInv
  <2>2. CASE v = w /\ Arrive(w)
    BY <2>2, ArriveOnlyCloses DEF IInv
  <2>3. CASE v = w /\ ~Arrive(w)
    BY <1>1, <2>3, Advance DEF OwnStep, OnlyCloses
  <2> QED BY <2>1, <2>2, <2>3
<1>2. CASE (\E f \in Files : LoseFile(f)) \/ DeadlinePasses \/ UNCHANGED vars
  BY <1>2 DEF LoseFile, DeadlinePasses, vars, FilledInv
<1> QED BY <1>1, <1>2 DEF Next, OwnStep

\* What a step that accepts nobody does to such a listing.
LEMMA ListingStep ==
  ASSUME IInv, FilledInv, [Next]_vars
  PROVE  /\ listing'.slots = listing.slots
         /\ listing'.status = "ACTIVE" => listing.status = "ACTIVE"
<1>1. ASSUME NEW w \in Workers, WriteListing(w)
      PROVE  /\ listing'.slots = listing.slots
             /\ listing'.status = "ACTIVE" => listing.status = "ACTIVE"
  BY <1>1 DEF WriteListing, FilledInv, OnlyCloses, Put
<1>2. ASSUME NEW w \in Workers, DecideCommit(w)
      PROVE  /\ listing'.slots = listing.slots
             /\ listing'.status = "ACTIVE" => listing.status = "ACTIVE"
  BY <1>2 DEF DecideCommit, IInv, TypeOK, Listing
<1>3. ASSUME NEW w \in Workers, OwnStep(w), ~WriteListing(w), ~DecideCommit(w)
      PROVE  UNCHANGED listing
  BY <1>3, AfterArrive
  DEF OwnStep, Proceed, TransactionFails, Crash, SubmitLockListing,
      SubmitLockRow, SubmitCommit, SubmitReleaseOld, DeleteUpload,
      DecideLockListing, DecideLockRow, DecideTell, WithdrawLockRow,
      WithdrawCommit, ViewWrite, ViewTell, RepairLockRow, RepairCommit,
      RepairReleaseOld, IInv
<1>4. CASE DeadlinePasses
  BY <1>4 DEF DeadlinePasses, IInv, TypeOK, Listing
<1>5. CASE (\E f \in Files : LoseFile(f)) \/ UNCHANGED vars
  BY <1>5 DEF LoseFile, vars
<1> QED BY <1>1, <1>2, <1>3, <1>4, <1>5 DEF Next, OwnStep

LEMMA FilledStep ==
  ASSUME IInv, Ops \cap {"edit", "extend"} = {}, FilledInv, [Next]_vars
  PROVE  FilledInv'
<1>1. \A v \in Workers : OnlyCloses(req'[v])
  BY OnlyClosesStep
<1>2. /\ listing'.slots = listing.slots
      /\ listing'.status = "ACTIVE" => listing.status = "ACTIVE"
  BY ListingStep
<1>3. CASE Accepted' = Accepted
  <2>1. Cardinality(Accepted') = Cardinality(Accepted)
    BY <1>3
  <2> QED BY <1>1, <1>2, <2>1 DEF FilledInv, FilledIsClosed
<1>4. CASE Accepts
  <2>1. PICK s \in Students :
          /\ s \notin Accepted /\ Accepted' = Accepted \cup {s}
          /\ ~AwardsFilled
          /\ FillsLastSeat => listing'.status # "ACTIVE"
    BY <1>4 DEF Accepts
  <2>2. Cardinality(Accepted') = Cardinality(Accepted) + 1
    BY <2>1, OneMoreAccepted
  <2>3. FilledIsClosed'
    BY <1>2, <2>1, <2>2, AcceptedFinite
    DEF FilledIsClosed, AwardsFilled, FillsLastSeat, IInv, TypeOK, Listing
  <2> QED BY <1>1, <2>3 DEF FilledInv
<1> QED BY <1>3, <1>4, AcceptedStep

LEMMA FilledInit == Init => FilledInv
<1> SUFFICES ASSUME Init PROVE FilledInv
  OBVIOUS
<1>1. Cardinality(Accepted) = 0
  <2>1. Accepted = {}
    BY DEF Init, Accepted, NoRow
  <2> QED BY <2>1, FS_EmptySet
<1>2. listing.slots \in Nat
  BY ConstantsAssumption DEF Init
<1>3. \A w \in Workers : OnlyCloses(req[w])
  BY DEF Init, Idle, OnlyCloses
<1> QED BY <1>1, <1>2, <1>3 DEF FilledInv, FilledIsClosed

\* A listing that its provider neither edits nor extends grants no more awards
\* than it has, and is closed by the last one for good: what reopens a filled
\* listing, in the run FilledStaysClosed, are those two requests and nothing
\* else, not the archive, a moderator or a racing decision.
THEOREM FilledStaysClosedUnlessReopened ==
  Ops \cap {"edit", "extend"} = {} /\ Spec => []FilledIsClosed
<1> SUFFICES ASSUME Ops \cap {"edit", "extend"} = {} PROVE Spec => []FilledIsClosed
  OBVIOUS
<1>1. IInv /\ FilledInv /\ [Next]_vars => FilledInv'
  BY FilledStep
<1>2. FilledInv => FilledIsClosed
  BY DEF FilledInv
<1> QED BY <1>1, <1>2, FilledInit, InductiveInvariant, PTL DEF Spec

-----------------------------------------------------------------------------
(***************************************************************************)
(* Withdrawn listings                                                      *)
(***************************************************************************)

\* A loaded copy that is about to write ACTIVE or CLOSED.
Rewrites(r) == r.at = "listing_write" /\ r.dirty.status \in {"ACTIVE", "CLOSED"}

\* A withdrawal is never under way together with an edit, an extension or an
\* archiving that is about to write the status: no code sees to it.
WithdrawalsApart ==
  \A v, w \in Workers :
    req[v].at = "listing_write" /\ req[v].dirty.status = "WITHDRAWN" => ~Rewrites(req[w])

\* OpportunityLifecycle::PUBLICATION_TRANSITIONS, step by step.
PublicationMovesAreLegal ==
  [][listing'.status # listing.status =>
       <<listing.status, listing'.status>> \in PUBLICATION_TRANSITIONS]_vars

WithdrawnInv ==
  listing.status = "WITHDRAWN" => \A w \in Workers : ~Rewrites(req[w])

\* Every writer of the status but the moderators asks whether it is WITHDRAWN.
LEMMA ArriveAtWithdrawn ==
  ASSUME TypeOK, NEW w \in Workers, Arrive(w), listing.status = "WITHDRAWN"
  PROVE  ~Rewrites(req'[w])
<1> SUFFICES ASSUME req'[w].at = "listing_write"
             PROVE  req'[w].dirty.status \notin {"ACTIVE", "CLOSED"}
  BY DEF Rewrites
<1>1. ASSUME NEW verdict \in {"APPROVED", "REJECTED"}, BeginModerate(w, verdict)
      PROVE  req'[w].dirty.status = "keep"
  <2> DEFINE dirty == [Clean EXCEPT !.moderation = verdict]
  <2>1. LoadListing(w, dirty) /\ dirty.status = "keep"
    BY <1>1 DEF BeginModerate, Clean
  <2> HIDE DEF dirty
  <2> QED BY <2>1, CopyLoaded
<1>2. CASE BeginUnlist(w) \/ BeginArchive(w)
  BY <1>2 DEF BeginUnlist, BeginArchive, PUBLICATION_TRANSITIONS
<1> QED BY <1>1, <1>2, ListingArrives DEF BeginExtendDeadline, BeginEdit

\* Who changes the status, and to what.
LEMMA StatusStep ==
  ASSUME IInv, [Next]_vars, listing'.status # listing.status
  PROVE  \/ \E w \in Workers : /\ WriteListing(w)
                               /\ listing'.status = req[w].dirty.status
         \/ listing.status = "ACTIVE" /\ listing'.status = "CLOSED"
<1>1. ASSUME NEW w \in Workers, WriteListing(w)
      PROVE  listing'.status = req[w].dirty.status
  BY <1>1 DEF WriteListing, Put
<1>2. ASSUME NEW w \in Workers, DecideCommit(w)
      PROVE  listing.status = "ACTIVE" /\ listing'.status = "CLOSED"
  BY <1>2 DEF DecideCommit, IInv, TypeOK, Listing
<1>3. ASSUME NEW w \in Workers, OwnStep(w), ~WriteListing(w), ~DecideCommit(w)
      PROVE  UNCHANGED listing
  BY <1>3, AfterArrive
  DEF OwnStep, Proceed, TransactionFails, Crash, SubmitLockListing,
      SubmitLockRow, SubmitCommit, SubmitReleaseOld, DeleteUpload,
      DecideLockListing, DecideLockRow, DecideTell, WithdrawLockRow,
      WithdrawCommit, ViewWrite, ViewTell, RepairLockRow, RepairCommit,
      RepairReleaseOld, IInv
<1>4. ~DeadlinePasses
  BY DEF DeadlinePasses, IInv, TypeOK, Listing
<1>5. ~(\E f \in Files : LoseFile(f)) /\ ~UNCHANGED vars
  BY DEF LoseFile, vars
<1> QED BY <1>1, <1>2, <1>3, <1>4, <1>5 DEF Next, OwnStep

LEMMA WithdrawnStep ==
  ASSUME IInv, WithdrawalsApart, WithdrawnInv, [Next]_vars
  PROVE  /\ WithdrawnInv'
         /\ listing'.status # listing.status =>
              <<listing.status, listing'.status>> \in PUBLICATION_TRANSITIONS
<1>1. ASSUME NEW w \in Workers, OwnStep(w), NEW v \in Workers, Rewrites(req'[v])
      PROVE  Rewrites(req[v]) \/ (v = w /\ Arrive(w))
  <2>1. CASE v # w
    <3>1. req'[v] = req[v]
      BY <1>1, <2>1, OwnRequestOnly DEF IInv, OwnStep
    <3> QED BY <1>1, <3>1
  <2>2. CASE v = w /\ ~Arrive(w)
    BY <1>1, <2>2, Advance DEF OwnStep, Rewrites
  <2> QED BY <2>1, <2>2
<1>2. CASE listing'.status = listing.status
  <2>1. ASSUME NEW w \in Workers, OwnStep(w)
        PROVE  WithdrawnInv'
    <3> SUFFICES ASSUME listing'.status = "WITHDRAWN", NEW v \in Workers, Rewrites(req'[v])
                 PROVE  FALSE
      BY DEF WithdrawnInv
    <3> QED BY <1>1, <1>2, <2>1, ArriveAtWithdrawn DEF WithdrawnInv, IInv
  <2>2. CASE (\E f \in Files : LoseFile(f)) \/ DeadlinePasses \/ UNCHANGED vars
    BY <1>2, <2>2 DEF LoseFile, DeadlinePasses, vars, WithdrawnInv
  <2> QED BY <1>2, <2>1, <2>2 DEF Next, OwnStep
<1>3. ASSUME NEW w \in Workers, WriteListing(w),
             listing'.status # listing.status, listing'.status = req[w].dirty.status
      PROVE  /\ WithdrawnInv'
             /\ <<listing.status, listing'.status>> \in PUBLICATION_TRANSITIONS
  <2>1. /\ req[w].at = "listing_write" /\ OwnStep(w) /\ ~Arrive(w)
        /\ req[w].dirty.status \in PublicationStatus \cup {"keep"}
        /\ listing.status \in PublicationStatus
    BY <1>3, AfterArrive
    DEF WriteListing, OwnStep, Proceed, IInv, TypeOK, Request, Dirty, Listing
  <2>2. req[w].dirty.status # "keep"
    BY <1>3 DEF WriteListing, Put
  <2>3. listing.status # "WITHDRAWN"
    BY <1>3, <2>1, <2>2 DEF WithdrawnInv, Rewrites, PublicationStatus
  <2>4. listing'.status = "WITHDRAWN" => \A v \in Workers : ~Rewrites(req[v])
    BY <1>3, <2>1 DEF WithdrawalsApart
  <2>5. WithdrawnInv'
    BY <1>1, <2>1, <2>4 DEF WithdrawnInv
  <2> QED BY <1>3, <2>1, <2>2, <2>3, <2>5 DEF PublicationStatus, PUBLICATION_TRANSITIONS
<1>4. CASE listing.status = "ACTIVE" /\ listing'.status = "CLOSED"
  BY <1>4 DEF WithdrawnInv, PUBLICATION_TRANSITIONS
<1> QED BY <1>2, <1>3, <1>4, StatusStep

\* "WITHDRAWN is terminal", and every other move of the status is one of the
\* table, as long as no withdrawal overlaps another writer of the status: that
\* is all it takes, with any number of decisions, verdicts, edits, extensions
\* and archivings of stale copies overlapping each other.
THEOREM PublicationIsLegal ==
  Spec /\ []WithdrawalsApart => PublicationMovesAreLegal
<1>1. Init => WithdrawnInv
  BY DEF Init, WithdrawnInv
<1>2. IInv /\ WithdrawalsApart /\ WithdrawnInv /\ [Next]_vars =>
        /\ WithdrawnInv'
        /\ [listing'.status # listing.status =>
              <<listing.status, listing'.status>> \in PUBLICATION_TRANSITIONS]_vars
  BY WithdrawnStep
<1> QED BY <1>1, <1>2, InductiveInvariant, PTL DEF Spec, PublicationMovesAreLegal

-----------------------------------------------------------------------------
(***************************************************************************)
(* What a fault can cost                                                   *)
(***************************************************************************)

\* While nothing has failed, a student whose application is decided was told, or
\* the request that decided it is about to tell (decide, after its commit).
NoDecisionIsForgotten ==
  faults = 0 =>
    \A s \in Students : apps[s].status \in DECISIONS =>
      \/ apps[s].status \in told[s]
      \/ \E w \in Workers : req[w].at = "decide_tell" /\ req[w].who = s

LEMMA FaultsStay ==
  ASSUME IInv, [Next]_vars
  PROVE  faults' = faults \/ faults' = faults + 1
BY AfterArrive, ArriveBegins
DEF IInv, Next, Proceed, TransactionFails, Crash, LoseFile, DeadlinePasses, vars,
    SubmitLockListing, SubmitLockRow, SubmitCommit, SubmitReleaseOld, DeleteUpload,
    DecideLockListing, DecideLockRow, DecideCommit, DecideTell, WithdrawLockRow,
    WithdrawCommit, ViewWrite, ViewTell, RepairLockRow, RepairCommit,
    RepairReleaseOld, WriteListing, Discard, Tell, Begins

\* Notices are never taken back.
LEMMA ToldStays ==
  ASSUME IInv, [Next]_vars, NEW s \in Students
  PROVE  told[s] \subseteq told'[s]
<1>1. CASE \E w \in Workers : DecideTell(w) \/ ViewTell(w)
  BY <1>1 DEF DecideTell, ViewTell, Tell, IInv, TypeOK
<1>2. ASSUME NEW w \in Workers, OwnStep(w), ~DecideTell(w), ~ViewTell(w)
      PROVE  UNCHANGED told
  BY <1>2, AfterArrive
  DEF OwnStep, Proceed, TransactionFails, Crash, SubmitLockListing,
      SubmitLockRow, SubmitCommit, SubmitReleaseOld, DeleteUpload,
      DecideLockListing, DecideLockRow, DecideCommit, WithdrawLockRow,
      WithdrawCommit, ViewWrite, RepairLockRow, RepairCommit,
      RepairReleaseOld, WriteListing, IInv
<1>3. CASE (\E f \in Files : LoseFile(f)) \/ DeadlinePasses \/ UNCHANGED vars
  BY <1>3 DEF LoseFile, DeadlinePasses, vars
<1> QED BY <1>1, <1>2, <1>3 DEF Next, OwnStep

\* The request that decides is the one that goes on to tell.
LEMMA DecidedNow ==
  ASSUME IInv, NEW w \in Workers, OwnStep(w), NEW s \in Students,
         apps'[s].status # apps[s].status, apps'[s].status \in DECISIONS
  PROVE  req'[w].at = "decide_tell" /\ req'[w].who = s
<1>1. s = req[w].who /\ req[w].at \in HoldsRow
  BY StepEffect
<1>2. CASE DecideCommit(w)
  BY <1>1, <1>2, AfterGoto DEF DecideCommit, IInv
<1>3. ~SubmitCommit(w) /\ ~WithdrawCommit(w)
  BY <1>1 DEF SubmitCommit, WithdrawCommit, DECISIONS, IInv, TypeOK, Application
<1>4. ~RepairCommit(w)
  BY <1>1 DEF RepairCommit, IInv, TypeOK, Application
<1>5. UNCHANGED apps \/ DecideCommit(w)
  BY <1>1, <1>3, <1>4, AfterArrive
  DEF OwnStep, Proceed, TransactionFails, Crash, SubmitLockListing,
      SubmitLockRow, SubmitReleaseOld, DeleteUpload, DecideLockListing,
      DecideLockRow, DecideTell, WithdrawLockRow, ViewWrite, ViewTell,
      RepairLockRow, RepairReleaseOld, WriteListing, IInv, HoldsRow
<1> QED BY <1>2, <1>5

LEMMA ForgottenStep ==
  ASSUME IInv, NoDecisionIsForgotten, [Next]_vars
  PROVE  NoDecisionIsForgotten'
<1> SUFFICES ASSUME faults' = 0, NEW s \in Students, apps'[s].status \in DECISIONS
             PROVE  \/ apps'[s].status \in told'[s]
                    \/ \E v \in Workers : req'[v].at = "decide_tell" /\ req'[v].who = s
  BY DEF NoDecisionIsForgotten
<1>1. faults = 0
  BY FaultsStay DEF IInv, TypeOK
<1>2. ASSUME NEW w \in Workers, OwnStep(w), apps'[s].status = apps[s].status
      PROVE  \/ apps'[s].status \in told'[s]
             \/ \E v \in Workers : req'[v].at = "decide_tell" /\ req'[v].who = s
  <2>1. CASE apps[s].status \in told[s]
    BY <1>2, <2>1, ToldStays
  <2>2. CASE \E v \in Workers : req[v].at = "decide_tell" /\ req[v].who = s
    <3>1. PICK v \in Workers : req[v].at = "decide_tell" /\ req[v].who = s
      BY <2>2
    <3>2. CASE v # w
      <4>1. req'[v] = req[v]
        BY <1>2, <3>2, OwnRequestOnly DEF IInv, OwnStep
      <4> QED BY <3>1, <4>1
    <3>3. CASE v = w
      <4>1. apps[s].status = req[w].verdict
        BY <3>1, <3>3 DEF IInv, RequestInv, RequestOK
      <4>2. DecideTell(w)
        BY <1>1, <1>2, <3>1, <3>3, AfterArrive
        DEF OwnStep, Proceed, TransactionFails, Crash, SubmitLockListing,
            SubmitLockRow, SubmitCommit, SubmitReleaseOld, DeleteUpload,
            DecideLockListing, DecideLockRow, DecideCommit, WithdrawLockRow,
            WithdrawCommit, ViewWrite, ViewTell, RepairLockRow, RepairCommit,
            RepairReleaseOld, WriteListing, IInv, WaitsListing, WaitsRow, HoldsRow
      <4>3. req[w].verdict \in told'[s]
        BY <1>1, <3>1, <3>3, <4>2 DEF DecideTell, Tell, IInv, TypeOK
      <4> QED BY <1>2, <4>1, <4>3
    <3> QED BY <3>2, <3>3
  <2> QED BY <1>1, <1>2, <2>1, <2>2 DEF NoDecisionIsForgotten
<1>3. ASSUME NEW w \in Workers, OwnStep(w), apps'[s].status # apps[s].status
      PROVE  \E v \in Workers : req'[v].at = "decide_tell" /\ req'[v].who = s
  BY <1>3, DecidedNow
<1>4. CASE (\E f \in Files : LoseFile(f)) \/ DeadlinePasses \/ UNCHANGED vars
  <2>1. UNCHANGED <<apps, told, req>>
    BY <1>4 DEF LoseFile, DeadlinePasses, vars
  <2> QED BY <1>1, <2>1 DEF NoDecisionIsForgotten
<1> QED BY <1>2, <1>3, <1>4 DEF Next, OwnStep

\* A committed decision is never left without somebody to announce it, unless a
\* worker or a notice failed: with requests that finish, this is why
\* DecisionsAnnounced holds.
THEOREM DecisionsAreOnTheirWay == Spec => []NoDecisionIsForgotten
<1>1. Init => NoDecisionIsForgotten
  BY DEF Init, NoDecisionIsForgotten, NoRow, DECISIONS
<1>2. IInv /\ NoDecisionIsForgotten /\ [Next]_vars => NoDecisionIsForgotten'
  BY ForgottenStep
<1> QED BY <1>1, <1>2, InductiveInvariant, PTL DEF Spec

\* Stored files that nothing refers to any more.
Orphans == files \ Remembered

EachFaultOrphansOne == IsFiniteSet(Orphans) /\ Cardinality(Orphans) <= faults

\* Without repairs, only a resubmission that has committed remembers a file it
\* no longer has in its row.
NoRepairInv == \A w \in Workers :
  /\ req[w].at \notin RepairSteps
  /\ req[w].old # NoFile => req[w].at = "submit_after"

LEMMA OrphanIs ==
  ASSUME NEW f
  PROVE  /\ f \in Orphans <=>
              /\ f \in files
              /\ \A s \in Students : apps[s].file # f
              /\ \A v \in Workers : req[v].upload # f /\ req[v].old # f
         /\ f \in Orphans' <=>
              /\ f \in files'
              /\ \A s \in Students : apps'[s].file # f
              /\ \A v \in Workers : req'[v].upload # f /\ req'[v].old # f
BY DEF Orphans, Remembered

LEMMA NoRepairStep ==
  ASSUME "repair" \notin Ops, IInv, PathsInv, NoRepairInv, [Next]_vars
  PROVE  NoRepairInv'
<1>1. ASSUME NEW w \in Workers, OwnStep(w)
      PROVE  /\ req'[w].at \notin RepairSteps
             /\ req'[w].old # NoFile => req'[w].at = "submit_after"
  <2> USE DEF RepairSteps
  <2>1. req[w].at \notin RepairSteps /\ (req[w].old # NoFile => req[w].at = "submit_after")
    BY DEF NoRepairInv
  <2>2. Idle.at = "idle" /\ Idle.old = NoFile
    BY DEF Idle
  <2>3. CASE Arrive(w)
    <3>1. req'[w].at \notin RepairSteps
      BY <2>3, AfterArrive DEF IInv
    <3>2. req'[w].old = NoFile
      BY <2>3, <3>1, ArriveBegins DEF Begins
    <3> QED BY <3>1, <3>2
  <2>4. CASE Carries(w) \/ Ends(w) \/ Commits(w) \/ Deletes(w)
    BY <2>1, <2>2, <2>4 DEF Carries, Ends, Commits, Deletes
  <2>5. CASE TransactionFails(w) \/ Crash(w) \/ Proceed(w)
    BY <2>4, <2>5, StepFiles
  <2> QED BY <1>1, <2>3, <2>5 DEF OwnStep
<1>2. ASSUME NEW w \in Workers, OwnStep(w)
      PROVE  NoRepairInv'
  BY <1>1, <1>2, OwnRequestOnly DEF NoRepairInv, IInv, OwnStep
<1>3. CASE (\E f \in Files : LoseFile(f)) \/ DeadlinePasses \/ UNCHANGED vars
  BY <1>3 DEF LoseFile, DeadlinePasses, vars, NoRepairInv
<1> QED BY <1>2, <1>3 DEF Next, OwnStep


\* A step adds no orphan, or it is a fault and adds one.
LEMMA OrphanStep ==
  ASSUME "repair" \notin Ops, IInv, PathsInv, NoRepairInv, [Next]_vars
  PROVE  \/ Orphans' \subseteq Orphans /\ faults' \in {faults, faults + 1}
         \/ /\ faults' = faults + 1
            /\ \E x : Orphans' \subseteq Orphans \cup {x}
<1> USE OrphanIs
<1>1. ASSUME NEW w \in Workers, OwnStep(w)
      PROVE  \/ Orphans' \subseteq Orphans /\ faults' \in {faults, faults + 1}
             \/ /\ faults' = faults + 1
                /\ \E x : Orphans' \subseteq Orphans \cup {x}
  <2>1. \A v \in Workers \ {w} : req'[v] = req[v]
    BY <1>1, OwnRequestOnly DEF IInv, OwnStep
  <2>2. /\ req[w].at \notin RepairSteps
        /\ req[w].old # NoFile => req[w].at = "submit_after"
        /\ req[w].upload # NoFile => req[w].at \in UploadSteps
        /\ req[w].upload = NoFile \/ req[w].old = NoFile
    BY DEF NoRepairInv, PathsInv, UploadSteps
  <2>3. /\ NoFile \notin files
        /\ Idle.upload = NoFile /\ Idle.old = NoFile
    BY ConstantsAssumption DEF IInv, TypeOK, Idle
  <2>4. CASE Begins(w)
    <3>1. req[w].upload = NoFile /\ req[w].old = NoFile /\ UNCHANGED <<apps, faults>>
      BY <2>3, <2>4 DEF Begins
    <3>2. ASSUME NEW f \in Orphans'
          PROVE  f \in Orphans
      <4>1. f \in files
        BY <2>4, <3>2 DEF Begins
      <4>2. \A v \in Workers : req[v].upload # f /\ req[v].old # f
        BY <2>1, <2>3, <3>1, <3>2, <4>1
      <4> QED BY <3>1, <3>2, <4>1, <4>2
    <3> QED BY <3>1, <3>2
  <2>5. CASE Carries(w)
    <3>1. ASSUME NEW f \in Orphans'
          PROVE  f \in Orphans
      <4>1. \A v \in Workers : req[v].upload # f /\ req[v].old # f
        BY <2>1, <2>5, <3>1 DEF Carries
      <4> QED BY <2>5, <3>1, <4>1 DEF Carries
    <3> QED BY <2>5, <3>1 DEF Carries
  <2>6. CASE Ends(w)
    <3> DEFINE x == IF req[w].upload = NoFile THEN req[w].old ELSE req[w].upload
    <3>1. req[w].upload \in {NoFile, x} /\ req[w].old \in {NoFile, x}
      BY <2>2
    <3> HIDE DEF x
    <3>2. ASSUME NEW f \in Orphans', f # x
          PROVE  f \in Orphans
      <4>1. \A v \in Workers : req[v].upload # f /\ req[v].old # f
        BY <2>1, <2>3, <2>6, <3>1, <3>2 DEF Ends
      <4> QED BY <2>6, <3>2, <4>1 DEF Ends
    <3>3. CASE faults' = faults + 1
      BY <3>2, <3>3
    <3>4. CASE faults' = faults /\ req[w].upload = NoFile /\ req[w].old = NoFile
      <4>1. ASSUME NEW f \in Orphans'
            PROVE  f \in Orphans
        <5>1. \A v \in Workers : req[v].upload # f /\ req[v].old # f
          BY <2>1, <2>3, <2>6, <3>4, <4>1 DEF Ends
        <5> QED BY <2>6, <4>1, <5>1 DEF Ends
      <4> QED BY <3>4, <4>1
    <3> QED BY <2>2, <2>6, <3>3, <3>4 DEF Ends
  <2>7. CASE Deletes(w)
    <3>1. PICK x \in {req[w].upload, req[w].old} :
             /\ UNCHANGED apps /\ req'[w] = Idle
             /\ \/ req[w].at = "abandon" /\ x = req[w].upload
                \/ req[w].at = "submit_after" /\ x = req[w].old
             /\ \/ files' = files \ {x} /\ UNCHANGED faults
                \/ faults' = faults + 1 /\ UNCHANGED files
      BY <2>2, <2>7 DEF Deletes, RepairSteps
    <3>2. req[w].upload \in {NoFile, x} /\ req[w].old \in {NoFile, x}
      BY <2>2, <3>1 DEF UploadSteps
    <3>3. ASSUME NEW f \in Orphans', f # x
          PROVE  f \in Orphans
      <4>1. f \in files
        BY <3>1, <3>3
      <4>2. \A v \in Workers : req[v].upload # f /\ req[v].old # f
        BY <2>1, <2>3, <3>2, <3>3, <4>1
      <4> QED BY <3>1, <3>3, <4>1, <4>2
    <3>4. files' = files \ {x} => x \notin Orphans'
      OBVIOUS
    <3> QED BY <3>1, <3>3, <3>4
  <2>8. CASE Commits(w)
    <3>1. PICK s \in Students :
             /\ UNCHANGED <<files, faults>>
             /\ \A t \in Students \ {s} : apps'[t].file = apps[t].file
             /\ req[w].at = "submit_row"
             /\ req[w].upload \in {NoFile, apps'[s].file}
             /\ apps[s].file \in {NoFile, apps'[s].file, req'[w].old}
      BY <2>2, <2>8 DEF Commits, RepairSteps
    <3>2. ASSUME NEW f \in Orphans'
          PROVE  f \in Orphans
      <4>1. f \in files /\ f # NoFile
        BY <2>3, <3>1, <3>2
      <4>2. req[w].upload # f /\ req[w].old # f
        BY <2>2, <3>1, <3>2, <4>1
      <4>3. \A v \in Workers : req[v].upload # f /\ req[v].old # f
        BY <2>1, <3>2, <4>2
      <4>4. apps[s].file # f
        BY <3>1, <3>2, <4>1
      <4>5. \A t \in Students : apps[t].file # f
        BY <3>1, <3>2, <4>4
      <4> QED BY <4>1, <4>3, <4>5
    <3> QED BY <3>1, <3>2
  <2> QED BY <1>1, <2>4, <2>5, <2>6, <2>7, <2>8, FilesOfStep
<1>2. CASE \E f \in Files : LoseFile(f)
  BY <1>2 DEF LoseFile
<1>3. CASE DeadlinePasses \/ UNCHANGED vars
  BY <1>3 DEF DeadlinePasses, vars
<1> QED BY <1>1, <1>2, <1>3 DEF Next, OwnStep

LEMMA OrphansBounded ==
  ASSUME "repair" \notin Ops, IInv, PathsInv, NoRepairInv, EachFaultOrphansOne, [Next]_vars
  PROVE  EachFaultOrphansOne'
<1> faults \in Nat
  BY DEF IInv, TypeOK
<1> USE DEF EachFaultOrphansOne
<1>0. Cardinality(Orphans) \in Nat
  BY FS_CardinalityType
<1>1. CASE Orphans' \subseteq Orphans /\ faults' \in {faults, faults + 1}
  <2>1. IsFiniteSet(Orphans') /\ Cardinality(Orphans') <= Cardinality(Orphans)
        /\ Cardinality(Orphans') \in Nat
    BY <1>1, FS_Subset, FS_CardinalityType
  <2> QED BY <1>0, <1>1, <2>1
<1>2. CASE faults' = faults + 1 /\ \E x : Orphans' \subseteq Orphans \cup {x}
  <2>1. PICK x : Orphans' \subseteq Orphans \cup {x}
    BY <1>2
  <2>2. /\ IsFiniteSet(Orphans \cup {x})
        /\ Cardinality(Orphans \cup {x}) \in {Cardinality(Orphans), Cardinality(Orphans) + 1}
        /\ Cardinality(Orphans \cup {x}) \in Nat
    <3>1. IsFiniteSet(Orphans)
      OBVIOUS
    <3>2. /\ IsFiniteSet(Orphans \cup {x})
          /\ Cardinality(Orphans \cup {x})
               = IF x \in Orphans THEN Cardinality(Orphans) ELSE Cardinality(Orphans) + 1
      BY <3>1, FS_AddElement
    <3> QED BY <1>0, <3>2
  <2>3. /\ IsFiniteSet(Orphans') /\ Cardinality(Orphans') \in Nat
        /\ Cardinality(Orphans') <= Cardinality(Orphans \cup {x})
    BY <2>1, <2>2, FS_Subset, FS_CardinalityType
  <2> QED BY <1>0, <1>2, <2>2, <2>3
<1> QED BY <1>1, <1>2, OrphanStep

\* ApplicationService deletes what a resubmission replaced and what a refused
\* request uploaded, and where that does not happen something failed: leaving
\* repairs aside, however requests interleave, the store never holds more files
\* that nothing refers to than there were crashes, lost files and failed
\* deletions.
THEOREM EachFaultLeavesOneFile ==
  "repair" \notin Ops /\ Spec => []EachFaultOrphansOne
<1> SUFFICES ASSUME "repair" \notin Ops
             PROVE  Spec => []EachFaultOrphansOne
  OBVIOUS
<1>1. Init => NoRepairInv /\ EachFaultOrphansOne
  <2> SUFFICES ASSUME Init PROVE NoRepairInv /\ EachFaultOrphansOne
    OBVIOUS
  <2>1. NoRepairInv
    BY DEF Init, NoRepairInv, RepairSteps, Idle
  <2>2. Orphans = {} /\ faults = 0
    BY DEF Init, Orphans
  <2> QED BY <2>1, <2>2, FS_EmptySet DEF EachFaultOrphansOne
<1>2. IInv /\ PathsInv /\ NoRepairInv /\ EachFaultOrphansOne /\ [Next]_vars
        => NoRepairInv' /\ EachFaultOrphansOne'
  BY NoRepairStep, OrphansBounded
<1> QED BY <1>1, <1>2, InitIInv, NextIInv, InitFiles, PathsStep, PTL DEF Spec

=============================================================================
