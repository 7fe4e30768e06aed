-------------------------- MODULE ProfilePage_proofs --------------------------
(***************************************************************************)
(* Proofs about ProfilePage, for any documents, radios, and numbers of     *)
(* uploads and edits.                                                      *)
(***************************************************************************)
EXTENDS ProfilePage, TLAPS

-----------------------------------------------------------------------------
(***************************************************************************)
(* The inductive invariant                                                 *)
(***************************************************************************)

Fits(f) == f.programme # "" => ProgrammeLevel(f.programme) = f.level

\* The form, what was saved of it and the entries kept of it hold together, and
\* the entries kept are those of the form, but for what was typed since.
FormInv ==
  /\ asks = IsMinor(form) /\ Fits(form) /\ Fits(saved)
  /\ draft.kept => Fits(draft.fields) /\ Differ(form, draft.fields) \subseteq typed

\* An upload that nothing overlapped is the only one under way, and its form is
\* in the page, so that it can be sent again.
CalmInv ==
  \A u \in calm :
    /\ upload[u] # "none" /\ upload[u] # "lost"
    /\ u \in InFlight => InFlight = {u} /\ Attached(u)

\* A page that is leaving has nothing under way but what it sends, and keeps no
\* entries unless it was left with an upload under way.
LeavingInv ==
  page = "leaving" => InFlight \subseteq {again} /\ (draft.kept => left # {})

\* Entries are kept for a form in the page whose upload is under way, and what
\* is under way and overlapped by nothing has its entries kept.
NetInv ==
  /\ page = "open" /\ draft.kept => \E u \in InFlight : Attached(u)
  /\ page = "open" => \A u \in calm \cap InFlight : draft.kept
  /\ page = "leaving" /\ again \in calm => draft.kept

IInv == TypeOK /\ FormInv /\ CalmInv /\ LeavingInv /\ NetInv

-----------------------------------------------------------------------------
(***************************************************************************)
(* The operators                                                           *)
(***************************************************************************)

LEMMA SyncProgrammesSpec ==
  ASSUME NEW f \in Fields
  PROVE  /\ SyncProgrammes(f) \in Fields
         /\ Fits(SyncProgrammes(f))
         /\ IsMinor(SyncProgrammes(f)) = IsMinor(f)
         /\ Fits(f) => SyncProgrammes(f) = f
<1>1. CASE f.programme # "" /\ ProgrammeLevel(f.programme) # f.level
  <2>1. SyncProgrammes(f) = [f EXCEPT !.programme = ""]
    BY <1>1 DEF SyncProgrammes
  <2> QED BY <1>1, <2>1 DEF Fields, Fits, IsMinor
<1>2. CASE ~(f.programme # "" /\ ProgrammeLevel(f.programme) # f.level)
  BY <1>2 DEF SyncProgrammes, Fits
<1> QED BY <1>1, <1>2

LEMMA MinorType ==
  ASSUME NEW f
  PROVE  IsMinor(f) \in BOOLEAN
<1>1. CASE f.born # ""
  BY <1>1 DEF IsMinor
<1>2. CASE ~(f.born # "")
  <2>1. IsMinor(f) = (f.level \in SchoolLevels)
    BY <1>2 DEF IsMinor
  <2>2. (f.level \in SchoolLevels) \in BOOLEAN
    OBVIOUS
  <2> QED BY <2>1, <2>2
<1> QED BY <1>1, <1>2

\* What is kept is kept whole.
LEMMA DraftType ==
  ASSUME TypeOK, draft.kept
  PROVE  draft \in [kept : {TRUE}, old : BOOLEAN, fields : Fields]
<1>1. draft # NoDraft
  BY DEF NoDraft
<1> QED BY <1>1 DEF TypeOK, Drafts

LEMMA SyncSpec ==
  ASSUME NEW f \in Fields, Sync(f)
  PROVE  /\ form' \in Fields /\ asks' \in BOOLEAN
         /\ asks' = IsMinor(form') /\ Fits(form')
         /\ Fits(f) => form' = f
<1>1. form' = SyncProgrammes(f) /\ asks' = IsMinor(f)
  BY DEF Sync
<1>2. IsMinor(f) \in BOOLEAN
  BY MinorType
<1>3. IsMinor(form)' = IsMinor(SyncProgrammes(f))
  BY <1>1
<1> QED BY <1>1, <1>2, <1>3, SyncProgrammesSpec DEF Fits

LEMMA PutBackType ==
  ASSUME NEW f \in Fields, NEW kept \in Fields
  PROVE  PutBack(f, kept) \in Fields
BY DEF PutBack, Fields

LEMMA DifferSpec ==
  ASSUME NEW f, NEW g
  PROVE  /\ Differ(f, f) = {} /\ Differ(f, g) \subseteq Plain
         /\ \A h : Differ(f, h) \subseteq Differ(f, g) \cup Differ(g, h)
         /\ Differ(f, g) = Differ(g, f)
BY DEF Differ

LEMMA RestoreType ==
  ASSUME TypeOK, NEW f \in Fields
  PROVE  RestoreDraft(f) \in Fields
<1>1. draft.kept => draft.fields \in Fields
  BY DraftType
<1> QED BY <1>1, PutBackType DEF RestoreDraft

\* Leaving drops what is under way but for the one upload that is sent again.
LEMMA LeaveSpec ==
  ASSUME TypeOK, NEW u \in Uploads \cup {0}, Leave(u)
  PROVE  /\ page' = "leaving" /\ again' = u /\ left' = InFlight /\ left' \subseteq Uploads
         /\ upload' \in [Uploads -> {"none", "sent", "stored", "done", "lost"}]
         /\ InFlight' \subseteq {u}
         /\ InFlight' \subseteq InFlight
         /\ \A v \in Uploads : v \notin InFlight \/ v = u => upload'[v] = upload[v]
BY DEF Leave, InFlight, TypeOK, Uploads

-----------------------------------------------------------------------------
(***************************************************************************)
(* The initial state                                                       *)
(***************************************************************************)

LEMMA InitInv ==
  ASSUME Init
  PROVE  IInv
<1>1. 0 \in 0..MaxUploads /\ 0 \in 0..MaxEdits
  BY BoundsAssumption
<1>2. saved \in Fields /\ form = saved /\ asks = IsMinor(saved) /\ form.programme = ""
  BY DEF Init
<1>3. asks \in BOOLEAN
  BY <1>2, MinorType
<1>4. draft = NoDraft /\ ~draft.kept /\ draft \in Drafts
  BY DEF Init, NoDraft, Drafts
<1>5. InFlight = {} /\ calm = {} /\ page = "open" /\ again = 0
  BY DEF Init, InFlight
<1>6. TypeOK
  BY <1>1, <1>2, <1>3, <1>4 DEF Init, TypeOK
<1>7. FormInv
  BY <1>2, <1>4 DEF FormInv, Fits
<1> QED BY <1>4, <1>5, <1>6, <1>7 DEF IInv, CalmInv, LeavingInv, NetInv

-----------------------------------------------------------------------------
(***************************************************************************)
(* The steps                                                               *)
(***************************************************************************)

LEMMA PressStep ==
  ASSUME IInv, NEW d \in Documents, Press(d)
  PROVE  IInv'
<1>1. PICK u \in Uploads :
        /\ page = "open" /\ upload[u] = "none"
        /\ SaveDraft
        /\ upload' = [upload EXCEPT ![u] = "sent"]
        /\ from' = [from EXCEPT ![u] = [document |-> d, card |-> cards]]
        /\ calm' = IF InFlight = {} THEN calm \cup {u} ELSE calm \ InFlight
        /\ UNCHANGED <<page, form, asks, saved, cards, again, left, edits>>
  BY DEF Press
<1>2. TypeOK /\ FormInv /\ CalmInv
  BY DEF IInv
<1>3. draft' \in Drafts /\ draft'.kept /\ draft'.fields = form /\ typed' = {}
  BY <1>1, <1>2 DEF SaveDraft, Drafts, TypeOK
<1>4. InFlight' = InFlight \cup {u} /\ u \notin InFlight /\ u \notin calm
  BY <1>1, <1>2 DEF InFlight, TypeOK, CalmInv
<1>5. \A v \in Uploads : v # u => from'[v] = from[v] /\ upload'[v] = upload[v]
  BY <1>1, <1>2 DEF TypeOK
<1>6. from'[u].card = cards /\ upload'[u] = "sent" /\ cards' = cards
  BY <1>1, <1>2 DEF TypeOK
<1>7. TypeOK'
  BY <1>1, <1>2, <1>3 DEF TypeOK
<1>8. FormInv'
  <2>1. Differ(form, draft.fields)' = Differ(form, form)
    BY <1>1, <1>3 DEF Differ
  <2> QED BY <1>1, <1>2, <1>3, <2>1, DifferSpec DEF FormInv, Fits, IsMinor
<1>9. Attached(u)'
  BY <1>6 DEF Attached
<1>10. CalmInv'
  <2>1. CASE InFlight = {}
    <3>1. calm' = calm \cup {u} /\ InFlight' = {u}
      BY <1>1, <1>4, <2>1
    <3>2. \A v \in calm : v \in Uploads /\ v # u
      BY <1>2, <1>4 DEF TypeOK
    <3> QED BY <1>2, <1>5, <1>6, <1>9, <3>1, <3>2 DEF CalmInv
  <2>2. CASE InFlight # {}
    <3>1. calm' = calm \ InFlight
      BY <1>1, <2>2
    <3>2. \A v \in calm' : v \in Uploads /\ v # u /\ v \in calm /\ v \notin InFlight'
      BY <1>2, <1>4, <3>1 DEF TypeOK
    <3> QED BY <1>2, <1>5, <3>2 DEF CalmInv
  <2> QED BY <2>1, <2>2
<1> QED BY <1>1, <1>3, <1>4, <1>7, <1>8, <1>9, <1>10 DEF IInv, LeavingInv, NetInv

LEMMA ReachStep ==
  ASSUME IInv, NEW u \in Uploads, Reach(u)
  PROVE  IInv'
<1>1. InFlight' = InFlight /\ upload[u] = "sent" /\ upload'[u] = "stored"
  BY DEF IInv, TypeOK, Reach, InFlight
<1>2. \A v \in Uploads : v # u => upload'[v] = upload[v]
  BY DEF IInv, TypeOK, Reach
<1>3. TypeOK'
  BY DEF IInv, TypeOK, Reach
<1>4. FormInv'
  BY DEF IInv, FormInv, Fits, Differ, IsMinor, Reach
<1>5. CalmInv'
  BY <1>1, <1>2 DEF IInv, TypeOK, CalmInv, Attached, Reach
<1> QED BY <1>1, <1>3, <1>4, <1>5 DEF IInv, Reach, LeavingInv, NetInv, Attached

LEMMA SucceedStep ==
  ASSUME IInv, NEW u \in Uploads, Succeed(u)
  PROVE  IInv'
<1>1. form \in Fields /\ Sync(form) /\ draft' = NoDraft /\ page = "open"
  BY DEF IInv, TypeOK, Succeed
<1>2. ~draft'.kept /\ draft' \in Drafts
  BY <1>1 DEF NoDraft, Drafts
<1>3. InFlight' = InFlight \ {u} /\ u \in InFlight /\ upload'[u] = "done"
  BY DEF IInv, TypeOK, Succeed, InFlight
<1>4. \A v \in Uploads : v # u => upload'[v] = upload[v]
  BY DEF IInv, TypeOK, Succeed
<1>5. CalmInv'
  <2>1. \A v \in calm : v # u => v \notin InFlight
    BY <1>3 DEF IInv, CalmInv
  <2> QED BY <1>3, <1>4, <2>1 DEF IInv, TypeOK, CalmInv, Succeed
<1>6. \A v \in calm : v \notin InFlight'
  BY <1>3 DEF IInv, CalmInv
<1>7. cards' \in Nat
  BY DEF IInv, TypeOK, Succeed
<1>8. TypeOK'
  BY <1>1, <1>2, <1>7, SyncSpec DEF IInv, TypeOK, Succeed
<1>9. FormInv'
  <2>1. Fits(saved)'
    BY DEF IInv, FormInv, Fits, Succeed
  <2> QED BY <1>1, <1>2, <2>1, SyncSpec DEF FormInv
<1> QED BY <1>1, <1>2, <1>5, <1>6, <1>8, <1>9 DEF IInv, Succeed, LeavingInv, NetInv

LEMMA FailStep ==
  ASSUME IInv, NEW u \in Uploads, Fail(u)
  PROVE  IInv'
<1>1. page = "open" /\ u \in InFlight
      /\ UNCHANGED <<form, asks, saved, draft, cards, from, calm, typed, edits>>
  BY DEF Fail
<1>2. FormInv'
  BY <1>1 DEF IInv, FormInv, Fits, Differ, IsMinor
<1>3. CASE Attached(u)
  <2>1. Leave(u)
    BY <1>3 DEF Fail
  <2>2. TypeOK'
    BY <1>1, <2>1, LeaveSpec DEF IInv, TypeOK
  <2>3. \A v \in calm : v \notin InFlight \/ v = u
    BY <1>1 DEF IInv, CalmInv
  <2>4. CalmInv'
    <3>1. \A v \in calm : v \in Uploads /\ upload'[v] = upload[v]
      BY <2>1, <2>3, LeaveSpec DEF IInv, TypeOK
    <3>2. \A v \in calm : v \in InFlight' => InFlight' = {v} /\ v \in InFlight
      BY <2>1, <2>3, LeaveSpec DEF IInv
    <3> QED BY <1>1, <3>1, <3>2 DEF IInv, CalmInv, Attached
  <2> QED BY <1>1, <1>2, <2>1, <2>2, <2>3, <2>4, LeaveSpec DEF IInv, LeavingInv, NetInv
<1>4. CASE ~Attached(u)
  <2>1. /\ upload' = [upload EXCEPT ![u] = IF @ = "stored" THEN "done" ELSE "lost"]
        /\ UNCHANGED <<page, again, left>>
    BY <1>4 DEF Fail
  <2>2. TypeOK'
    BY <1>1, <2>1 DEF IInv, TypeOK
  <2>3. u \notin calm
    BY <1>1, <1>4 DEF IInv, CalmInv
  <2>4. InFlight' = InFlight \ {u}
    BY <2>1 DEF IInv, TypeOK, InFlight
  <2>5. \A v \in calm : v \in Uploads /\ v # u /\ upload'[v] = upload[v]
                         /\ v \notin InFlight
    BY <1>1, <2>1, <2>3 DEF IInv, TypeOK, CalmInv
  <2>6. CalmInv'
    BY <1>1, <2>4, <2>5 DEF IInv, CalmInv
  <2>7. NetInv'
    BY <1>1, <1>4, <2>1, <2>4, <2>5 DEF IInv, NetInv, Attached
  <2> QED BY <1>1, <1>2, <2>1, <2>2, <2>6, <2>7 DEF IInv, LeavingInv
<1> QED BY <1>3, <1>4

LEMMA EditStep ==
  ASSUME IInv, Edit
  PROVE  IInv'
<1>0. /\ UNCHANGED <<page, saved, draft, cards, upload, from, again, calm, left>>
      /\ typed' = typed \cup Differ(form, form')
  BY DEF Edit
<1>1. edits' \in 0..MaxEdits
  <2>1. edits \in 0..MaxEdits /\ edits < MaxEdits /\ edits' = edits + 1
    BY DEF Edit, IInv, TypeOK
  <2> QED BY <2>1, BoundsAssumption
<1>2. form \in Fields /\ asks = IsMinor(form) /\ Fits(form)
  BY DEF IInv, TypeOK, FormInv
<1>3. form' \in Fields /\ asks' \in BOOLEAN /\ asks' = IsMinor(form)' /\ Fits(form')
  <2>1. CASE \E b \in {"", "minor", "adult"} : Sync([form EXCEPT !.born = b])
    <3>1. PICK b \in {"", "minor", "adult"} : Sync([form EXCEPT !.born = b])
      BY <2>1
    <3>2. [form EXCEPT !.born = b] \in Fields
      BY <1>2 DEF Fields
    <3> QED BY <3>1, <3>2, SyncSpec
  <2>2. CASE \E l \in Levels : Sync([form EXCEPT !.level = l])
    <3>1. PICK l \in Levels : Sync([form EXCEPT !.level = l])
      BY <2>2
    <3>2. [form EXCEPT !.level = l] \in Fields
      BY <1>2 DEF Fields
    <3> QED BY <3>1, <3>2, SyncSpec
  <2>3. CASE form.level = ProgrammeLevel("degree")
             /\ form' = [form EXCEPT !.programme = "degree"] /\ asks' = asks
    BY <1>2, <2>3 DEF IInv, TypeOK, Fields, Fits, IsMinor, ProgrammeLevel
  <2>4. CASE \E g \in ToSet(Genders) : form' = [form EXCEPT !.gender = g] /\ asks' = asks
    BY <1>2, <2>4 DEF IInv, TypeOK, Fields, Fits, IsMinor
  <2>5. CASE asks /\ form' = [form EXCEPT !.ticked = ~@] /\ asks' = asks
    BY <1>2, <2>5 DEF IInv, TypeOK, Fields, Fits, IsMinor
  <2> QED BY <2>1, <2>2, <2>3, <2>4, <2>5 DEF Edit
<1>4. TypeOK'
  BY <1>0, <1>1, <1>3, DifferSpec DEF IInv, TypeOK
<1>5. FormInv'
  <2>1. draft.kept => Differ(form', draft.fields) \subseteq typed'
    <3>1. Differ(form', draft.fields) \subseteq Differ(form', form) \cup Differ(form, draft.fields)
      BY DifferSpec
    <3>2. Differ(form', form) = Differ(form, form')
      BY DifferSpec
    <3> QED BY <1>0, <3>1, <3>2 DEF IInv, FormInv
  <2> QED BY <1>0, <1>1, <1>3, <2>1 DEF IInv, FormInv, Fits, Differ
<1> QED BY <1>0, <1>4, <1>5 DEF IInv, CalmInv, LeavingInv, NetInv, InFlight, Attached

LEMMA AwayStep ==
  ASSUME IInv, Away
  PROVE  IInv'
<1>1. /\ Leave(0) /\ page = "open" /\ calm' = calm \ InFlight
      /\ UNCHANGED <<form, asks, draft, cards, from, typed, edits>>
  BY DEF Away
<1>2. saved' \in Fields /\ Fits(saved')
  <2> DEFINE confirmed == Posted(form).confirmed
  <2>1. saved' \in {saved, [form EXCEPT !.unticked = "0", !.ticked = confirmed]}
    BY DEF Away
  <2>2. confirmed \in BOOLEAN
    BY DEF Posted, IInv, TypeOK, Fields
  <2> HIDE DEF confirmed
  <2> QED BY <2>1, <2>2 DEF IInv, TypeOK, Fields, FormInv, Fits
<1>3. 0 \notin Uploads
  BY DEF Uploads
<1>4. InFlight' = {} /\ again' = 0 /\ page' = "leaving"
  BY <1>1, <1>3, LeaveSpec DEF IInv, InFlight
<1>5. TypeOK'
  BY <1>1, <1>2, LeaveSpec DEF IInv, TypeOK
<1>6. FormInv'
  BY <1>1, <1>2 DEF IInv, FormInv, Fits, Differ, IsMinor
<1>7. \A u \in calm' : u \in Uploads /\ u \in calm /\ upload'[u] = upload[u]
  BY <1>1, LeaveSpec DEF IInv, TypeOK
<1>8. CalmInv'
  BY <1>4, <1>7 DEF IInv, CalmInv
<1>9. 0 \notin calm'
  BY <1>3, <1>7
<1>10. draft.kept => left' # {}
  BY <1>1, LeaveSpec DEF IInv, NetInv
<1> QED BY <1>1, <1>4, <1>5, <1>6, <1>8, <1>9, <1>10 DEF IInv, LeavingInv, NetInv

LEMMA ArriveStep ==
  ASSUME IInv, Arrive
  PROVE  IInv'
<1>1. /\ page = "leaving" /\ page' = "open" /\ again' = 0 /\ cards' = 0
      /\ draft' = NoDraft /\ typed' = {} /\ Sync(RestoreDraft(saved))
      /\ upload' = IF again = 0 THEN upload ELSE [upload EXCEPT ![again] = "done"]
      /\ UNCHANGED <<saved, from, calm, left, edits>>
  BY DEF Arrive
<1>2. RestoreDraft(saved) \in Fields
  BY RestoreType DEF IInv, TypeOK
<1>3. ~draft'.kept /\ draft' \in Drafts
  BY <1>1 DEF NoDraft, Drafts
<1>4. InFlight' = {}
  BY <1>1 DEF IInv, TypeOK, LeavingInv, InFlight, Uploads
<1>5. \A u \in calm : upload'[u] \in {upload[u], "done"}
  BY <1>1 DEF IInv, TypeOK
<1>6. TypeOK'
  BY <1>1, <1>2, <1>3, SyncSpec, BoundsAssumption DEF IInv, TypeOK
<1>7. FormInv'
  <2>1. Fits(saved)'
    BY <1>1 DEF IInv, FormInv, Fits
  <2> QED BY <1>1, <1>2, <1>3, <2>1, SyncSpec DEF FormInv
<1>8. CalmInv'
  BY <1>1, <1>4, <1>5 DEF IInv, CalmInv
<1> QED BY <1>1, <1>3, <1>4, <1>6, <1>7, <1>8 DEF IInv, LeavingInv, NetInv

LEMMA AgeStep ==
  ASSUME IInv, Age
  PROVE  IInv'
<1>1. draft' \in Drafts /\ draft'.kept /\ draft.kept /\ draft'.fields = draft.fields
  BY DEF IInv, TypeOK, Age, Drafts, NoDraft
<1> QED BY <1>1
  DEF IInv, TypeOK, Age, FormInv, Fits, Differ, IsMinor, CalmInv, LeavingInv, NetInv, InFlight, Attached

LEMMA StutterStep ==
  ASSUME IInv, UNCHANGED vars
  PROVE  IInv'
BY DEF IInv, TypeOK, vars, FormInv, Fits, Differ, IsMinor, CalmInv, LeavingInv, NetInv,
       InFlight, Attached

LEMMA InvStep ==
  ASSUME IInv, [Next]_vars
  PROVE  IInv'
BY PressStep, ReachStep, SucceedStep, FailStep, EditStep, AwayStep, ArriveStep,
   AgeStep, StutterStep DEF Next

\* The invariant holds in every state that can be reached.
THEOREM Invariance == Spec => []IInv
BY InitInv, InvStep, PTL DEF Spec

-----------------------------------------------------------------------------
(***************************************************************************)
(* The theorems                                                            *)
(***************************************************************************)

\* The page, the form, the draft and the uploads keep their types.
THEOREM TypeCorrect == Spec => []TypeOK
<1>1. IInv => TypeOK
  BY DEF IInv
<1> QED BY <1>1, Invariance, PTL

\* The guardian's details are asked for exactly while the form says under 18,
\* also after a reload that put entries back.
THEOREM GuardianIsFollowed == Spec => []GuardianFollows
<1>1. IInv => GuardianFollows
  BY DEF IInv, FormInv, GuardianFollows
<1> QED BY <1>1, Invariance, PTL

\* The form never keeps a programme of another level, be it chosen, saved or put
\* back.
THEOREM ProgrammesFit == Spec => []ProgrammeFitsLevel
<1>1. IInv => ProgrammeFitsLevel
  BY DEF IInv, FormInv, Fits, ProgrammeFitsLevel
<1> QED BY <1>1, Invariance, PTL

\* However many uploads are pressed, one that nothing overlapped is stored or
\* sent again.
THEOREM CalmUploadsArrive == Spec => []CalmUploadIsNeverLost
<1>1. IInv => CalmUploadIsNeverLost
  BY DEF IInv, CalmInv, CalmUploadIsNeverLost
<1> QED BY <1>1, Invariance, PTL

\* A page that comes after one that was left with nothing under way shows what was
\* saved, whatever uploads came before.
THEOREM SavedEntriesAreShown == Spec => SavedIsShown
<1>1. ASSUME IInv, [Next]_vars, page = "leaving", page' = "open", left = {}
      PROVE  form' = saved
  <2>1. Arrive
    BY <1>1 DEF Next, Press, Reach, Succeed, Fail, Leave, Edit, Away, Age, vars
  <2>2. ~draft.kept /\ saved \in Fields /\ Fits(saved)
    BY <1>1 DEF IInv, TypeOK, FormInv, LeavingInv
  <2>3. Sync(saved)
    BY <2>1, <2>2 DEF Arrive, RestoreDraft
  <2> QED BY <2>2, <2>3, SyncSpec
<1>2. IInv /\ [Next]_vars =>
        (page = "leaving" /\ page' = "open" /\ left = {} => form' = saved)
  BY <1>1
<1> QED BY <1>2, Invariance, PTL DEF Spec, SavedIsShown

\* However many uploads and edits there were, a page that an upload nothing
\* overlapped reloads in time shows what it showed when it left, but for what was
\* typed since the press.
THEOREM NothingEnteredIsLost == Spec => EntriesComeBack
<1>1. ASSUME IInv, [Next]_vars, page = "leaving", page' = "open", again \in calm, ~draft.old
      PROVE  Differ(form, form') \subseteq typed
  <2>1. Arrive
    BY <1>1 DEF Next, Press, Reach, Succeed, Fail, Leave, Edit, Away, Age, vars
  <2>2. draft.kept
    BY <1>1 DEF IInv, NetInv
  <2>3. /\ draft.fields \in Fields /\ saved \in Fields /\ Fits(draft.fields)
        /\ Differ(form, draft.fields) \subseteq typed
    BY <1>1, <2>2, DraftType DEF IInv, TypeOK, FormInv
  <2>4. PutBack(saved, draft.fields) \in Fields
    BY <2>3, PutBackType
  <2>5. Fits(PutBack(saved, draft.fields))
    BY <2>3 DEF Fits, PutBack
  <2>6. form' = PutBack(saved, draft.fields)
    BY <1>1, <2>1, <2>2, <2>4, <2>5, SyncProgrammesSpec DEF Arrive, Sync, RestoreDraft
  <2>7. Differ(draft.fields, form') = {}
    BY <2>6 DEF Differ, PutBack, Plain
  <2>8. Differ(form, form') \subseteq Differ(form, draft.fields) \cup Differ(draft.fields, form')
    BY DifferSpec
  <2> QED BY <2>3, <2>7, <2>8
<1>2. IInv /\ [Next]_vars =>
        (page = "leaving" /\ page' = "open" /\ again \in calm /\ ~draft.old
           => Differ(form, form') \subseteq typed)
  BY <1>1
<1> QED BY <1>2, Invariance, PTL DEF Spec, EntriesComeBack
=============================================================================
