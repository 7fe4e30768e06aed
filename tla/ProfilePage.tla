----------------------------- MODULE ProfilePage -----------------------------
(***************************************************************************)
(* The applicant's profile page: the profile form, which follows the       *)
(* education level and the date of birth (profile-form.js), and the card   *)
(* of documents, each a form of its own, that document-upload.js sends in  *)
(* the background.  A background upload that goes wrong is submitted the   *)
(* ordinary way, which reloads the page; what was typed is kept in         *)
(* sessionStorage and put back.                                            *)
(*                                                                         *)
(* The form holds one field of each kind the scripts tell apart: a text    *)
(* (date of birth), two selects (level, programme), a group of radios      *)
(* (gender), and a hidden input and a box of one name (the guardian).      *)
(***************************************************************************)
EXTENDS Naturals, Sequences, SequencesExt, FiniteSets

CONSTANTS
  Documents,    \* the documents of the card
  Genders,      \* the radios, in the order of the page
  MaxEdits,     \* bound: fields typed in
  MaxUploads    \* bound: uploads pressed

ASSUME BoundsAssumption ==
  /\ Genders \in Seq(STRING) /\ Genders # <<>> /\ MaxEdits \in Nat /\ MaxUploads \in Nat \ {0}

Levels == {"O_LEVEL", "UNDERGRADUATE"}
SchoolLevels == {"O_LEVEL"}
ProgrammeLevel(p) == "UNDERGRADUATE"
NoDraft == [kept |-> FALSE]
Uploads == 1..MaxUploads

Fields == [
  born      : {"", "minor", "adult"},
  level     : Levels,
  programme : {"", "degree"},
  gender    : ToSet(Genders) \cup {"none"},
  unticked  : {"0", "1"},   \* guardian_confirmed, the hidden input
  ticked    : BOOLEAN ]     \* guardian_confirmed, the box

\* The fields that have a name to themselves, and those in which two forms differ.
Plain == {"born", "level", "programme"}
Differ(f, g) == {field \in Plain : f[field] # g[field]}

VARIABLES
  page,      \* "open", or "leaving" for the page that was asked for
  form,      \* the profile form as it stands
  asks,      \* the guardian's card is shown and its fields required
  saved,     \* what the server has of the form
  draft,     \* sessionStorage: NoDraft, or the fields and whether they are old
  cards,     \* how often the documents card was replaced
  upload,    \* [Uploads -> what became of it]
  from,      \* [Uploads -> the document, and the card that holds its form]
  again,     \* the document the leaving page posts, or "none"
  calm,      \* history: uploads that nothing else on the page overlapped
  typed,     \* history: plain fields changed since the entries were kept
  left,      \* history: what was under way when the page was last left
  edits

vars == <<page, form, asks, saved, draft, cards, upload, from, again,
          calm, typed, left, edits>>

Drafts == {NoDraft} \cup [kept : {TRUE}, old : BOOLEAN, fields : Fields]

TypeOK ==
  /\ page \in {"open", "leaving"} /\ form \in Fields /\ asks \in BOOLEAN
  /\ saved \in Fields /\ draft \in Drafts
  /\ cards \in Nat
  /\ upload \in [Uploads -> {"none", "sent", "stored", "done", "lost"}]
  /\ from \in [Uploads -> [document : Documents \cup {"none"}, card : Nat]]
  /\ again \in Uploads \cup {0} /\ calm \subseteq Uploads
  /\ typed \subseteq Plain /\ left \subseteq Uploads /\ edits \in 0..MaxEdits

-----------------------------------------------------------------------------
(* profile-form.js                                                         *)

IsMinor(f) == IF f.born # "" THEN f.born = "minor" ELSE f.level \in SchoolLevels

\* A programme of another level is dropped from the choice.
SyncProgrammes(f) ==
  IF f.programme # "" /\ ProgrammeLevel(f.programme) # f.level
    THEN [f EXCEPT !.programme = ""] ELSE f

\* A slip to rule out: the guardian's card follows the level alone.
SyncByLevel(f) ==
  /\ form' = SyncProgrammes(f)
  /\ asks' = (f.level \in SchoolLevels)

Sync(f) ==
  /\ form' = SyncProgrammes(f)
  /\ asks' = IsMinor(f)

\* What the server reads: of two values of one name, the last that is sent.
Posted(f) ==
  [born |-> f.born, level |-> f.level, programme |-> f.programme,
   gender |-> f.gender, confirmed |-> f.ticked \/ f.unticked = "1"]

-----------------------------------------------------------------------------
(* The draft, document-upload.js                                           *)

SaveDraft ==
  /\ draft' = [kept |-> TRUE, old |-> FALSE, fields |-> form]
  /\ typed' = {}

\* A slip to rule out: the programmes are put back before the level, whose change drops them.
PutBackUnordered(f, kept) ==
  [born |-> kept.born, level |-> kept.level, programme |-> f.programme,
   gender |-> f.gender, unticked |-> "1", ticked |-> kept.ticked]

\* Each field that was saved is put back into every element of its name.  Each
\* radio that was saved sets them all, so that the last one decides; of the two
\* inputs of the guardian, the hidden one is saved first and unticks the box,
\* and the box, whose value is "1" ticked or not, gives the hidden one its value.
PutBack(f, kept) ==
  [born |-> kept.born, level |-> kept.level, programme |-> kept.programme,
   gender |-> IF kept.gender = Genders[Len(Genders)] THEN kept.gender ELSE "none",
   unticked |-> "1", ticked |-> kept.ticked]

\* Used once, and within DRAFT_MAX_AGE_MS.
RestoreDraft(f) == IF draft.kept /\ ~draft.old THEN PutBack(f, draft.fields) ELSE f

-----------------------------------------------------------------------------
(* Uploads.                                                                *)

InFlight == {u \in Uploads : upload[u] \in {"sent", "stored"}}

\* An ordinary submit, or leaving any other way, drops what is in flight.
Leave(u) ==
  /\ page' = "leaving" /\ again' = u /\ left' = InFlight
  /\ upload' = [v \in Uploads |->
                  CASE v = u -> upload[v]
                    [] v \in InFlight \ {u} /\ upload[v] = "sent" -> "lost"
                    [] v \in InFlight \ {u} /\ upload[v] = "stored" -> "done"
                    [] OTHER -> upload[v]]

\* A second press too: submit-state.js prevents that submit, but this script,
\* which hears it next, does not ask, and sends the file once more.
Press(d) ==
  \E u \in Uploads :
    /\ page = "open" /\ upload[u] = "none"
    /\ \A v \in Uploads : v < u => upload[v] # "none"
    /\ SaveDraft
    /\ upload' = [upload EXCEPT ![u] = "sent"]
    /\ from' = [from EXCEPT ![u] = [document |-> d, card |-> cards]]
    /\ calm' = IF InFlight = {} THEN calm \cup {u} ELSE calm \ InFlight
    /\ UNCHANGED <<page, form, asks, saved, cards, again, left, edits>>

\* The file reaches the server, which stores it or says why not.
Reach(u) ==
  /\ upload[u] = "sent" /\ page = "open"
  /\ upload' = [upload EXCEPT ![u] = "stored"]
  /\ UNCHANGED <<page, form, asks, saved, draft, cards, from, again, calm, typed,
                 left, edits>>

Attached(u) == from[u].card = cards

\* A slip to rule out: the draft is left behind.
SucceedKeepingDraft(u) ==
  /\ upload[u] = "stored" /\ page = "open"
  /\ upload' = [upload EXCEPT ![u] = "done"]
  /\ cards' = IF Attached(u) THEN cards + 1 ELSE cards
  /\ Sync(form)
  /\ UNCHANGED <<page, saved, draft, from, again, calm, typed, left, edits>>

\* The card is swapped for the server's, if it is still in the page; the draft
\* is dropped.
Succeed(u) ==
  /\ upload[u] = "stored" /\ page = "open"
  /\ upload' = [upload EXCEPT ![u] = "done"]
  /\ cards' = IF Attached(u) THEN cards + 1 ELSE cards
  /\ draft' = NoDraft
  /\ Sync(form)
  /\ UNCHANGED <<page, saved, from, again, calm, typed, left, edits>>

\* A slip to rule out: a failure is reported and the form is not submitted again.
FailQuietly(u) ==
  /\ u \in InFlight /\ page = "open"
  /\ upload' = [upload EXCEPT ![u] = IF @ = "stored" THEN "done" ELSE "lost"]
  /\ UNCHANGED <<page, form, asks, saved, draft, cards, from, again, calm, typed,
                 left, edits>>

\* A failed request, an expired session, another page: the form is submitted the
\* ordinary way, which a form that is no longer in the page cannot be.
Fail(u) ==
  /\ u \in InFlight /\ page = "open"
  /\ IF Attached(u)
       THEN Leave(u)
       ELSE /\ upload' = [upload EXCEPT ![u] = IF @ = "stored" THEN "done" ELSE "lost"]
            /\ UNCHANGED <<page, again, left>>
  /\ UNCHANGED <<form, asks, saved, draft, cards, from, calm, typed, edits>>

-----------------------------------------------------------------------------
(* The profile form and the page.                                          *)

Edit ==
  /\ page = "open" /\ edits < MaxEdits
  /\ edits' = edits + 1
  /\ \/ \E b \in {"", "minor", "adult"} : Sync([form EXCEPT !.born = b])
     \/ \E l \in Levels : Sync([form EXCEPT !.level = l])
     \/ form.level = ProgrammeLevel("degree")
        /\ form' = [form EXCEPT !.programme = "degree"] /\ asks' = asks
     \/ \E g \in ToSet(Genders) : form' = [form EXCEPT !.gender = g] /\ asks' = asks
     \/ asks /\ form' = [form EXCEPT !.ticked = ~@] /\ asks' = asks
  /\ typed' = typed \cup Differ(form, form')
  /\ UNCHANGED <<page, saved, draft, cards, upload, from, again, calm, left>>

\* Save, which the server may refuse, or any other way out of the page.
Away ==
  /\ page = "open"
  /\ LET kept == Posted(form) IN
       saved' \in {saved, [form EXCEPT !.unticked = "0", !.ticked = kept.confirmed]}
  /\ calm' = calm \ InFlight
  /\ Leave(0)
  /\ UNCHANGED <<form, asks, draft, cards, from, typed, edits>>

\* The profile as it is saved; the scripts run on it, the draft's first.
Arrive ==
  /\ page = "leaving"
  /\ page' = "open" /\ again' = 0
  /\ upload' = IF again = 0 THEN upload ELSE [upload EXCEPT ![again] = "done"]
  /\ cards' = 0
  /\ Sync(RestoreDraft(saved))
  /\ draft' = NoDraft /\ typed' = {}
  /\ UNCHANGED <<saved, from, calm, left, edits>>

Age ==
  /\ draft.kept /\ ~draft.old
  /\ draft' = [draft EXCEPT !.old = TRUE]
  /\ UNCHANGED <<page, form, asks, saved, cards, upload, from, again, calm, typed,
                 left, edits>>

-----------------------------------------------------------------------------
Init ==
  /\ page = "open"
  /\ saved \in {f \in Fields : /\ f.unticked = "0" /\ f.programme = ""
                               /\ f.gender = Genders[1] /\ f.born # "adult"}
  /\ form = saved /\ asks = IsMinor(saved)
  /\ draft = NoDraft
  /\ cards = 0
  /\ upload = [u \in Uploads |-> "none"]
  /\ from = [u \in Uploads |-> [document |-> "none", card |-> 0]]
  /\ again = 0 /\ calm = {} /\ typed = {} /\ left = {} /\ edits = 0

Next ==
  \/ \E d \in Documents : Press(d)
  \/ \E u \in Uploads : Reach(u) \/ Succeed(u) \/ Fail(u)
  \/ Edit \/ Away \/ Arrive \/ Age

Spec == Init /\ [][Next]_vars

-----------------------------------------------------------------------------
(* Properties.                                                             *)

\* The guardian's details are asked for exactly while the form says under 18,
\* also on a page that was reloaded and given its entries back.
GuardianFollows == asks = IsMinor(form)

\* A level never leaves behind a programme that the server would refuse, be it
\* chosen, saved or put back.
ProgrammeFitsLevel ==
  form.programme # "" => ProgrammeLevel(form.programme) = form.level

\* An upload that nothing overlapped is never lost: it is stored, or sent again.
CalmUploadIsNeverLost == \A u \in calm : upload[u] # "lost"

\* What was saved is what the next page shows: entries kept for an upload do not
\* outlive it.  A page that is left while an upload is under way, to save the
\* profile or for another reason, is excepted: the next one puts the entries that
\* were kept at the press over what was saved.
SavedIsShown ==
  [][page = "leaving" /\ page' = "open" /\ left = {} => form' = saved]_vars

\* Nothing that was entered is lost to an upload that nothing overlapped and that
\* has to reload the page within the draft's age: every plain field shows again
\* what it showed when the page left, but for those edited since the press, which
\* the entries kept at the press do not have.
EntriesComeBack ==
  [][page = "leaving" /\ page' = "open" /\ again \in calm /\ ~draft.old
       => Differ(form, form') \subseteq typed]_vars
=============================================================================
