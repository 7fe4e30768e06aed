------------------------------ MODULE FormPage ------------------------------
(***************************************************************************)
(* A page with a form of rows.  The edit page of a listing holds its       *)
(* required subjects (subject-requirements.js) and a notice that says what *)
(* saving would do, asked of the server while the provider edits           *)
(* (edit-impact.js); the profile page holds an applicant's results         *)
(* (academic-results.js).  Both are saved with a button that shows that it *)
(* is busy and stops the second press (submit-state.js).                   *)
(*                                                                         *)
(* The form is known to the notice by the number of edits made to it.      *)
(***************************************************************************)
EXTENDS Naturals, Sequences, SequencesExt, FiniteSets

CONSTANTS
  Qualifications,  \* of the catalogue in the page
  SubjectsOf,      \* [Qualifications -> their subjects]
  GradesOf,        \* [Qualifications -> the grades of their scale]
  OwnGrades,       \* [the subjects with a scale of their own -> its grades]
  MaxRows,         \* bound: rows of the table
  MaxEdits         \* bound: edits

ASSUME BoundsAssumption == MaxRows \in Nat /\ MaxEdits \in Nat

VARIABLES
  kind,       \* "listing" or "profile": which page it is
  rows,       \* the rows, in order
  nextIndex,  \* the index the next added row will have
  gaps,       \* history: the page was drawn with a gap between indices
  warned,     \* the profile page says that a subject is listed twice
  edits,      \* edits so far
  due,        \* the notice's timer is set
  asked,      \* the notice's sequence
  inFlight,   \* its requests: their sequence and the form they ask about
  shown,      \* the form the notice's answer is about
  refused,    \* the sequence of the last answer that did not come
  page,       \* "open", "saving" while the request is on its way, or "away"
  submitting, \* data-sz-submitting of the form
  busy,       \* is-busy of the button
  label,      \* the button's text: the "answer" of the notice, or "busy"
  posts       \* history: saves this page has sent

rowVars == <<rows, nextIndex, gaps, warned>>
noticeVars == <<due, asked, inFlight, shown, refused>>
buttonVars == <<page, submitting, busy, label, posts>>
vars == <<kind, rowVars, edits, noticeVars, buttonVars>>

Subjects == UNION {SubjectsOf[q] : q \in Qualifications}
Grades == UNION ({GradesOf[q] : q \in Qualifications}
                   \cup {OwnGrades[s] : s \in DOMAIN OwnGrades})

Row == [index : Nat, qualification : Qualifications \cup {""},
        subject : Subjects \cup {""}, grade : Grades \cup {""}]

TypeOK ==
  /\ kind \in {"listing", "profile"}
  /\ rows \in Seq(Row) /\ Len(rows) <= MaxRows /\ nextIndex \in Nat
  /\ {gaps, warned, due, submitting, busy} \subseteq BOOLEAN
  /\ edits \in 0..MaxEdits /\ asked \in 0..MaxEdits
  /\ inFlight \subseteq [sequence : 1..MaxEdits, about : 0..MaxEdits]
  /\ shown \in 0..edits /\ refused \in 0..asked
  /\ page \in {"open", "saving", "away"} /\ label \in {"answer", "busy"}
  /\ posts \in 0..2

-----------------------------------------------------------------------------
(* A row follows its qualification, and its grades its subject.            *)

\* A slip to rule out: a select keeps its choice, offered or not.
FillKeeping(offered, selected) == selected

\* A select is filled anew and keeps its choice if that is still offered.
Fill(offered, selected) == IF selected \in offered THEN selected ELSE ""

SubjectsFor(q) == IF q = "" THEN {} ELSE SubjectsOf[q]

\* The subject's own scale where it has one, otherwise the qualification's.
ScaleFor(q, subject) ==
  IF subject \in DOMAIN OwnGrades THEN OwnGrades[subject]
  ELSE IF q = "" THEN {} ELSE GradesOf[q]

SyncRow(row) ==
  LET subject == Fill(SubjectsFor(row.qualification), row.subject)
  IN [row EXCEPT !.subject = subject,
                 !.grade = Fill(ScaleFor(row.qualification, subject), @)]

\* The same subject of the same qualification in two rows.
HasDuplicate(table) ==
  \E i, j \in 1..Len(table) :
    /\ i # j /\ table[i].qualification # "" /\ table[i].subject # ""
    /\ table[i].qualification = table[j].qualification
    /\ table[i].subject = table[j].subject

\* The profile page; the listing's editor says nothing of the sort.
RefreshSummary(table) == warned' = (kind = "profile" /\ HasDuplicate(table))

\* The listing counts from the highest index in the page, the profile its rows.
HighestIndex(table) == {table[i].index + 1 : i \in 1..Len(table)} \cup {0}
NextRequirement(table) ==
  CHOOSE n \in HighestIndex(table) : \A m \in HighestIndex(table) : m <= n
NextResult(table) == Len(table)

-----------------------------------------------------------------------------
(* The notice.                                                             *)

\* setTimeout(refresh, DELAY), which any further edit sets anew.
Schedule ==
  /\ due' = (kind = "listing")
  /\ UNCHANGED <<asked, inFlight, shown, refused>>

\* A slip to rule out: nothing is asked while the button is busy.
AskImpactUnlessBusy ==
  /\ due /\ page # "away" /\ ~busy
  /\ due' = FALSE
  /\ asked' = asked + 1
  /\ inFlight' = inFlight \cup {[sequence |-> asked + 1, about |-> edits]}
  /\ UNCHANGED <<kind, rowVars, edits, shown, refused, buttonVars>>

\* refresh: the form as it stands is sent to the server.
AskImpact ==
  /\ due /\ page # "away"
  /\ due' = FALSE
  /\ asked' = asked + 1
  /\ inFlight' = inFlight \cup {[sequence |-> asked + 1, about |-> edits]}
  /\ UNCHANGED <<kind, rowVars, edits, shown, refused, buttonVars>>

\* A slip to rule out: any answer is shown.
CurrentAlways(ask) == TRUE

\* An older answer does not overwrite a newer one, nor any the busy label.
Current(ask) == ask.sequence = asked

\* A slip to rule out: an answer rewrites the label of a busy button.
ShowImpactAnyway(ask) ==
  /\ ask \in inFlight
  /\ inFlight' = inFlight \ {ask}
  /\ shown' = IF Current(ask) THEN ask.about ELSE shown
  /\ label' = IF Current(ask) THEN "answer" ELSE label
  /\ UNCHANGED <<kind, rowVars, edits, due, asked, refused, page, submitting, busy, posts>>

ShowImpact(ask) ==
  /\ ask \in inFlight
  /\ inFlight' = inFlight \ {ask}
  /\ shown' = IF Current(ask) THEN ask.about ELSE shown
  /\ label' = IF Current(ask) /\ ~busy THEN "answer" ELSE label
  /\ UNCHANGED <<kind, rowVars, edits, due, asked, refused, page, submitting, busy, posts>>

\* Not an answer, or none at all: what is shown stays.
NoImpact(ask) ==
  /\ ask \in inFlight
  /\ inFlight' = inFlight \ {ask}
  /\ refused' = IF ask.sequence > refused THEN ask.sequence ELSE refused
  /\ UNCHANGED <<kind, rowVars, edits, due, asked, shown, buttonVars>>

-----------------------------------------------------------------------------
(* Edits.                                                                  *)

Editable == page # "away" /\ edits < MaxEdits

Edit ==
  /\ edits' = edits + 1
  /\ Schedule
  /\ UNCHANGED <<kind, gaps, buttonVars>>

\* A field outside the table.
TypeField ==
  /\ Editable /\ kind = "listing"
  /\ Edit /\ UNCHANGED <<rows, nextIndex, warned>>

Blank == [index |-> nextIndex, qualification |-> "", subject |-> "", grade |-> ""]

\* A slip to rule out: the index of the next row stays.
AddRequirementSameIndex ==
  /\ Editable /\ kind = "listing" /\ Len(rows) < MaxRows
  /\ rows' = Append(rows, Blank)
  /\ Edit /\ UNCHANGED <<nextIndex, warned>>

AddRequirement ==
  /\ Editable /\ kind = "listing" /\ Len(rows) < MaxRows
  /\ rows' = Append(rows, Blank) /\ nextIndex' = nextIndex + 1
  /\ Edit /\ UNCHANGED warned

AddResult ==
  /\ Editable /\ kind = "profile" /\ Len(rows) < MaxRows
  /\ rows' = Append(rows, Blank) /\ nextIndex' = nextIndex + 1
  /\ RefreshSummary(rows')
  /\ Edit

RemoveRow(i) ==
  /\ Editable
  /\ rows' = RemoveAt(rows, i)
  /\ RefreshSummary(rows')
  /\ Edit /\ UNCHANGED nextIndex

\* A choice in one of the three selects of a row.
Choose(i, row) ==
  /\ Editable
  /\ rows' = [rows EXCEPT ![i] = SyncRow(row)]
  /\ RefreshSummary(rows')
  /\ Edit /\ UNCHANGED nextIndex

ChooseInRow(i) ==
  \/ \E q \in Qualifications : Choose(i, [rows[i] EXCEPT !.qualification = q])
  \/ \E s \in SubjectsFor(rows[i].qualification) : Choose(i, [rows[i] EXCEPT !.subject = s])
  \/ \E g \in ScaleFor(rows[i].qualification, rows[i].subject) :
       Choose(i, [rows[i] EXCEPT !.grade = g])

-----------------------------------------------------------------------------
(* Saving.                                                                 *)

MarkBusy == busy' = TRUE /\ label' = "busy"

\* The label stays as it is.
ClearBusy == busy' = FALSE

\* A slip to rule out: every press sends the form.
PressSaveAgain ==
  /\ page # "away"
  /\ submitting' = TRUE
  /\ MarkBusy
  /\ page' = "saving"
  /\ posts' = IF posts < 2 THEN posts + 1 ELSE posts
  /\ UNCHANGED <<kind, rowVars, edits, noticeVars>>

\* The browser accepts the submission: the first press sends it, a second one
\* of a form that is on its way is prevented.
PressSave ==
  /\ page # "away" /\ ~submitting
  /\ submitting' = TRUE
  /\ MarkBusy
  /\ page' = "saving"
  /\ posts' = IF posts < 2 THEN posts + 1 ELSE posts
  /\ UNCHANGED <<kind, rowVars, edits, noticeVars>>

\* The reader stops the page from loading: nothing tells the script.
StopLoading ==
  /\ page = "saving"
  /\ page' = "open"
  /\ UNCHANGED <<kind, rowVars, edits, noticeVars, submitting, busy, label, posts>>

\* The next document arrives; what this one had in flight is dropped, and its
\* timer waits.
Leave ==
  /\ page \in {"open", "saving"}
  /\ page' = "away"
  /\ inFlight' = {}
  /\ refused' = IF \E ask \in inFlight : Current(ask) THEN asked ELSE refused
  /\ UNCHANGED <<kind, rowVars, edits, due, asked, shown, submitting, busy, label, posts>>

\* pageshow of a page restored as it was left, before history-guard.js reloads it.
PageShow ==
  /\ page = "away"
  /\ page' = "open"
  /\ submitting' = FALSE /\ ClearBusy /\ posts' = 0
  /\ UNCHANGED <<kind, rowVars, edits, noticeVars, label>>

\* The rows as the server draws them.  After a refused save the listing numbers
\* them anew, and the profile keeps the numbers they were sent with.
Stored ==
  [index : {0}, qualification : Qualifications \cup {""},
   subject : Subjects \cup {""}, grade : Grades \cup {""}]

Tables == UNION {[1..n -> {SyncRow(r) : r \in Stored}] : n \in 0..(MaxRows - 1)}

Numbered(table, step) ==
  [i \in 1..Len(table) |-> [table[i] EXCEPT !.index = step * (i - 1)]]

Drawn(table, step) ==
  /\ rows = Numbered(table, step)
  /\ gaps = (step > 1 /\ Len(table) > 1)
  /\ nextIndex = IF kind = "listing" THEN NextRequirement(rows) ELSE NextResult(rows)
  /\ warned = (kind = "profile" /\ HasDuplicate(rows))

Init ==
  /\ kind \in {"listing", "profile"}
  /\ \E table \in Tables, step \in {1, 2} :
       (step = 2 => kind = "profile") /\ Drawn(table, step)
  /\ edits = 0 /\ due = FALSE /\ asked = 0 /\ inFlight = {} /\ shown = 0 /\ refused = 0
  /\ page = "open" /\ submitting = FALSE /\ busy = FALSE /\ label = "answer" /\ posts = 0

Next ==
  \/ AskImpact \/ \E ask \in inFlight : ShowImpact(ask) \/ NoImpact(ask)
  \/ TypeField \/ AddRequirement \/ AddResult
  \/ \E i \in 1..Len(rows) : RemoveRow(i) \/ ChooseInRow(i)
  \/ PressSave \/ StopLoading \/ Leave \/ PageShow

Spec == Init /\ [][Next]_vars

\* Timers fire, and requests are answered or fail.
FairSpec ==
  /\ Spec /\ WF_vars(AskImpact)
  /\ WF_vars(\E ask \in inFlight : ShowImpact(ask) \/ NoImpact(ask))

-----------------------------------------------------------------------------
(* Properties.                                                             *)

\* No two rows share an index, so that none overwrites another when the form is
\* read; but for a profile page that was drawn with a gap.
RowsPostApart ==
  kind = "listing" \/ ~gaps =>
    \A i, j \in 1..Len(rows) : rows[i].index = rows[j].index => i = j

\* Through any choices, a row never holds a subject of another qualification or
\* a grade of another scale.
RowsFitTheCatalogue ==
  \A i \in 1..Len(rows) :
    /\ rows[i].subject \in SubjectsFor(rows[i].qualification) \cup {""}
    /\ rows[i].grade \in ScaleFor(rows[i].qualification, rows[i].subject) \cup {""}

\* The profile page says that a subject is listed twice exactly while it is.
DuplicatesAreSaid == kind = "profile" => warned = HasDuplicate(rows)

\* With no question left open, the notice is about the form as it stands, unless
\* the last question had no answer: no edit goes unasked, no answer comes late.
NoticeIsCurrent ==
  kind = "listing" /\ ~due /\ (asked = 0 \/ refused # asked)
     /\ (\A ask \in inFlight : ~Current(ask))
    => shown = edits

\* Once the provider stops editing and stays, no question stays open.
NoticeSettles == []<>(page = "away") \/ <>[](~due /\ inFlight = {})

\* Whatever is pressed, stopped and pressed again, a page saves once.
SavedOnce == posts <= 1

\* A button that is busy says so, whatever answers arrive.
BusyIsSaid == busy => label = "busy"
=============================================================================
