--------------------------- MODULE FormPage_proofs ---------------------------
(***************************************************************************)
(* Proofs about FormPage, for any catalogue and any numbers of rows and    *)
(* edits.                                                                  *)
(***************************************************************************)
EXTENDS FormPage, TLAPS, SequenceTheorems

-----------------------------------------------------------------------------
(***************************************************************************)
(* The inductive invariants                                                *)
(***************************************************************************)

FitsCatalogue(row) ==
  /\ row.subject \in SubjectsFor(row.qualification) \cup {""}
  /\ row.grade \in ScaleFor(row.qualification, row.subject) \cup {""}

Apart(table) ==
  \A i, j \in 1..Len(table) : table[i].index = table[j].index => i = j

Below(table, n) == \A i \in 1..Len(table) : table[i].index < n

\* The indices in the page are below the one the next row will have.
RowsInv ==
  /\ rows \in Seq(Row) /\ Len(rows) <= MaxRows /\ nextIndex \in Nat
  /\ gaps \in BOOLEAN /\ kind \in {"listing", "profile"}
  /\ \A i \in 1..Len(rows) : FitsCatalogue(rows[i])
  /\ kind = "listing" \/ ~gaps => Apart(rows) /\ Below(rows, nextIndex)

\* The page says that a subject is listed twice exactly while it is.
SummaryInv ==
  /\ warned \in BOOLEAN
  /\ kind = "profile" => warned = HasDuplicate(rows)

\* Each question was asked by a timer that an edit had set, and the latest one,
\* once no timer is set, is about the form as it stands.
NoticeInv ==
  /\ due \in BOOLEAN
  /\ edits \in 0..MaxEdits /\ asked \in 0..edits /\ (due => asked < edits)
  /\ inFlight \subseteq [sequence : 1..asked, about : 0..edits]
  /\ shown \in 0..edits /\ refused \in 0..asked
  /\ kind = "listing" /\ ~due =>
       \A ask \in inFlight : Current(ask) => ask.about = edits
  /\ NoticeIsCurrent

\* A page that has sent its form holds the mark that stops the next press.
SaveInv ==
  /\ page \in {"open", "saving", "away"} /\ {submitting, busy} \subseteq BOOLEAN
  /\ label \in {"answer", "busy"} /\ posts \in 0..1
  /\ ~submitting => posts = 0
  /\ BusyIsSaid

-----------------------------------------------------------------------------
(***************************************************************************)
(* A row                                                                   *)
(***************************************************************************)

LEMMA FillSpec ==
  ASSUME NEW offered, NEW selected
  PROVE  Fill(offered, selected) \in offered \cup {""}
BY DEF Fill

LEMMA OfferedTypes ==
  ASSUME NEW q \in Qualifications \cup {""}
  PROVE  /\ SubjectsFor(q) \subseteq Subjects
         /\ \A s : ScaleFor(q, s) \subseteq Grades
<1>1. SubjectsFor(q) \subseteq Subjects
  <2>1. CASE q = ""
    BY <2>1 DEF SubjectsFor
  <2>2. CASE q # ""
    BY <2>2 DEF SubjectsFor, Subjects
  <2> QED BY <2>1, <2>2
<1>2. ASSUME NEW s
      PROVE  ScaleFor(q, s) \subseteq Grades
  <2>1. CASE s \in DOMAIN OwnGrades
    BY <2>1 DEF ScaleFor, Grades
  <2>2. CASE s \notin DOMAIN OwnGrades /\ q = ""
    BY <2>2 DEF ScaleFor
  <2>3. CASE s \notin DOMAIN OwnGrades /\ q # ""
    BY <2>3 DEF ScaleFor, Grades
  <2> QED BY <2>1, <2>2, <2>3
<1> QED BY <1>1, <1>2

\* A row that follows its qualification fits the catalogue, keeps its index, and
\* is a row.
LEMMA SyncRowSpec ==
  ASSUME NEW row \in Row
  PROVE  /\ SyncRow(row) \in Row
         /\ SyncRow(row).index = row.index
         /\ FitsCatalogue(SyncRow(row))
<1> DEFINE subject == Fill(SubjectsFor(row.qualification), row.subject)
           grade == Fill(ScaleFor(row.qualification, subject), row.grade)
<1>1. SyncRow(row) = [row EXCEPT !.subject = subject, !.grade = grade]
  BY DEF SyncRow
<1>2. /\ subject \in SubjectsFor(row.qualification) \cup {""}
      /\ grade \in ScaleFor(row.qualification, subject) \cup {""}
  BY FillSpec
<1>3. row.qualification \in Qualifications \cup {""}
  BY DEF Row
<1>4. subject \in Subjects \cup {""} /\ grade \in Grades \cup {""}
  BY <1>2, <1>3, OfferedTypes
<1> HIDE DEF subject, grade
<1>5. /\ SyncRow(row) \in Row
      /\ SyncRow(row).index = row.index
      /\ SyncRow(row).qualification = row.qualification
      /\ SyncRow(row).subject = subject
      /\ SyncRow(row).grade = grade
  BY <1>1, <1>4 DEF Row
<1> QED BY <1>2, <1>5 DEF FitsCatalogue

LEMMA BlankSpec ==
  ASSUME nextIndex \in Nat
  PROVE  Blank \in Row /\ Blank.index = nextIndex /\ FitsCatalogue(Blank)
BY DEF Blank, Row, FitsCatalogue

-----------------------------------------------------------------------------
(***************************************************************************)
(* The table                                                               *)
(***************************************************************************)

LEMMA AddRow ==
  ASSUME RowsInv, Len(rows) < MaxRows, UNCHANGED <<kind, gaps>>,
         rows' = Append(rows, Blank), nextIndex' = nextIndex + 1
  PROVE  RowsInv'
<1>1. Blank \in Row /\ Blank.index = nextIndex /\ FitsCatalogue(Blank)
  BY BlankSpec DEF RowsInv
<1>2. /\ rows' \in Seq(Row) /\ Len(rows') = Len(rows) + 1
      /\ \A i \in 1..Len(rows) : rows'[i] = rows[i]
      /\ rows'[Len(rows) + 1] = Blank
  BY <1>1, AppendProperties DEF RowsInv
<1>3. Len(rows) \in Nat /\ Len(rows') <= MaxRows
  BY <1>2, BoundsAssumption, LenProperties DEF RowsInv
<1>4. \A i \in 1..Len(rows') : i \in 1..Len(rows) \/ i = Len(rows) + 1
  BY <1>2, <1>3
<1>5. \A i \in 1..Len(rows') : FitsCatalogue(rows'[i])
  BY <1>1, <1>2, <1>4 DEF RowsInv
<1>6. \A i \in 1..Len(rows) : rows[i].index \in Nat
  <2>1. \A i \in 1..Len(rows) : rows[i] \in Row
    BY ElementOfSeq DEF RowsInv
  <2> QED BY <2>1 DEF Row
<1>7. ASSUME kind = "listing" \/ ~gaps
      PROVE  Apart(rows') /\ Below(rows', nextIndex')
  <2>1. Apart(rows) /\ Below(rows, nextIndex) /\ nextIndex \in Nat
    BY <1>7 DEF RowsInv
  <2>2. Below(rows', nextIndex')
    BY <1>1, <1>2, <1>4, <1>6, <2>1 DEF Below
  <2>3. Apart(rows')
    BY <1>1, <1>2, <1>4, <1>6, <2>1 DEF Apart, Below
  <2> QED BY <2>2, <2>3
<1>8. nextIndex' \in Nat
  BY DEF RowsInv
<1>9. (\A i \in 1..Len(rows) : FitsCatalogue(rows[i]))'
  BY <1>5 DEF FitsCatalogue
<1> QED BY <1>2, <1>3, <1>7, <1>8, <1>9 DEF RowsInv, Apart, Below

LEMMA DropRow ==
  ASSUME RowsInv, NEW i \in 1..Len(rows), UNCHANGED <<kind, gaps, nextIndex>>,
         rows' = RemoveAt(rows, i)
  PROVE  RowsInv'
<1> DEFINE before == SubSeq(rows, 1, i - 1)
           after == SubSeq(rows, i + 1, Len(rows))
<1>1. rows \in Seq(Row) /\ Len(rows) \in Nat /\ i \in Nat
      /\ \A j \in 1..Len(rows) : rows[j] \in Row
  BY LenProperties, ElementOfSeq DEF RowsInv
<1>2. /\ before \in Seq(Row) /\ Len(before) = i - 1
      /\ \A j \in 1..(i - 1) : before[j] = rows[j]
  <2>1. 1 \in Int /\ i - 1 \in Int /\ \A j \in 1..(i - 1) : rows[j] \in Row
    BY <1>1
  <2>2. /\ before \in Seq(Row)
        /\ Len(before) = IF 1 <= i - 1 THEN (i - 1) - 1 + 1 ELSE 0
        /\ \A j \in 1..((i - 1) - 1 + 1) : before[j] = rows[1 + j - 1]
    BY <2>1, SubSeqProperties
  <2> HIDE DEF before
  <2> QED BY <1>1, <2>2
<1>3. /\ after \in Seq(Row) /\ Len(after) = Len(rows) - i
      /\ \A j \in 1..(Len(rows) - i) : after[j] = rows[i + j]
  <2>1. i + 1 \in Int /\ Len(rows) \in Int
        /\ \A j \in (i + 1)..Len(rows) : rows[j] \in Row
    BY <1>1
  <2>2. /\ after \in Seq(Row)
        /\ Len(after) = IF i + 1 <= Len(rows) THEN Len(rows) - (i + 1) + 1 ELSE 0
        /\ \A j \in 1..(Len(rows) - (i + 1) + 1) : after[j] = rows[(i + 1) + j - 1]
    BY <2>1, SubSeqProperties
  <2> HIDE DEF after
  <2> QED BY <1>1, <2>2
<1>4. rows' = before \o after
  BY DEF RemoveAt
<1> DEFINE From(j) == IF j < i THEN j ELSE j + 1
<1>5. /\ rows' \in Seq(Row) /\ Len(rows') = Len(rows) - 1
      /\ \A j \in 1..Len(rows') : From(j) \in 1..Len(rows) /\ rows'[j] = rows[From(j)]
  <2> HIDE DEF before, after
  <2>1. /\ rows' \in Seq(Row) /\ Len(rows') = (i - 1) + (Len(rows) - i)
        /\ \A j \in 1..((i - 1) + (Len(rows) - i)) :
             rows'[j] = IF j <= i - 1 THEN before[j] ELSE after[j - (i - 1)]
    <3>1. /\ before \o after \in Seq(Row)
          /\ Len(before \o after) = Len(before) + Len(after)
          /\ \A j \in 1..(Len(before) + Len(after)) :
               (before \o after)[j] =
                 IF j <= Len(before) THEN before[j] ELSE after[j - Len(before)]
      BY <1>2, <1>3, ConcatProperties
    <3> QED BY <1>2, <1>3, <1>4, <3>1
  <2>2. ASSUME NEW j \in 1..Len(rows')
        PROVE  From(j) \in 1..Len(rows) /\ rows'[j] = rows[From(j)]
    <3>1. CASE j < i
      <4>1. rows'[j] = before[j] /\ j \in 1..(i - 1)
        BY <1>1, <2>1, <3>1
      <4> QED BY <1>1, <1>2, <3>1, <4>1
    <3>2. CASE ~(j < i)
      <4>1. rows'[j] = after[j - (i - 1)] /\ j - (i - 1) \in 1..(Len(rows) - i)
            /\ i + (j - (i - 1)) = j + 1
        BY <1>1, <2>1, <3>2
      <4>2. rows'[j] = rows[j + 1]
        BY <1>3, <4>1
      <4> QED BY <1>1, <2>1, <3>2, <4>2
    <3> QED BY <3>1, <3>2
  <2> QED BY <1>1, <2>1, <2>2
<1>6. \A j, k \in 1..Len(rows') : From(j) = From(k) => j = k
  BY <1>1, <1>5
<1> HIDE DEF From
<1>7. (\A j \in 1..Len(rows) : FitsCatalogue(rows[j]))'
  BY <1>5 DEF RowsInv, FitsCatalogue
<1>8. ASSUME Apart(rows)
      PROVE  Apart(rows)'
  <2>1. ASSUME NEW j \in 1..Len(rows'), NEW k \in 1..Len(rows'),
               rows'[j].index = rows'[k].index
        PROVE  j = k
    <3>1. rows[From(j)].index = rows[From(k)].index
          /\ From(j) \in 1..Len(rows) /\ From(k) \in 1..Len(rows)
      BY <1>5, <2>1
    <3>2. From(j) = From(k)
      BY <1>8, <3>1 DEF Apart
    <3> QED BY <1>6, <3>2
  <2> QED BY <2>1 DEF Apart
<1>9. Below(rows, nextIndex) => Below(rows, nextIndex)'
  BY <1>5 DEF Below
<1>10. Len(rows') <= MaxRows
  BY <1>1, <1>5, BoundsAssumption DEF RowsInv
<1> QED BY <1>5, <1>7, <1>8, <1>9, <1>10 DEF RowsInv

LEMMA ChooseInTable ==
  ASSUME RowsInv, NEW i \in 1..Len(rows), NEW row \in Row, row.index = rows[i].index,
         Choose(i, row)
  PROVE  RowsInv'
<1>1. rows' = [rows EXCEPT ![i] = SyncRow(row)] /\ UNCHANGED <<kind, gaps, nextIndex>>
  BY DEF Choose, Edit
<1>2. SyncRow(row) \in Row /\ SyncRow(row).index = rows[i].index
      /\ FitsCatalogue(SyncRow(row))
  BY SyncRowSpec
<1>3. /\ rows' \in Seq(Row) /\ Len(rows') = Len(rows)
      /\ \A j \in 1..Len(rows) : rows'[j] = IF j = i THEN SyncRow(row) ELSE rows[j]
  BY <1>1, <1>2, ExceptSeq DEF RowsInv
<1>4. \A j \in 1..Len(rows) : rows'[j].index = rows[j].index /\ FitsCatalogue(rows'[j])
  BY <1>2, <1>3 DEF RowsInv
<1>5. (\A j \in 1..Len(rows) : FitsCatalogue(rows[j]))'
  BY <1>3, <1>4 DEF FitsCatalogue
<1>6. Apart(rows) => Apart(rows)'
  BY <1>3, <1>4 DEF Apart
<1>7. Below(rows, nextIndex) => Below(rows, nextIndex)'
  BY <1>1, <1>3, <1>4 DEF Below
<1> QED BY <1>1, <1>3, <1>5, <1>6, <1>7 DEF RowsInv

LEMMA RowsFrame ==
  ASSUME RowsInv, UNCHANGED <<kind, rows, nextIndex, gaps>>
  PROVE  RowsInv'
<1>1. (\A i \in 1..Len(rows) : FitsCatalogue(rows[i]))'
  BY DEF RowsInv, FitsCatalogue
<1>2. Apart(rows) = Apart(rows)' /\ Below(rows, nextIndex) = Below(rows, nextIndex)'
  BY DEF Apart, Below
<1> QED BY <1>1, <1>2 DEF RowsInv

-----------------------------------------------------------------------------
(***************************************************************************)
(* The page as it is drawn                                                 *)
(***************************************************************************)

LEMMA StoredSpec ==
  ASSUME NEW row \in {SyncRow(r) : r \in Stored}
  PROVE  row \in Row /\ FitsCatalogue(row)
<1>1. PICK r \in Stored : row = SyncRow(r)
  OBVIOUS
<1>2. r \in Row
  <2>1. {0} \subseteq Nat
    OBVIOUS
  <2>2. ASSUME NEW I, NEW Q, NEW S, NEW G, NEW J, I \subseteq J,
               NEW x \in [index : I, qualification : Q, subject : S, grade : G]
        PROVE  x \in [index : J, qualification : Q, subject : S, grade : G]
    BY <2>2
  <2> QED BY <2>1, <2>2 DEF Stored, Row
<1> QED BY <1>1, <1>2, SyncRowSpec

LEMMA NumberedSpec ==
  ASSUME NEW n \in Nat, NEW table \in [1..n -> Row], NEW step \in {1, 2},
         \A i \in 1..n : FitsCatalogue(table[i])
  PROVE  /\ Numbered(table, step) \in Seq(Row)
         /\ Len(Numbered(table, step)) = n /\ Len(table) = n
         /\ \A i \in 1..n : /\ FitsCatalogue(Numbered(table, step)[i])
                            /\ Numbered(table, step)[i].index = step * (i - 1)
<1>1. n \in Nat
  OBVIOUS
<1>2. \A i \in 1..n : table[i] \in Row /\ FitsCatalogue(table[i])
  OBVIOUS
<1>3. table \in Seq(Row) /\ Len(table) = n
  OBVIOUS
<1>4. Numbered(table, step) = [i \in 1..n |-> [table[i] EXCEPT !.index = step * (i - 1)]]
  BY <1>3 DEF Numbered
<1>5. ASSUME NEW i \in 1..n
      PROVE  /\ [table[i] EXCEPT !.index = step * (i - 1)] \in Row
             /\ FitsCatalogue([table[i] EXCEPT !.index = step * (i - 1)])
             /\ [table[i] EXCEPT !.index = step * (i - 1)].index = step * (i - 1)
  <2>1. step * (i - 1) \in Nat
    <3>1. i - 1 \in Nat /\ step \in Nat
      OBVIOUS
    <3>2. CASE step = 1
      BY <3>1, <3>2
    <3>3. CASE step = 2
      BY <3>1, <3>3
    <3> QED BY <3>2, <3>3
  <2> DEFINE place == step * (i - 1)
             row == [table[i] EXCEPT !.index = place]
  <2>2. /\ row \in Row /\ row.index = place
        /\ row.qualification = table[i].qualification
        /\ row.subject = table[i].subject /\ row.grade = table[i].grade
    <3>1. place \in Nat
      BY <2>1
    <3> HIDE DEF place
    <3> QED BY <1>2, <3>1 DEF Row
  <2> HIDE DEF row
  <2>3. FitsCatalogue(row)
    BY <1>2, <2>2 DEF FitsCatalogue
  <2> QED BY <2>2, <2>3 DEF row
<1>6. Numbered(table, step) \in [1..n -> Row]
  BY <1>4, <1>5
<1>7. Numbered(table, step) \in Seq(Row) /\ Len(Numbered(table, step)) = n
  BY <1>1, <1>6
<1>8. \A i \in 1..n :
        Numbered(table, step)[i] = [table[i] EXCEPT !.index = step * (i - 1)]
  BY <1>4
<1> QED BY <1>3, <1>5, <1>7, <1>8

LEMMA InitRows ==
  ASSUME Init
  PROVE  RowsInv /\ SummaryInv
<1>1. PICK table \in Tables, step \in {1, 2} :
        (step = 2 => kind = "profile") /\ Drawn(table, step)
  BY DEF Init
<1>2. PICK n \in 0..(MaxRows - 1) : table \in [1..n -> {SyncRow(r) : r \in Stored}]
  BY <1>1 DEF Tables
<1>4. n \in Nat /\ n <= MaxRows
  BY BoundsAssumption
<1>3. /\ rows \in Seq(Row) /\ Len(rows) = n /\ Len(table) = n
      /\ \A i \in 1..n : FitsCatalogue(rows[i]) /\ rows[i].index = step * (i - 1)
  <2>1. \A i \in 1..n : table[i] \in {SyncRow(r) : r \in Stored}
    BY <1>2
  <2>2. table \in [1..n -> Row] /\ \A i \in 1..n : FitsCatalogue(table[i])
    BY <1>2, <2>1, StoredSpec
  <2>3. rows = Numbered(table, step)
    BY <1>1 DEF Drawn
  <2> QED BY <1>1, <1>4, <2>2, <2>3, NumberedSpec
<1>5. gaps = (step > 1 /\ n > 1) /\ gaps \in BOOLEAN
  BY <1>1, <1>3 DEF Drawn
<1>6. ASSUME kind = "listing"
      PROVE  nextIndex = n
  <2>1. step = 1 /\ nextIndex = NextRequirement(rows)
    BY <1>1, <1>6 DEF Drawn
  <2>2. HighestIndex(rows) = 0..n
    <3>1. \A i \in 1..n : rows[i].index + 1 = i
      BY <1>3, <2>1
    <3>2. {rows[i].index + 1 : i \in 1..n} = 1..n
      BY <3>1
    <3> QED BY <1>3, <1>4, <3>2 DEF HighestIndex
  <2>3. \A m \in 0..n : (\A k \in 0..n : k <= m) => m = n
    BY <1>4
  <2>4. n \in 0..n /\ \A k \in 0..n : k <= n
    BY <1>4
  <2>5. nextIndex \in 0..n /\ \A k \in 0..n : k <= nextIndex
    BY <2>1, <2>2, <2>4 DEF NextRequirement
  <2> QED BY <2>3, <2>5
<1>7. ASSUME kind # "listing"
      PROVE  nextIndex = n
  BY <1>1, <1>3, <1>7 DEF Drawn, NextResult
<1>8. nextIndex = n
  BY <1>6, <1>7
<1>9. ASSUME kind = "listing" \/ ~gaps
      PROVE  Apart(rows) /\ Below(rows, nextIndex)
  <2>1. step = 1 \/ n <= 1
    <3>1. CASE kind = "listing"
      BY <1>1, <3>1
    <3>2. CASE ~gaps
      <4>1. ~(step > 1 /\ n > 1)
        BY <1>5, <3>2
      <4> QED BY <1>1, <1>4, <4>1
    <3> QED BY <1>9, <3>1, <3>2
  <2>2. \A i \in 1..n : rows[i].index = i - 1
    BY <1>3, <1>4, <2>1
  <2> QED BY <1>3, <1>4, <1>8, <2>2 DEF Apart, Below
<1>10. kind \in {"listing", "profile"}
  BY DEF Init
<1>11. warned = (kind = "profile" /\ HasDuplicate(rows))
  BY <1>1 DEF Drawn
<1>12. SummaryInv
  <2>1. warned \in BOOLEAN
    BY <1>11
  <2>2. HasDuplicate(rows) \in BOOLEAN
    BY DEF HasDuplicate
  <2>3. kind = "profile" => warned = HasDuplicate(rows)
    BY <1>11, <2>2
  <2> QED BY <2>1, <2>3 DEF SummaryInv
<1> QED BY <1>3, <1>4, <1>5, <1>8, <1>9, <1>10, <1>12 DEF RowsInv

LEMMA InitRest ==
  ASSUME Init
  PROVE  NoticeInv /\ SaveInv
<1>1. 0 \in 0..MaxEdits /\ 0 \in 0..0
  BY BoundsAssumption
<1>2. /\ edits = 0 /\ due = FALSE /\ asked = 0 /\ inFlight = {} /\ shown = 0 /\ refused = 0
      /\ page = "open" /\ submitting = FALSE /\ busy = FALSE /\ label = "answer"
      /\ posts = 0
  BY DEF Init
<1>3. NoticeInv
  BY <1>1, <1>2 DEF NoticeInv, NoticeIsCurrent
<1>4. SaveInv
  <2>1. {submitting, busy} \subseteq BOOLEAN
    BY <1>2
  <2>2. posts \in 0..1
    BY <1>2
  <2> QED BY <1>2, <2>1, <2>2 DEF SaveInv, BusyIsSaid
<1> QED BY <1>3, <1>4

-----------------------------------------------------------------------------
(***************************************************************************)
(* The steps, on the rows                                                  *)
(***************************************************************************)

\* A choice of a row leaves a row with its index.
LEMMA ChoiceType ==
  ASSUME RowsInv, NEW i \in 1..Len(rows), ChooseInRow(i)
  PROVE  \E row \in Row : row.index = rows[i].index /\ Choose(i, row)
<1>1. rows[i] \in Row
  BY ElementOfSeq DEF RowsInv
<1>2. rows[i].qualification \in Qualifications \cup {""}
  BY <1>1 DEF Row
<1>3. CASE \E q \in Qualifications : Choose(i, [rows[i] EXCEPT !.qualification = q])
  <2>1. PICK q \in Qualifications : Choose(i, [rows[i] EXCEPT !.qualification = q])
    BY <1>3
  <2>2. [rows[i] EXCEPT !.qualification = q] \in Row
        /\ [rows[i] EXCEPT !.qualification = q].index = rows[i].index
    BY <1>1 DEF Row
  <2> QED BY <2>1, <2>2
<1>4. CASE \E s \in SubjectsFor(rows[i].qualification) :
             Choose(i, [rows[i] EXCEPT !.subject = s])
  <2>1. PICK s \in SubjectsFor(rows[i].qualification) :
          Choose(i, [rows[i] EXCEPT !.subject = s])
    BY <1>4
  <2>2. s \in Subjects
    BY <1>2, OfferedTypes
  <2>3. [rows[i] EXCEPT !.subject = s] \in Row
        /\ [rows[i] EXCEPT !.subject = s].index = rows[i].index
    BY <1>1, <2>2 DEF Row
  <2> QED BY <2>1, <2>3
<1>5. CASE \E g \in ScaleFor(rows[i].qualification, rows[i].subject) :
             Choose(i, [rows[i] EXCEPT !.grade = g])
  <2>1. PICK g \in ScaleFor(rows[i].qualification, rows[i].subject) :
          Choose(i, [rows[i] EXCEPT !.grade = g])
    BY <1>5
  <2>2. g \in Grades
    BY <1>2, OfferedTypes
  <2>3. [rows[i] EXCEPT !.grade = g] \in Row
        /\ [rows[i] EXCEPT !.grade = g].index = rows[i].index
    BY <1>1, <2>2 DEF Row
  <2> QED BY <2>1, <2>3
<1> QED BY <1>3, <1>4, <1>5 DEF ChooseInRow

LEMMA RowsStep ==
  ASSUME RowsInv, [Next]_vars
  PROVE  RowsInv'
<1>1. CASE AddRequirement \/ AddResult
  BY <1>1, AddRow DEF AddRequirement, AddResult, Edit
<1>2. CASE \E i \in 1..Len(rows) : RemoveRow(i)
  BY <1>2, DropRow DEF RemoveRow, Edit
<1>3. CASE \E i \in 1..Len(rows) : ChooseInRow(i)
  BY <1>3, ChoiceType, ChooseInTable
<1>4. CASE UNCHANGED <<kind, rows, nextIndex, gaps>>
  BY <1>4, RowsFrame
<1> QED BY <1>1, <1>2, <1>3, <1>4
  DEF Next, AskImpact, ShowImpact, NoImpact, TypeField, Edit, PressSave, StopLoading,
      Leave, PageShow, vars, rowVars

LEMMA SummaryFollows ==
  ASSUME RefreshSummary(rows'), UNCHANGED kind
  PROVE  SummaryInv'
<1>1. warned' = (kind = "profile" /\ HasDuplicate(rows'))
  BY DEF RefreshSummary
<1>2. warned' \in BOOLEAN
  BY <1>1
<1>3. HasDuplicate(rows') \in BOOLEAN
  BY DEF HasDuplicate
<1>4. kind = "profile" => warned' = HasDuplicate(rows')
  BY <1>1, <1>3
<1>5. HasDuplicate(rows') = HasDuplicate(rows)'
  BY DEF HasDuplicate
<1> QED BY <1>2, <1>4, <1>5 DEF SummaryInv

LEMMA SummaryStep ==
  ASSUME SummaryInv, [Next]_vars
  PROVE  SummaryInv'
<1>1. CASE AddResult \/ \E i \in 1..Len(rows) : RemoveRow(i) \/ ChooseInRow(i)
  <2>1. RefreshSummary(rows') /\ UNCHANGED kind
    BY <1>1 DEF AddResult, RemoveRow, ChooseInRow, Choose, Edit
  <2> QED BY <2>1, SummaryFollows
<1>2. CASE AddRequirement
  <2>1. kind = "listing" /\ UNCHANGED <<kind, warned>>
    BY <1>2 DEF AddRequirement, Edit
  <2> QED BY <2>1 DEF SummaryInv
<1>3. CASE UNCHANGED <<kind, rows, warned>>
  BY <1>3 DEF SummaryInv, HasDuplicate
<1> QED BY <1>1, <1>2, <1>3
  DEF Next, AskImpact, ShowImpact, NoImpact, TypeField, Edit, PressSave, StopLoading,
      Leave, PageShow, vars, rowVars

\* No row can overwrite another when the form is read.
THEOREM RowsStayApart == Spec => []RowsPostApart
<1>1. Init => RowsInv
  BY InitRows
<1>2. RowsInv => RowsPostApart
  BY DEF RowsInv, Apart, RowsPostApart
<1> QED BY <1>1, <1>2, RowsStep, PTL DEF Spec

\* Through any choices, in any catalogue, rows hold what the catalogue offers.
THEOREM RowsKeepToTheCatalogue == Spec => []RowsFitTheCatalogue
<1>1. Init => RowsInv
  BY InitRows
<1>2. RowsInv => RowsFitTheCatalogue
  BY DEF RowsInv, FitsCatalogue, RowsFitTheCatalogue
<1> QED BY <1>1, <1>2, RowsStep, PTL DEF Spec

\* The profile page says that a subject is listed twice exactly while it is.
THEOREM SummaryIsTrue == Spec => []DuplicatesAreSaid
<1>1. Init => SummaryInv
  BY InitRows
<1>2. SummaryInv => DuplicatesAreSaid
  BY DEF SummaryInv, DuplicatesAreSaid
<1> QED BY <1>1, <1>2, SummaryStep, PTL DEF Spec

-----------------------------------------------------------------------------
(***************************************************************************)
(* The steps, on the notice and the button                                 *)
(***************************************************************************)

LEMMA EditNotice ==
  ASSUME NoticeInv, Editable, Edit
  PROVE  NoticeInv'
<1>1. /\ edits \in Nat /\ edits < MaxEdits /\ edits' = edits + 1 /\ MaxEdits \in Nat
      /\ due' = (kind = "listing")
      /\ UNCHANGED <<kind, asked, inFlight, shown, refused>>
  BY BoundsAssumption DEF NoticeInv, Editable, Edit, Schedule
<1>2. edits' \in 0..MaxEdits
  BY <1>1
<1>3. asked' \in 0..edits' /\ asked' < edits' /\ shown' \in 0..edits' /\ refused' \in 0..asked'
  BY <1>1 DEF NoticeInv
<1>4. due' \in BOOLEAN /\ ~(kind' = "listing" /\ ~due')
  BY <1>1
<1>5. inFlight' \subseteq [sequence : 1..asked', about : 0..edits']
  <2>1. 0..edits \subseteq 0..edits'
    BY <1>1
  <2>2. \A ask \in inFlight : ask \in [sequence : 1..asked, about : 0..edits']
    BY <2>1 DEF NoticeInv
  <2> QED BY <1>1, <2>2
<1> QED BY <1>2, <1>3, <1>4, <1>5 DEF NoticeInv, NoticeIsCurrent

LEMMA AskNotice ==
  ASSUME NoticeInv, AskImpact
  PROVE  NoticeInv'
<1> DEFINE question == [sequence |-> asked + 1, about |-> edits]
<1>1. /\ due /\ due' = FALSE /\ asked' = asked + 1 /\ inFlight' = inFlight \cup {question}
      /\ UNCHANGED <<kind, edits, shown, refused>>
  BY DEF AskImpact
<1>2. edits \in Nat /\ asked \in Nat /\ asked < edits /\ shown \in 0..edits
      /\ refused \in 0..asked /\ edits \in 0..MaxEdits
  BY <1>1, BoundsAssumption DEF NoticeInv
<1>3. asked' \in 0..edits' /\ refused' \in 0..asked'
  BY <1>1, <1>2
<1>4. /\ question \in [sequence : 1..asked', about : 0..edits]
      /\ question.sequence = asked' /\ question.about = edits
  BY <1>1, <1>2
<1> HIDE DEF question
<1>5. \A ask \in inFlight : ask \in [sequence : 1..asked', about : 0..edits]
                            /\ ask.sequence \in 1..asked
  <2>1. 1..asked \subseteq 1..asked'
    BY <1>1, <1>2
  <2> QED BY <2>1 DEF NoticeInv
<1>6. inFlight' \subseteq [sequence : 1..asked', about : 0..edits']
  BY <1>1, <1>4, <1>5
<1>7. \A ask \in inFlight' : Current(ask)' => ask.about = edits
  <2>1. \A ask \in inFlight : ask.sequence # asked'
    BY <1>1, <1>2, <1>5
  <2> QED BY <1>1, <1>4, <2>1 DEF Current
<1>8. ~(\A ask \in inFlight' : ask.sequence # asked')
  BY <1>1, <1>4
<1>9. NoticeIsCurrent'
  BY <1>8 DEF NoticeIsCurrent, Current
<1> QED BY <1>1, <1>2, <1>3, <1>6, <1>7, <1>9 DEF NoticeInv, Current

LEMMA ShowNotice ==
  ASSUME NoticeInv, NEW ask \in inFlight, ShowImpact(ask)
  PROVE  NoticeInv'
<1>1. /\ inFlight' = inFlight \ {ask}
      /\ shown' = IF Current(ask) THEN ask.about ELSE shown
      /\ UNCHANGED <<kind, edits, due, asked, refused>>
  BY DEF ShowImpact
<1>2. ask \in [sequence : 1..asked, about : 0..edits] /\ shown \in 0..edits
  BY DEF NoticeInv
<1>3. shown' \in 0..edits
  BY <1>1, <1>2
<1>4. ASSUME kind = "listing", ~due, asked = 0 \/ refused # asked,
             \A other \in inFlight' : ~Current(other)
      PROVE  shown' = edits
  <2>1. CASE Current(ask)
    BY <1>1, <1>4, <2>1 DEF NoticeInv
  <2>2. CASE ~Current(ask)
    <3>1. \A other \in inFlight : ~Current(other)
      BY <1>1, <1>4, <2>2
    <3> QED BY <1>1, <1>4, <2>2, <3>1 DEF NoticeInv, NoticeIsCurrent
  <2> QED BY <2>1, <2>2
<1>5. NoticeIsCurrent'
  BY <1>1, <1>4 DEF NoticeIsCurrent, Current
<1> QED BY <1>1, <1>3, <1>5 DEF NoticeInv, Current

LEMMA RefuseNotice ==
  ASSUME NoticeInv, NEW ask \in inFlight, NoImpact(ask)
  PROVE  NoticeInv'
<1>1. /\ inFlight' = inFlight \ {ask}
      /\ refused' = IF ask.sequence > refused THEN ask.sequence ELSE refused
      /\ UNCHANGED <<kind, edits, due, asked, shown>>
  BY DEF NoImpact
<1>2. ask.sequence \in 1..asked /\ asked \in Nat /\ refused \in 0..asked
  BY DEF NoticeInv
<1>3. refused' \in 0..asked
  BY <1>1, <1>2
<1>4. ASSUME kind = "listing", ~due, asked = 0 \/ refused' # asked,
             \A other \in inFlight' : ~Current(other)
      PROVE  shown = edits
  <2>1. ask.sequence # asked /\ refused # asked
    BY <1>1, <1>2, <1>4
  <2>2. \A other \in inFlight : ~Current(other)
    BY <1>1, <1>4, <2>1 DEF Current
  <2> QED BY <1>4, <2>1, <2>2 DEF NoticeInv, NoticeIsCurrent
<1>5. NoticeIsCurrent'
  BY <1>1, <1>4 DEF NoticeIsCurrent, Current
<1> QED BY <1>1, <1>3, <1>5 DEF NoticeInv, Current

LEMMA LeaveNotice ==
  ASSUME NoticeInv, Leave
  PROVE  NoticeInv'
<1>1. /\ inFlight' = {}
      /\ refused' = IF \E ask \in inFlight : Current(ask) THEN asked ELSE refused
      /\ UNCHANGED <<kind, edits, due, asked, shown>>
  BY DEF Leave
<1>2. asked \in Nat /\ refused' \in 0..asked
  BY <1>1 DEF NoticeInv
<1>3. ASSUME kind = "listing", ~due, asked = 0 \/ refused' # asked
      PROVE  shown = edits
  <2>1. \A ask \in inFlight : ask.sequence \in 1..asked
    BY DEF NoticeInv
  <2>2. ~\E ask \in inFlight : Current(ask)
    <3>1. CASE asked = 0
      BY <2>1, <3>1
    <3>2. CASE refused' # asked
      BY <1>1, <3>2
    <3> QED BY <1>3, <3>1, <3>2
  <2>3. refused' = refused
    BY <1>1, <2>2
  <2> QED BY <1>3, <2>2, <2>3 DEF NoticeInv, NoticeIsCurrent
<1>4. NoticeIsCurrent'
  BY <1>1, <1>3 DEF NoticeIsCurrent
<1> QED BY <1>1, <1>2, <1>4 DEF NoticeInv

LEMMA NoticeStep ==
  ASSUME NoticeInv, [Next]_vars
  PROVE  NoticeInv'
<1>1. CASE Editable /\ Edit
  BY <1>1, EditNotice
<1>2. CASE UNCHANGED <<kind, edits, noticeVars>>
  BY <1>2 DEF NoticeInv, NoticeIsCurrent, Current, noticeVars
<1> QED BY <1>1, <1>2, AskNotice, ShowNotice, RefuseNotice, LeaveNotice
  DEF Next, TypeField, AddRequirement, AddResult, RemoveRow, ChooseInRow, Choose,
      PressSave, StopLoading, PageShow, vars

LEMMA SaveStep ==
  ASSUME SaveInv, [Next]_vars
  PROVE  SaveInv'
<1>1. CASE UNCHANGED buttonVars
  BY <1>1 DEF SaveInv, BusyIsSaid, buttonVars
<1>2. CASE \E ask \in inFlight : ShowImpact(ask)
  BY <1>2 DEF ShowImpact, SaveInv, BusyIsSaid
<1>3. CASE PressSave
  <2>1. posts = 0 /\ posts' = 1 /\ posts' \in 0..1
    BY <1>3 DEF PressSave, SaveInv
  <2>2. {submitting', busy'} \subseteq BOOLEAN
    BY <1>3 DEF PressSave, MarkBusy
  <2> QED BY <1>3, <2>1, <2>2 DEF PressSave, MarkBusy, SaveInv, BusyIsSaid
<1>4. CASE StopLoading \/ Leave
  BY <1>4 DEF StopLoading, Leave, SaveInv, BusyIsSaid
<1>5. CASE PageShow
  <2>1. submitting' = FALSE /\ busy' = FALSE /\ posts' = 0
    BY <1>5 DEF PageShow, ClearBusy
  <2>2. {submitting', busy'} \subseteq BOOLEAN
    BY <2>1
  <2>3. posts' \in 0..1
    BY <2>1
  <2> QED BY <1>5, <2>1, <2>2, <2>3 DEF PageShow, ClearBusy, SaveInv, BusyIsSaid
<1> QED BY <1>1, <1>2, <1>3, <1>4, <1>5
  DEF Next, AskImpact, NoImpact, TypeField, AddRequirement, AddResult, RemoveRow,
      ChooseInRow, Choose, Edit, vars

-----------------------------------------------------------------------------
(***************************************************************************)
(* The theorems                                                            *)
(***************************************************************************)

\* With no question left open, the notice is about the form as it stands, unless
\* the last question had no answer.
THEOREM NoticeKeepsUp == Spec => []NoticeIsCurrent
<1>1. NoticeInv => NoticeIsCurrent
  BY DEF NoticeInv
<1> QED BY <1>1, InitRest, NoticeStep, PTL DEF Spec

\* However often it is pressed, stopped and pressed again, a page saves once.
THEOREM SavesOnce == Spec => []SavedOnce
<1>1. SaveInv => SavedOnce
  BY DEF SaveInv, SavedOnce
<1> QED BY <1>1, InitRest, SaveStep, PTL DEF Spec

\* Whatever answers arrive, a busy button says that it is.
THEOREM BusyStaysSaid == Spec => []BusyIsSaid
<1>1. SaveInv => BusyIsSaid
  BY DEF SaveInv
<1> QED BY <1>1, InitRest, SaveStep, PTL DEF Spec

\* The table, the notice and the button keep their types and bounds.
THEOREM TypeCorrect == Spec => []TypeOK
<1>1. ASSUME RowsInv, SummaryInv, NoticeInv, SaveInv
      PROVE  TypeOK
  <2>1. {gaps, warned, due, submitting, busy} \subseteq BOOLEAN
    BY <1>1 DEF RowsInv, SummaryInv, NoticeInv, SaveInv
  <2>2. edits \in 0..MaxEdits /\ asked \in 0..edits /\ MaxEdits \in Nat
    BY <1>1, BoundsAssumption DEF NoticeInv
  <2>3. 1..asked \subseteq 1..MaxEdits /\ 0..edits \subseteq 0..MaxEdits
        /\ asked \in 0..MaxEdits
    BY <2>2
  <2>4. \A ask \in inFlight : ask \in [sequence : 1..MaxEdits, about : 0..MaxEdits]
    BY <1>1, <2>3 DEF NoticeInv
  <2>5. posts \in 0..2
    BY <1>1 DEF SaveInv
  <2> QED BY <1>1, <2>1, <2>3, <2>4, <2>5
    DEF RowsInv, SummaryInv, NoticeInv, SaveInv, TypeOK
<1> QED BY <1>1, InitRows, InitRest, RowsStep, SummaryStep, NoticeStep, SaveStep, PTL
  DEF Spec
=============================================================================
