----------------------------- MODULE MCFormPage -----------------------------
(* Two boards whose scales share a grade, and a subject with its own.      *)
EXTENDS FormPage

Boards == {"olevel", "alevel"}
BoardSubjects == [q \in Boards |-> IF q = "olevel" THEN {"maths", "igcse"} ELSE {"physics"}]
BoardGrades == [q \in Boards |-> IF q = "olevel" THEN {"A", "C"} ELSE {"A"}]
SubjectGrades == [s \in {"igcse"} |-> {"9"}]
=============================================================================
