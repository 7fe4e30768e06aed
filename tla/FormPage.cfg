SPECIFICATION FairSpec
CONSTANTS
  Qualifications <- Boards
  SubjectsOf <- BoardSubjects
  GradesOf <- BoardGrades
  OwnGrades <- SubjectGrades
  MaxRows = 3
  MaxEdits = 3
INVARIANTS
  RowsPostApart
  RowsFitTheCatalogue
  NoticeIsCurrent
  SavedOnce
  BusyIsSaid
PROPERTIES
  NoticeSettles
