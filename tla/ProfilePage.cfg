SPECIFICATION Spec
CONSTANTS
  Documents = {"transcript", "certificate"}
  Genders <- PageGenders
  MaxEdits = 2
  MaxUploads = 2
INVARIANTS
  GuardianFollows
  CalmUploadIsNeverLost
PROPERTIES
  SavedIsShown
  EntriesComeBack
