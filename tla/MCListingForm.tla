---------------------------- MODULE MCListingForm ----------------------------
(* A programme of one level, a field and an institution of another.         *)
EXTENDS ListingForm

Choices == {"accounting", "health", "college"}

PickerOfChoice ==
  [b \in Choices |-> CASE b = "accounting" -> "programmes"
                       [] b = "health" -> "fields"
                       [] b = "college" -> "institutions"]

LevelOfChoice ==
  [b \in Choices |-> IF b = "accounting" THEN "DIPLOMA" ELSE "UNDERGRADUATE"]
=============================================================================
