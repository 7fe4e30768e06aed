------------------------ MODULE MCListingLifecycle ------------------------
(***************************************************************************)
(* Instances of ListingLifecycle for TLC.  Each configuration names the    *)
(* kinds of request that arrive and bounds versions and faults.            *)
(***************************************************************************)
EXTENDS ListingLifecycle, TLC

DraftOps == {"save", "submit", "discard"}
ReviewOps == {"edit", "look", "moderate", "confirm", "unpublish"}
DeskOps == ReviewOps \cup {"report", "uphold"}
SerialOps == DraftOps \cup DeskOps

CheckRaceOps == {"edit", "look", "confirm", "unpublish", "report", "uphold"}
RaceOps == DraftOps \cup {"edit", "look", "report", "dismiss", "uphold"}

\* Students, administrators and workers are interchangeable.
Symmetric ==
  Permutations(Students) \cup Permutations(Workers) \cup Permutations(Admins)
===========================================================================
