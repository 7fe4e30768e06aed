------------------------ MODULE MCApplicationWorkflow ------------------------
(***************************************************************************)
(* Small instances of ApplicationWorkflow for TLC.  Each .cfg chooses the  *)
(* kinds of request that arrive, and with them the question that it asks.  *)
(***************************************************************************)
EXTENDS ApplicationWorkflow, TLC

\* Students, workers and paths are interchangeable in every run that checks
\* no liveness property.
Symmetry == Permutations(Students) \cup Permutations(Workers) \cup Permutations(Files)

\* Applicants and reviewers of one listing, and the deadline it may be given.
DecisionOps == {"submit", "decide", "withdraw"}

\* Applicants bringing files, and repairing the ones that were lost, while
\* providers open applications that come and go, and every other writer of the
\* listing is at work.
FileOps ==
  {"submit", "withdraw", "repair", "view"}
    \cup {"decide", "extend", "edit", "unlist", "archive", "moderate"}

\* The counterexample run: just the requests it takes.
ExtendOps == {"submit", "decide", "extend"}
==============================================================================
