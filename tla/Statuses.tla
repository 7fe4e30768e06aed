------------------------------- MODULE Statuses -------------------------------
(***************************************************************************)
(* The vocabulary of the system: the states an application and a listing   *)
(* can be in, and the tables that say which moves are legal.  No state.    *)
(* app/Support/ApplicationStateMachine.php and OpportunityLifecycle.php.   *)
(***************************************************************************)

\* "NONE" is a student with no row in the applications table.
ApplicationStatus == {"NONE", "PENDING", "ACCEPTED", "REJECTED", "WITHDRAWN"}

DECISIONS == {"ACCEPTED", "REJECTED"}

\* ApplicationStateMachine::MOVES, per actor, as sets of <<from, to>>.
MOVES == [provider  |-> {<<"PENDING", "ACCEPTED">>, <<"PENDING", "REJECTED">>},
          applicant |-> {<<"PENDING", "WITHDRAWN">>, <<"WITHDRAWN", "PENDING">>}]

canTransition(from, to, actor) == <<from, to>> \in MOVES[actor]

\* A first application, or one the applicant withdrew: everything else blocks.
allowsReapplication(status) == status \in {"NONE", "WITHDRAWN"}

-----------------------------------------------------------------------------

PublicationStatus == {"ACTIVE", "CLOSED", "WITHDRAWN"}

ModerationStatus == {"DRAFT", "PENDING", "APPROVED", "REJECTED"}

\* Nothing leaves WITHDRAWN.
PUBLICATION_TRANSITIONS ==
  {<<"ACTIVE", "CLOSED">>, <<"ACTIVE", "WITHDRAWN">>,
   <<"CLOSED", "ACTIVE">>, <<"CLOSED", "WITHDRAWN">>}

\* Nothing becomes a draft, and a verdict is reached from PENDING alone.
MODERATION_TRANSITIONS ==
  {<<"DRAFT", "PENDING">>, <<"PENDING", "APPROVED">>, <<"PENDING", "REJECTED">>,
   <<"APPROVED", "PENDING">>, <<"REJECTED", "PENDING">>}

\* A deadline is abstracted to how Deadlines::today() reads it: a rolling
\* listing has none, a date of today or later is still ahead.
Deadline == {"rolling", "ahead", "passed"}
===============================================================================
