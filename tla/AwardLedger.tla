----------------------------- MODULE AwardLedger -----------------------------
(***************************************************************************)
(* What the platform promises about the awards of one listing, with no     *)
(* requests, locks, files or stale copies: every step here is atomic.      *)
(*                                                                         *)
(*   - an application is made, or made again after a withdrawal, only      *)
(*     while the listing is open and still has an award to give;           *)
(*   - a pending application is withdrawn, accepted or rejected, once;     *)
(*   - an application is accepted only while an award is left, and the     *)
(*     acceptance that takes the last one closes the listing with it;      *)
(*   - whether the listing is open, and how many awards it has, is         *)
(*     otherwise the provider's and the moderators' business.              *)
(*                                                                         *)
(* ApplicationWorkflow implements it (ImplementsAwardLedger).              *)
(***************************************************************************)
EXTENDS Statuses, Naturals, FiniteSets

CONSTANT Students

VARIABLES
  standing,  \* where each student's application stands
  seats,     \* awards the listing can grant, 0 when it caps none
  open       \* the listing is published and takes applications

vars == <<standing, seats, open>>

Granted == {s \in Students : standing[s] = "ACCEPTED"}

SeatLeft == seats = 0 \/ Cardinality(Granted) < seats

LastSeat == seats # 0 /\ Cardinality(Granted) + 1 = seats

Init ==
  /\ standing = [s \in Students |-> "NONE"]
  /\ seats \in Nat
  /\ open \in BOOLEAN

Apply(s) ==
  /\ standing[s] \in {"NONE", "WITHDRAWN"}
  /\ open
  /\ SeatLeft
  /\ standing' = [standing EXCEPT ![s] = "PENDING"]
  /\ UNCHANGED <<seats, open>>

Withdraw(s) ==
  /\ standing[s] = "PENDING"
  /\ standing' = [standing EXCEPT ![s] = "WITHDRAWN"]
  /\ UNCHANGED <<seats, open>>

Accept(s) ==
  /\ standing[s] = "PENDING"
  /\ SeatLeft
  /\ standing' = [standing EXCEPT ![s] = "ACCEPTED"]
  /\ open' = (open /\ ~LastSeat)
  /\ UNCHANGED seats

Reject(s) ==
  /\ standing[s] = "PENDING"
  /\ standing' = [standing EXCEPT ![s] = "REJECTED"]
  /\ UNCHANGED <<seats, open>>

\* Publishing, closing, editing, moderating the listing.
Relist ==
  /\ open' \in BOOLEAN
  /\ seats' \in Nat
  /\ UNCHANGED standing

Next ==
  \/ \E s \in Students : Apply(s) \/ Withdraw(s) \/ Accept(s) \/ Reject(s)
  \/ Relist

Spec == Init /\ [][Next]_vars
==============================================================================
