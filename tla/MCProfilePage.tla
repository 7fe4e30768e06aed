---------------------------- MODULE MCProfilePage ----------------------------
(* The radios of the page.                                                 *)
EXTENDS ProfilePage

PageGenders == <<"MALE", "FEMALE">>
=============================================================================
