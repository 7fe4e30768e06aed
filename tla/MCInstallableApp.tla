-------------------------- MODULE MCInstallableApp --------------------------
(***************************************************************************)
(* A device with one file under /assets/, the theme, which the precache    *)
(* lists and the fingerprint covers.  The bundle under /build/ is in the   *)
(* fingerprint by its URL: a release may change it alone, and the version  *)
(* with it.  The offline page, which only a failed navigation asks for, is *)
(* left out of the list.                                                   *)
(***************************************************************************)
EXTENDS InstallableApp

CONSTANTS theme, bundle

MCPrecacheList == <<theme>>
=============================================================================
