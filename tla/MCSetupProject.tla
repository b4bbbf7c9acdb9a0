------------------------------ MODULE MCSetupProject ------------------------------
(***************************************************************************)
(* Two requests about one folder, with or without a package, and as many   *)
(* actions as the plan of a project with packages takes, or one less.      *)
(***************************************************************************)
EXTENDS SetupProject

=============================================================================
