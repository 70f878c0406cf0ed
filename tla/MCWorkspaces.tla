---------------------------- MODULE MCWorkspaces ----------------------------
(***************************************************************************)
(* TLC instances of Workspaces.                                            *)
(***************************************************************************)
EXTENDS Workspaces

=============================================================================
