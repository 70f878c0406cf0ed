---------------------------- MODULE MCControlPlane ----------------------------
(* Small instances of ControlPlane for TLC.                                *)
EXTENDS ControlPlane
=============================================================================
