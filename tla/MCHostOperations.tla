-------------------------- MODULE MCHostOperations --------------------------
(***************************************************************************)
(* TLC instances of HostOperations.                                        *)
(***************************************************************************)
EXTENDS HostOperations

MCDeclared == [o \in Ops |-> Inputs]

=============================================================================
