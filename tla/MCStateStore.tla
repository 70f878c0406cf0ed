---------------------------- MODULE MCStateStore ----------------------------
(***************************************************************************)
(* TLC instance of StateStore.  The reducer tells apart the order of the   *)
(* mutations.  With a journal of two, versions up to three and five        *)
(* changes, a consumer falls behind the journal, and the version rolls     *)
(* over while events of the old generation are pending.                    *)
(***************************************************************************)
EXTENDS StateStore

MCReduce(v, m) == (3 * v + m) % 16
MCValues == 0 .. 15

=============================================================================
