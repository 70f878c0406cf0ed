--------------------------- MODULE MCRepositories ---------------------------
(***************************************************************************)
(* One repository with a branch and a tag: the branch asks for approval,   *)
(* the tag is published at once or denied, or nothing is configured.       *)
(***************************************************************************)
EXTENDS Repositories

MCConfigs ==
    {[main |-> "require-approval", tag |-> "allow"], [main |-> "allow", tag |-> "deny"], Gone}
=============================================================================
