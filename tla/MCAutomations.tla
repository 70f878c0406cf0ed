--------------------------- MODULE MCAutomations ---------------------------
(* Two executions: an agent step that may fail, without a timeout; an approval and *)
(* then a command, with one.                                                       *)
EXTENDS Automations

Agent == [kind |-> "agent", continue_on_error |-> TRUE]
Approval == [kind |-> "approval", continue_on_error |-> FALSE]
Command == [kind |-> "command", continue_on_error |-> FALSE]

TwoDefinitions == << <<Agent>>, <<Approval, Command>> >>
OneAgent == << <<Agent>> >>
OneApproval == << <<Approval>> >>

=============================================================================
