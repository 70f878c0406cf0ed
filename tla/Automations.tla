---------------------------- MODULE Automations ----------------------------
(***************************************************************************)
(* Automation executions of the host daemon (tascarrel-hostd,              *)
(* services/automations).  A dispatcher admits scheduled occurrences, ends *)
(* executions that waited too long and claims queued ones; one task per    *)
(* claimed execution runs its steps; calls start, cancel and approve.      *)
(* Executions live in a locked map, are written through to one record      *)
(* each, and are reconciled when the daemon starts again.                  *)
(*                                                                         *)
(* An action is what happens between two awaits.  Executions are numbered  *)
(* in the order of their admission.  They belong to one automation, whose  *)
(* file may change between admissions, so that each has its own steps.     *)
(* notify_waiters only shortens the wait for the dispatcher's ticker, so a *)
(* dispatch pass may begin at any time.  Pods, processes, chats and output *)
(* lines are left out of the record; a guest call or an output append that *)
(* fails is a failure of the step or of the task.  A write that fails      *)
(* leaves the old record on disk, and the new one in memory.               *)
(***************************************************************************)
EXTENDS Naturals, Sequences, FiniteSets

CONSTANTS
    N,            \* bound: executions admitted
    Steps,        \* the captured definition: its steps, with kind and continue_on_error
    Timeouts,     \* executions whose definition has timeout_seconds
    Limit,        \* max_concurrent
    MaxCancels,   \* bound: calls of cancel
    MaxTroubles   \* bound: failed writes, dropped calls and crashes, together

Executions == 1 .. N

ASSUME AutomationsAssumption ==
    /\ N \in Nat /\ Limit \in Nat \ {0} /\ {MaxCancels, MaxTroubles} \subseteq Nat
    /\ Timeouts \subseteq Executions
    /\ Steps \in [Executions -> Seq([kind : {"command", "agent", "approval"},
                                     continue_on_error : BOOLEAN])]

VARIABLES
    executions,   \* the executions map
    disk,         \* the stored records
    running,      \* the running map: "none", "quiet", or "cancel" once it is signalled
    task,         \* the spawned task of an execution: where it awaits, and its step
    late,         \* tasks that left the running map and have still to fail the execution
    dispatcher,   \* where run awaits, and the ids that a pass has still to expire
    signalling,   \* executions whose cancel has still to signal the running map
    clock,        \* "no", "soon": the timeout in whole seconds is over, "over": the deadline too
    effects,      \* how often the work of each step was started
    consents,     \* approvals that somebody gave
    used          \* cancels, failures (also dropped calls) and crashes so far

calls == <<signalling, consents>>
vars == <<executions, disk, running, task, late, dispatcher, signalling, clock, effects,
          consents, used>>

NoTask == [pc |-> "none", step |-> 0]
Absent == [state |-> "Absent", steps |-> << >>, cancellation_requested |-> FALSE,
           started |-> FALSE, cron |-> FALSE]
Idle == [pc |-> "select", ids |-> {}]

Init ==
    /\ executions = [e \in Executions |-> Absent]
    /\ disk = [e \in Executions |-> Absent]
    /\ running = [e \in Executions |-> "none"]
    /\ task = [e \in Executions |-> NoTask]
    /\ late = [e \in Executions |-> 0]
    /\ dispatcher = Idle
    /\ signalling = {}
    /\ clock = [e \in Executions |-> "no"]
    /\ effects = [e \in Executions |-> [i \in 1 .. Len(Steps[e]) |-> 0]]
    /\ consents = {}
    /\ used = [cancels |-> 0, failures |-> 0, crashes |-> 0]

-----------------------------------------------------------------------------
(* Execution records and how they are updated.                             *)

is_terminal(r) == r.state \in {"Succeeded", "Failed", "Canceled", "Interrupted"}

InProgress == {"Running", "WaitingForApproval", "WaitingForInput"}

\* Every step in one of the states from becomes to.
Turn(r, from, to) ==
    [r EXCEPT !.steps = [i \in DOMAIN r.steps |-> IF r.steps[i] \in from THEN to ELSE r.steps[i]]]

skip_pending_steps(r) == Turn(r, {"Pending"}, "Skipped")

cancel_execution(r) ==
    [skip_pending_steps(Turn(r, InProgress, "Canceled")) EXCEPT !.state = "Canceled"]

fail_execution(r) ==
    IF is_terminal(r) THEN r
    ELSE [skip_pending_steps(Turn(r, InProgress, "Failed")) EXCEPT !.state = "Failed"]

\* Mutant: an execution found running is queued to run its step again.
RequeuedAfterRestart(r) ==
    IF r.state \in {"Running", "WaitingForInput"}
    THEN [Turn(r, {"Running", "WaitingForInput"}, "Pending") EXCEPT !.state = "Queued"] ELSE r

reconcile_after_restart(r) ==
    IF r.state \in {"Running", "WaitingForInput"}
    THEN [skip_pending_steps(Turn(r, {"Running", "WaitingForInput"}, "Failed"))
             EXCEPT !.state = "Interrupted"]
    ELSE r

SetStep(r, i, state) == [r EXCEPT !.steps[i] = state]

Troubles == used.failures + used.crashes
NoTrouble == UNCHANGED used
Failure == Troubles < MaxTroubles /\ used' = [used EXCEPT !.failures = @ + 1]

\* write_record under the executions lock, after the map entry was changed.
Write(e, r) ==
    /\ executions' = [executions EXCEPT ![e] = r]
    /\ disk' = [disk EXCEPT ![e] = r]
    /\ NoTrouble

WriteFails(e, r) ==
    /\ executions' = [executions EXCEPT ![e] = r]
    /\ UNCHANGED disk
    /\ Failure

Goto(e, pc) == task' = [task EXCEPT ![e].pc = pc]

\* An update by the task of e, which goes on at next, or else where errors go.
update_execution(e, r, next, error) ==
    \/ Write(e, r) /\ Goto(e, next)
    \/ WriteFails(e, r) /\ Goto(e, error)

-----------------------------------------------------------------------------
(* Calls.                                                                  *)

Fresh == {e \in Executions : executions[e] = Absent /\ disk[e] = Absent}
Next_id == CHOOSE e \in Fresh : \A f \in Fresh : e <= f

Queued(e, cron) ==
    [Absent EXCEPT !.state = "Queued", !.cron = cron,
                   !.steps = [i \in 1 .. Len(Steps[e]) |-> "Pending"]]

\* The record is written before the map entry; a dropped call does only that.
start ==
    /\ Fresh # {}
    /\ disk' = [disk EXCEPT ![Next_id] = Queued(Next_id, FALSE)]
    /\ \/ NoTrouble /\ executions' = [executions EXCEPT ![Next_id] = Queued(Next_id, FALSE)]
       \/ Failure /\ UNCHANGED executions
    /\ UNCHANGED <<running, task, late, dispatcher, clock, effects, calls>>

cancel(e) ==
    LET r == [executions[e] EXCEPT !.cancellation_requested = TRUE]
        s == IF r.state \in {"Queued", "WaitingForApproval"} THEN cancel_execution(r) ELSE r
    IN  /\ executions[e] # Absent /\ ~is_terminal(r)
        /\ used.cancels < MaxCancels
        /\ executions' = [executions EXCEPT ![e] = s]
        /\ \/ /\ disk' = [disk EXCEPT ![e] = s]
              /\ signalling' = signalling \cup {e}
              /\ used' = [used EXCEPT !.cancels = @ + 1]
           \/ /\ Troubles < MaxTroubles
              /\ used' = [used EXCEPT !.cancels = @ + 1, !.failures = @ + 1]
              /\ UNCHANGED <<disk, signalling>>
        /\ UNCHANGED <<running, task, late, dispatcher, clock, effects, consents>>

\* The rest of cancel, or its end when the call is dropped at the second lock.
signal(e) ==
    /\ e \in signalling
    /\ signalling' = signalling \ {e}
    /\ \/ NoTrouble /\ running' = [running EXCEPT ![e] = IF @ = "none" THEN @ ELSE "cancel"]
       \/ Failure /\ UNCHANGED running
    /\ UNCHANGED <<executions, disk, task, late, dispatcher, clock, effects, consents>>

Waiting(e) == CHOOSE i \in DOMAIN executions[e].steps :
                 /\ executions[e].steps[i] = "WaitingForApproval"
                 /\ \A j \in 1 .. i - 1 : executions[e].steps[j] # "WaitingForApproval"

\* Mutant: a rejected approval is passed over like a step that may fail.
RejectedContinues(r, i) == [SetStep(r, i, "Failed") EXCEPT !.state = "Queued"]

Rejected(r, i) == [skip_pending_steps(SetStep(r, i, "Failed")) EXCEPT !.state = "Failed"]

resolve_approval(e, approve) ==
    LET i == Waiting(e)
        r == IF approve THEN [SetStep(executions[e], i, "Succeeded") EXCEPT !.state = "Queued"]
             ELSE Rejected(executions[e], i)
    IN  /\ executions[e].state = "WaitingForApproval"
        /\ Write(e, r) \/ WriteFails(e, r)
        /\ consents' = IF approve THEN consents \cup {<<e, i>>} ELSE consents
        /\ UNCHANGED <<running, task, late, dispatcher, signalling, clock, effects>>

-----------------------------------------------------------------------------
(* The task of an execution.                                               *)

Cancelled(e) == running[e] = "cancel"

run_execution(e) ==
    /\ task[e].pc = "start"
    /\ \/ Goto(e, "loop") /\ NoTrouble
       \/ Goto(e, "error") /\ Failure
    /\ UNCHANGED <<executions, disk, running, late, dispatcher, clock, effects, calls>>

Pending(e) == {i \in DOMAIN executions[e].steps : executions[e].steps[i] = "Pending"}

\* The head of the loop of RunningExecution::run; step 0 is to succeed.
run(e) ==
    LET r == executions[e]
        next == IF Pending(e) = {} THEN 0
                ELSE CHOOSE i \in Pending(e) : \A j \in Pending(e) : i <= j
    IN  /\ task[e].pc = "loop"
        /\ \/ Cancelled(e) /\ update_execution(e, cancel_execution(r), "leave", "error")
           \/ /\ ~Cancelled(e) /\ clock[e] = "over"
              /\ update_execution(e, fail_execution(r), "leave", "error")
           \/ /\ ~Cancelled(e) /\ clock[e] # "over" /\ NoTrouble
              /\ task' = [task EXCEPT ![e] = IF is_terminal(r) THEN [@ EXCEPT !.pc = "leave"]
                                             ELSE [pc |-> "begin", step |-> next]]
              /\ UNCHANGED <<executions, disk>>
        /\ UNCHANGED <<running, late, dispatcher, clock, effects, calls>>

\* succeed_execution, or the first update of execute_step: what the loop read may
\* have changed since.
Begin(e) ==
    LET r == executions[e]
        i == task[e].step
    IN  /\ task[e].pc = "begin"
        /\ IF i = 0 THEN update_execution(e, [r EXCEPT !.state = "Succeeded"], "leave", "error")
           ELSE update_execution(e, [SetStep(r, i, "Running") EXCEPT !.state = "Running"],
                                 "begun", "error")
        /\ UNCHANGED <<running, late, dispatcher, clock, effects, calls>>

\* The rest of execute_step: an approval ends the task, other work is started.
execute_step(e) ==
    LET i == task[e].step IN
    /\ task[e].pc = "begun"
    /\ \/ /\ Steps[e][i].kind = "approval"
          /\ update_execution(e, [SetStep(executions[e], i, "WaitingForApproval")
                                     EXCEPT !.state = "WaitingForApproval"], "leave", "error")
          /\ UNCHANGED effects
       \/ /\ Steps[e][i].kind # "approval"
          /\ Goto(e, "work") /\ NoTrouble
          /\ effects' = [effects EXCEPT ![e][i] = @ + 1]
          /\ UNCHANGED <<executions, disk>>
       \/ Goto(e, "error") /\ Failure /\ UNCHANGED <<executions, disk, effects>>
    /\ UNCHANGED <<running, late, dispatcher, clock, calls>>

\* wait_for_turn shows whether the agent waits for the user, whatever the state was.
wait_for_turn(e) ==
    LET i == task[e].step IN
    /\ task[e].pc = "work" /\ Steps[e][i].kind = "agent"
    /\ \E state \in {"WaitingForInput", "Running"} :
          /\ state # executions[e].state
          /\ update_execution(e, [SetStep(executions[e], i, state) EXCEPT !.state = state],
                              "work", "broken")
    /\ UNCHANGED <<running, late, dispatcher, clock, effects, calls>>

fail_step(r, i, continue) ==
    IF continue THEN [SetStep(r, i, "Failed") EXCEPT !.state = "Running"]
    ELSE [skip_pending_steps(SetStep(r, i, "Failed")) EXCEPT !.state = "Failed"]

\* The work and its sync end, fail, are cancelled or run into the deadline; then
\* finish_step.
finish_step(e) ==
    LET r == executions[e]
        i == task[e].step
        continue == Steps[e][i].continue_on_error
    IN  /\ task[e].pc \in {"work", "broken"}
        /\ \/ /\ task[e].pc = "work"
              /\ update_execution(e, SetStep(r, i, "Succeeded"), "loop", "error")
           \/ Cancelled(e) /\ update_execution(e, cancel_execution(r), "leave", "error")
           \/ /\ ~Cancelled(e)
              /\ update_execution(e, fail_step(r, i, continue),
                                  IF continue THEN "loop" ELSE "leave", "error")
        /\ UNCHANGED <<running, late, dispatcher, clock, effects, calls>>

\* The task leaves the running map; if it ended with an error, or could not append
\* its last output line, it fails the execution afterwards.
Leave(e) ==
    /\ task[e].pc \in {"leave", "error"}
    /\ task' = [task EXCEPT ![e] = NoTask]
    /\ running' = [running EXCEPT ![e] = "none"]
    /\ \/ task[e].pc = "leave" /\ NoTrouble /\ UNCHANGED late
       \/ task[e].pc = "leave" /\ Failure /\ late' = [late EXCEPT ![e] = @ + 1]
       \/ task[e].pc = "error" /\ NoTrouble /\ late' = [late EXCEPT ![e] = @ + 1]
    /\ UNCHANGED <<executions, disk, dispatcher, clock, effects, calls>>

FailLate(e) ==
    /\ late[e] > 0
    /\ late' = [late EXCEPT ![e] = @ - 1]
    /\ Write(e, fail_execution(executions[e])) \/ WriteFails(e, fail_execution(executions[e]))
    /\ UNCHANGED <<running, task, dispatcher, clock, effects, calls>>

TaskStep(e) ==
    \/ run_execution(e) \/ run(e) \/ Begin(e) \/ execute_step(e) \/ Leave(e) \/ FailLate(e)

\* The select in a step's work also waits for the cancellation and the deadline.
Stopped(e) == (Cancelled(e) \/ clock[e] = "over" \/ task[e].pc = "broken") /\ finish_step(e)

-----------------------------------------------------------------------------
(* The dispatcher.                                                         *)

\* Mutant: an occurrence is looked for among the executions that have not ended.
NotUnderWay == ~\E e \in Executions : executions[e].cron /\ ~is_terminal(executions[e])

\* One occurrence of the schedule is modelled: it is due at some passes.
NotAdmitted == ~\E e \in Executions : executions[e].cron

admit_schedules ==
    /\ dispatcher.pc = "select"
    /\ dispatcher' = [dispatcher EXCEPT !.pc = "expire"]
    /\ \/ UNCHANGED <<executions, disk>>
       \/ /\ NotAdmitted /\ Fresh # {}
          /\ executions' = [executions EXCEPT ![Next_id] = Queued(Next_id, TRUE)]
          /\ disk' = [disk EXCEPT ![Next_id] = Queued(Next_id, TRUE)]
    /\ UNCHANGED <<running, task, late, clock, effects, calls, used>>

Expired ==
    {e \in Executions :
        /\ executions[e].state \in {"Queued", "WaitingForApproval", "WaitingForInput"}
        /\ clock[e] # "no"}

\* The ids are collected first, and each is failed under a lock of its own; an
\* error ends the pass.
expire_waiting_executions ==
    /\ \/ /\ dispatcher.pc = "expire"
          /\ dispatcher' = IF Expired = {} THEN [pc |-> "claim", ids |-> {}]
                           ELSE [pc |-> "expiring", ids |-> Expired]
          /\ UNCHANGED <<executions, disk, used>>
       \/ /\ dispatcher.pc = "expiring"
          /\ \E e \in dispatcher.ids :
                /\ \A f \in dispatcher.ids : e <= f
                /\ \/ /\ Write(e, fail_execution(executions[e]))
                      /\ dispatcher' = IF dispatcher.ids = {e} THEN [pc |-> "claim", ids |-> {}]
                                       ELSE [dispatcher EXCEPT !.ids = @ \ {e}]
                   \/ /\ WriteFails(e, fail_execution(executions[e]))
                      /\ dispatcher' = [pc |-> "claim", ids |-> {}]
    /\ UNCHANGED <<running, task, late, clock, effects, calls>>

Active == {e \in Executions : executions[e].state \in InProgress}

\* Mutant: an execution whose task is still in the running map is forgotten when
\* that task leaves.
NeverStarted ==
    {e \in Executions : /\ executions[e].state = "Queued" /\ running[e] = "none"
                        /\ ~executions[e].cancellation_requested /\ ~executions[e].started}

\* The queued executions that nothing but the limit may keep from being claimed.
Claimable ==
    {e \in Executions : /\ executions[e].state = "Queued" /\ running[e] = "none"
                        /\ ~executions[e].cancellation_requested}

Before(e) == {f \in Claimable : f < e}

\* Mutant: executions that wait for somebody do not count.
ClaimsUnlimited ==
    {e \in Claimable :
        Cardinality({f \in Active : executions[f].state = "Running"}) + Cardinality(Before(e)) < Limit}

\* In the order of admission, each claim adds one to the count of active executions.
Claims == {e \in Claimable : Cardinality(Active) + Cardinality(Before(e)) < Limit}

ClaimedRecord(e) == [executions[e] EXCEPT !.state = "Running", !.started = TRUE]

\* claim_queued under both locks, and the spawning of the tasks.  If a write fails,
\* the executions claimed before it stay claimed and no task is spawned.
claim_queued ==
    /\ dispatcher.pc = "claim"
    /\ dispatcher' = Idle
    /\ \/ /\ executions' = [e \in Executions |-> IF e \in Claims THEN ClaimedRecord(e) ELSE executions[e]]
          /\ disk' = [e \in Executions |-> IF e \in Claims THEN ClaimedRecord(e) ELSE disk[e]]
          /\ running' = [e \in Executions |-> IF e \in Claims THEN "quiet" ELSE running[e]]
          /\ task' = [e \in Executions |-> IF e \in Claims THEN [NoTask EXCEPT !.pc = "start"] ELSE task[e]]
          /\ NoTrouble
       \/ \E bad \in Claims :
             LET before == {e \in Claims : e < bad} IN
             /\ executions' = [e \in Executions |-> IF e \in before \cup {bad} THEN ClaimedRecord(e)
                                                    ELSE executions[e]]
             /\ disk' = [e \in Executions |-> IF e \in before THEN ClaimedRecord(e) ELSE disk[e]]
             /\ running' = [e \in Executions |-> IF e \in before THEN "quiet" ELSE running[e]]
             /\ Failure
             /\ UNCHANGED task
    /\ UNCHANGED <<late, clock, effects, calls>>

DispatcherStep == admit_schedules \/ expire_waiting_executions \/ claim_queued

-----------------------------------------------------------------------------
(* Time, and the daemon's end and new start.                               *)

\* execution_timed_out compares whole seconds, execution_deadline keeps the
\* fraction: the deadline comes up to a second later.
Tick(e) ==
    /\ e \in Timeouts /\ executions[e].started
    /\ is_terminal(executions[e]) => task[e] # NoTask
    /\ clock[e] # "over"
    /\ clock' = [clock EXCEPT ![e] = IF @ = "no" THEN "soon" ELSE "over"]
    /\ UNCHANGED <<executions, disk, running, task, late, dispatcher, effects, calls, used>>

\* The daemon dies, and opens its records again.
Restart ==
    /\ Troubles < MaxTroubles /\ used' = [used EXCEPT !.crashes = @ + 1]
    /\ executions' = [e \in Executions |-> reconcile_after_restart(disk[e])]
    /\ disk' = executions'
    /\ running' = [e \in Executions |-> "none"]
    /\ task' = [e \in Executions |-> NoTask]
    /\ late' = [e \in Executions |-> 0]
    /\ dispatcher' = Idle
    /\ signalling' = {}
    /\ clock' = [e \in Executions |-> IF disk[e].started THEN clock[e] ELSE "no"]
    /\ UNCHANGED <<effects, consents>>

Next ==
    \/ start
    \/ \E e \in Executions : cancel(e) \/ signal(e) \/ Tick(e)
    \/ \E e \in Executions, approve \in BOOLEAN : resolve_approval(e, approve)
    \/ \E e \in Executions : TaskStep(e) \/ finish_step(e) \/ wait_for_turn(e)
    \/ DispatcherStep \/ Restart

Spec == Init /\ [][Next]_vars

\* Tasks are scheduled, and the ticker starts a pass every 15 seconds.  Nothing is
\* assumed of callers or of the approver, nor that a command or an agent ends.
Fairness == WF_vars(DispatcherStep) /\ \A e \in Executions : WF_vars(TaskStep(e))

FairSpec == Spec /\ Fairness

\* A cancellation goes on to signal the task, and stops the work of a step.
StopsSpec == FairSpec /\ \A e \in Executions : WF_vars(Stopped(e)) /\ WF_vars(signal(e))

-----------------------------------------------------------------------------
(* Properties.                                                             *)

\* The work of a step is started at most once, whatever fails, however often the
\* task is resumed after an approval and the daemon restarted.
StepsRunOnce == \A e \in Executions : \A i \in DOMAIN effects[e] : effects[e][i] <= 1

\* No step behind an approval starts before somebody gave that approval.
ApprovalGate ==
    \A e \in Executions : \A i \in DOMAIN effects[e] : \A j \in 1 .. i - 1 :
        effects[e][i] > 0 /\ Steps[e][j].kind = "approval" => <<e, j>> \in consents

\* No more executions are in progress than max_concurrent, those that wait for
\* somebody included, as long as no write failed and no execution with a timeout has
\* an agent step: see TerminalIsFinal.
ActiveWithinLimit == used.failures = 0 => Cardinality(Active) <= Limit

\* is_terminal: "whether an execution state permits no further transitions".  A
\* failed output append is excepted: the task fails the execution only after it
\* left the running map, when the execution may run again.
TerminalIsFinal ==
    [][\A e \in Executions : is_terminal(executions[e]) /\ used'.failures = 0
                               => executions'[e].state = executions[e].state]_vars

\* One occurrence of a schedule is admitted once, also after a restart in the same
\* minute: the record is durable before the dispatcher can look again.
ScheduledOnce == Cardinality({e \in Executions : executions[e].cron \/ disk[e].cron}) <= 1

\* No wakeup is lost for good: an execution stays queued for ever only if its
\* cancellation was asked for or others stay in progress.  This includes one that is
\* approved while its task has not left the running map.
QueuedIsClaimed ==
    \A e \in Executions :
        <>[](executions[e].state = "Queued")
            => <>[](executions[e].cancellation_requested \/ Active # {})

\* "Requests cancellation and interrupts active runner work": an execution whose
\* cancellation was requested ends.
CancelEnds ==
    \A e \in Executions :
        executions[e].cancellation_requested ~> is_terminal(executions[e])

=============================================================================
