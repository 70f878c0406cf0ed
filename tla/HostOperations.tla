--------------------------- MODULE HostOperations ---------------------------
(***************************************************************************)
(* Approval-gated host operations (tascarrel-hostd,                        *)
(* services/host_operations).  A pod requests a configured command and     *)
(* uploads its repository inputs, a host client approves, postpones,       *)
(* rejects or cancels it, and an approved operation runs once as a process *)
(* on the host.  Every change is written to the operation's record before  *)
(* it is shown in memory, and then appended to its audit log.              *)
(*                                                                         *)
(* A task is a control-plane call, an input upload, or the supervisor that *)
(* an approval spawns (named after its operation).  Tasks interleave where *)
(* they await: the state_transitions lock is held across the audit append, *)
(* the append itself runs on a blocking thread.  The control plane drops a *)
(* call whose client disconnects, cancels or times out, at any await; the  *)
(* blocking append of a dropped call still finishes.  The daemon may die   *)
(* at any point, also while it recovers.  Calls that the code refuses      *)
(* change nothing and are left out.                                        *)
(***************************************************************************)
EXTENDS Naturals, Sequences, FiniteSets

CONSTANTS
    Ops,        \* identifiers of operations
    Inputs,     \* names of repository inputs
    Declared,   \* Declared[o]: the inputs of the command that o captures
    Timed,      \* operations whose command has a timeout
    Calls,      \* control-plane calls in progress at a time
    Uploads,    \* input transfers in progress at a time
    MaxCalls,   \* bound: calls and uploads made
    MaxFaults,  \* bound: failures of storage, spawn or environment
    MaxDrops,   \* bound: calls dropped by the control plane
    MaxCrashes  \* bound: times the daemon dies

ASSUME HostOperationsAssumption ==
    /\ Declared \in [Ops -> SUBSET Inputs]
    /\ Timed \subseteq Ops
    /\ Ops \cap (Calls \cup Uploads) = {} /\ Calls \cap Uploads = {}
    /\ "free" \notin Ops \cup Calls \cup Uploads
    /\ {MaxCalls, MaxFaults, MaxDrops, MaxCrashes} \subseteq Nat

Tasks == Ops \cup Calls \cup Uploads

VARIABLES
    daemon,       \* "up", "down", or "opening" while HostOperationService::open runs
    disk,         \* the durable record of each operation
    mem,          \* the record in the operations map
    running,      \* entry of the running map: "none", "watch", or "cancel" once signalled
    transitions,  \* holder of state_transitions
    audit_writes, \* holder of audit_writes
    task,         \* what each task is doing
    audit,        \* the durable audit log of each operation
    dirs,         \* input directories that exist in an operation's directory
    child,        \* the host process: "none", "alive", "exited" (pipes still held), "gone"
    spawns,       \* processes started for an operation
    recovering,   \* operation whose Interrupted entry open has still to append
    faults,       \* failures so far
    used          \* calls, drops and crashes so far

store == <<disk, mem>>
process == <<child, spawns>>
vars == <<daemon, disk, mem, running, transitions, audit_writes, task, audit,
          dirs, child, spawns, recovering, faults, used>>

Terminal == {"Succeeded", "Failed", "Rejected", "Canceled", "Interrupted"}
\* Mutant: recovery overlooks operations that were still starting.
ActiveRunning == {"Running"}

Active == {"Starting", "Running"}
States == {"none", "Preparing", "AwaitingApproval"} \cup Active \cup Terminal

Records == [state : States, postponed : BOOLEAN, pending : SUBSET Inputs]
NoRecord == [state |-> "none", postponed |-> FALSE, pending |-> {}]

Kinds == {"Requested", "InputCaptured", "Postponed", "Approved", "Rejected", "Started",
          "CancelRequested", "Canceled", "TimedOut", "Succeeded", "Failed", "Interrupted"}

(* pc is where the task awaits, kind the audit entry it appends (for a     *)
(* supervisor also why the process ended), seq the sequence number that    *)
(* its append has read.                                                    *)
Idle == [pc |-> "idle", op |-> "free", input |-> "none", kind |-> "none", seq |-> 0]

kinds(o) == {audit[o][i].kind : i \in 1 .. Len(audit[o])}

Count(what, max) == used[what] < max /\ used' = [used EXCEPT ![what] = @ + 1]

NoFault == UNCHANGED faults
Fault == faults < MaxFaults /\ faults' = faults + 1

Init ==
    /\ daemon = "up" /\ recovering = "free"
    /\ transitions = "free" /\ audit_writes = "free"
    /\ disk = [o \in Ops |-> NoRecord] /\ mem = disk
    /\ running = [o \in Ops |-> "none"]
    /\ task = [t \in Tasks |-> Idle]
    /\ audit = [o \in Ops |-> << >>]
    /\ dirs = [o \in Ops |-> {}]
    /\ child = [o \in Ops |-> "none"]
    /\ spawns = [o \in Ops |-> 0]
    /\ faults = 0
    /\ used = [what \in {"calls", "drops", "crashes"} |-> 0]

-----------------------------------------------------------------------------
(* Helpers.                                                                *)

At(r, state) == [r EXCEPT !.state = state, !.postponed = FALSE]

\* write_record renames a new file into place, then the map entry is set.
Store(o, r) ==
    /\ disk' = [disk EXCEPT ![o] = r]
    /\ mem' = [mem EXCEPT ![o] = r]

Goto(t, pc) == task' = [task EXCEPT ![t].pc = pc]

Return(t) == task' = [task EXCEPT ![t] = Idle]

\* append_audit, from waiting for audit_writes on.
Log(t, kind) == task' = [task EXCEPT ![t].pc = "auditing", ![t].kind = kind]

LogCall(c, o, kind) ==
    task' = [task EXCEPT ![c] = [Idle EXCEPT !.pc = "auditing", !.op = o, !.kind = kind]]

Release(lock, t) == IF lock = t THEN "free" ELSE lock

\* SIGTERM and SIGKILL end the process group; a descendant outside the group
\* may keep the output pipes open.
Kill(o) ==
    IF child[o] = "alive"
    THEN \E s \in {"exited", "gone"} : child' = [child EXCEPT ![o] = s]
    ELSE UNCHANGED child

next_audit_sequence(o) ==
    IF audit[o] = << >> THEN 1 ELSE audit[o][Len(audit[o])].seq + 1

Ready(c) == daemon = "up" /\ task[c].pc = "idle" /\ Count("calls", MaxCalls)

-----------------------------------------------------------------------------
(* Control-plane calls.                                                    *)

Created(o) ==
    [state |-> IF Declared[o] = {} THEN "AwaitingApproval" ELSE "Preparing",
     postponed |-> FALSE, pending |-> Declared[o]]

\* A fresh identifier; the record is durable before the map has it.
Request(c, o) ==
    /\ Ready(c) /\ disk[o] = NoRecord
    /\ disk' = [disk EXCEPT ![o] = Created(o)]
    /\ task' = [task EXCEPT ![c] = [Idle EXCEPT !.pc = "insert", !.op = o]]
    /\ UNCHANGED <<daemon, mem, running, transitions, audit_writes, audit, dirs,
                   process, recovering, faults>>

RequestInsert(c) ==
    /\ task[c].pc = "insert"
    /\ mem' = [mem EXCEPT ![task[c].op] = Created(task[c].op)]
    /\ Log(c, "Requested")
    /\ UNCHANGED <<daemon, disk, running, transitions, audit_writes, audit, dirs,
                   process, recovering, faults, used>>

Decided(r, kind) ==
    CASE kind = "Postponed" -> [r EXCEPT !.postponed = TRUE]
      [] kind = "Rejected"  -> At(r, "Rejected")
      [] kind = "Approved"  -> At(r, "Starting")

Resolve(c, o, kind) ==
    /\ Ready(c) /\ transitions = "free" /\ mem[o].state = "AwaitingApproval"
    /\ Store(o, Decided(mem[o], kind))
    /\ transitions' = c
    /\ LogCall(c, o, kind)
    /\ UNCHANGED <<daemon, running, audit_writes, audit, dirs, process, recovering, faults>>

\* A supervised process is signalled; anything not started is withdrawn.
Cancel(c, o) ==
    /\ Ready(c) /\ transitions = "free"
    /\ \/ /\ running[o] # "none"
          /\ running' = [running EXCEPT ![o] = "cancel"]
          /\ LogCall(c, o, "CancelRequested")
          /\ UNCHANGED store
       \/ /\ running[o] = "none"
          /\ mem[o].state \in {"Preparing", "AwaitingApproval", "Starting"}
          /\ Store(o, At(mem[o], "Canceled"))
          /\ LogCall(c, o, "Canceled")
          /\ UNCHANGED running
    /\ transitions' = c
    /\ UNCHANGED <<daemon, audit_writes, audit, dirs, process, recovering, faults>>

\* Mutant: the supervisor is spawned even if the approval could not be audited.
CallReturnsUnaudited(c) ==
    LET o == task[c].op IN
    /\ task[c].pc \in {"audited", "unaudited"}
    /\ task' = [task EXCEPT ![c] = Idle,
                            ![o] = IF task[c].kind = "Approved"
                                   THEN [Idle EXCEPT !.pc = "start", !.op = o] ELSE @]
    /\ transitions' = Release(transitions, c)
    /\ UNCHANGED <<daemon, store, running, audit_writes, audit, dirs, process,
                   recovering, faults, used>>

\* The call ends; an approval whose audit entry is stored spawns run_operation.
CallReturns(c) ==
    LET o == task[c].op
        spawn == task[c].kind = "Approved" /\ task[c].pc = "audited" IN
    /\ task[c].pc \in {"audited", "unaudited"}
    /\ task' = [task EXCEPT ![c] = Idle,
                            ![o] = IF spawn THEN [Idle EXCEPT !.pc = "start", !.op = o] ELSE @]
    /\ transitions' = Release(transitions, c)
    /\ UNCHANGED <<daemon, store, running, audit_writes, audit, dirs, process,
                   recovering, faults, used>>

\* The control plane drops the call's future: its locks are released and
\* nothing after its current await happens, except a blocking append.
Drop(c) ==
    /\ task[c].pc \in {"insert", "auditing", "append"}
    /\ Count("drops", MaxDrops)
    /\ task' = [task EXCEPT ![c] = IF @.pc = "append" THEN [@ EXCEPT !.pc = "detached"] ELSE Idle]
    /\ transitions' = Release(transitions, c)
    /\ audit_writes' = Release(audit_writes, c)
    /\ UNCHANGED <<daemon, store, running, audit, dirs, process, recovering, faults>>

-----------------------------------------------------------------------------
(* append_audit, by any task.                                              *)

AuditLock(t) ==
    /\ task[t].pc = "auditing" /\ audit_writes = "free"
    /\ audit_writes' = t
    /\ Goto(t, "append")
    /\ UNCHANGED <<daemon, store, running, transitions, audit, dirs, process,
                   recovering, faults, used>>

AuditRead(t) ==
    /\ task[t].pc \in {"append", "detached"} /\ task[t].seq = 0
    /\ task' = [task EXCEPT ![t].seq = next_audit_sequence(task[t].op)]
    /\ UNCHANGED <<daemon, store, running, transitions, audit_writes, audit, dirs,
                   process, recovering, faults, used>>

AuditAppend(t) ==
    /\ task[t].pc \in {"append", "detached"} /\ task[t].seq # 0
    /\ \E ok \in BOOLEAN :
          /\ IF ok THEN NoFault ELSE Fault
          /\ audit' = IF ok THEN [audit EXCEPT ![task[t].op] =
                                    Append(@, [seq |-> task[t].seq, kind |-> task[t].kind])]
                      ELSE audit
          /\ task' = [task EXCEPT ![t] =
                         IF @.pc = "detached" THEN Idle
                         ELSE [@ EXCEPT !.pc = IF ok THEN "audited" ELSE "unaudited", !.seq = 0]]
    /\ audit_writes' = Release(audit_writes, t)
    /\ UNCHANGED <<daemon, store, running, transitions, dirs, process, recovering, used>>

-----------------------------------------------------------------------------
(* run_operation, by the supervisor of an approved operation.              *)

\* Takes state_transitions; fails if the operation was withdrawn meanwhile, or
\* if the environment or the spawn fails.
RunStart(o) ==
    /\ task[o].pc = "start" /\ transitions = "free"
    /\ \/ /\ mem[o].state # "Starting"
          /\ Goto(o, "fail") /\ NoFault
          /\ UNCHANGED <<running, transitions, process>>
       \/ /\ mem[o].state = "Starting"
          /\ Goto(o, "fail") /\ Fault
          /\ \E r \in {"watch", "none"} : running' = [running EXCEPT ![o] = r]
          /\ UNCHANGED <<transitions, process>>
       \/ /\ mem[o].state = "Starting"
          /\ Goto(o, "spawned") /\ NoFault
          /\ running' = [running EXCEPT ![o] = "watch"]
          /\ child' = [child EXCEPT ![o] = "alive"]
          /\ spawns' = [spawns EXCEPT ![o] = @ + 1]
          /\ transitions' = o
    /\ UNCHANGED <<daemon, store, audit_writes, audit, dirs, recovering, used>>

\* Mutant: the child is not killed when it is dropped.
RunRecordKeepsChild(o) ==
    /\ task[o].pc = "spawned"
    /\ \/ /\ Store(o, At(mem[o], "Running"))
          /\ Log(o, "Started") /\ NoFault
          /\ UNCHANGED transitions
       \/ /\ Goto(o, "fail") /\ Fault
          /\ transitions' = "free"
          /\ UNCHANGED store
    /\ UNCHANGED <<daemon, running, audit_writes, audit, dirs, process, recovering, used>>

\* An error drops the child, which kills it.
RunRecord(o) ==
    /\ task[o].pc = "spawned"
    /\ \/ /\ Store(o, At(mem[o], "Running"))
          /\ Log(o, "Started") /\ NoFault
          /\ UNCHANGED <<transitions, child>>
       \/ /\ Goto(o, "fail") /\ Fault
          /\ transitions' = "free"
          /\ Kill(o)
          /\ UNCHANGED store
    /\ UNCHANGED <<daemon, running, audit_writes, audit, dirs, spawns, recovering, used>>

RunStarted(o) ==
    /\ task[o].pc \in {"audited", "unaudited"} /\ task[o].kind = "Started"
    /\ transitions' = "free"
    /\ \/ /\ task[o].pc = "audited"
          /\ Goto(o, "wait") /\ NoFault
          /\ UNCHANGED child
       \/ /\ IF task[o].pc = "audited" THEN Fault ELSE NoFault
          /\ Goto(o, "fail")
          /\ Kill(o)
    /\ UNCHANGED <<daemon, store, running, audit_writes, audit, dirs, spawns, recovering, used>>

\* The select over exit, cancellation and timeout.
RunWait(o) ==
    /\ task[o].pc = "wait"
    /\ \/ /\ child[o] # "alive"
          /\ task' = [task EXCEPT ![o].pc = "drain", ![o].kind = "Exited"]
          /\ UNCHANGED child
       \/ /\ running[o] = "cancel"
          /\ task' = [task EXCEPT ![o].pc = "drain", ![o].kind = "Canceled"]
          /\ Kill(o)
       \/ /\ o \in Timed
          /\ task' = [task EXCEPT ![o].pc = "drain", ![o].kind = "TimedOut"]
          /\ Kill(o)
    /\ UNCHANGED <<daemon, store, running, transitions, audit_writes, audit, dirs,
                   spawns, recovering, faults, used>>

\* Both output readers must reach the end of their pipe.
RunDrain(o) ==
    /\ task[o].pc = "drain"
    /\ \/ /\ child[o] = "gone"
          /\ running' = [running EXCEPT ![o] = "none"]
          /\ Goto(o, "finish") /\ NoFault
       \/ /\ Goto(o, "fail") /\ Fault
          /\ UNCHANGED running
    /\ UNCHANGED <<daemon, store, transitions, audit_writes, audit, dirs, process,
                   recovering, used>>

\* State and audit kind for each way the process ended.
Outcomes(reason) ==
    CASE reason = "Exited"   -> {<<"Succeeded", "Succeeded">>, <<"Failed", "Failed">>}
      [] reason = "Canceled" -> {<<"Canceled", "Canceled">>}
      [] reason = "TimedOut" -> {<<"Failed", "TimedOut">>}

RunFinish(o) ==
    /\ task[o].pc = "finish" /\ transitions = "free"
    /\ \/ \E out \in Outcomes(task[o].kind) :
             /\ Store(o, At(mem[o], out[1]))
             /\ Log(o, out[2]) /\ NoFault
             /\ transitions' = o
       \/ /\ Goto(o, "fail") /\ Fault
          /\ UNCHANGED <<store, transitions>>
    /\ UNCHANGED <<daemon, running, audit_writes, audit, dirs, process, recovering, used>>

\* If the last append failed, fail_operation finds a terminal record.
RunEnds(o) ==
    /\ task[o].pc \in {"audited", "unaudited"} /\ task[o].kind # "Started"
    /\ transitions' = "free"
    /\ Return(o)
    /\ UNCHANGED <<daemon, store, running, audit_writes, audit, dirs, process,
                   recovering, faults, used>>

\* fail_operation, by a supervisor or by an upload whose bundle was refused.
FailOperation(t) ==
    LET o == task[t].op
        input == IF t \in Uploads THEN {task[t].input} ELSE {} IN
    /\ task[t].pc = "fail" /\ transitions = "free"
    /\ running' = [running EXCEPT ![o] = "none"]
    /\ \/ /\ mem[o].state \in Terminal
          /\ Return(t) /\ NoFault
          /\ dirs' = [dirs EXCEPT ![o] = @ \ input]
          /\ UNCHANGED <<store, transitions>>
       \/ /\ mem[o].state \notin Terminal
          /\ Store(o, At(mem[o], "Failed"))
          /\ Log(t, "Failed") /\ NoFault
          /\ transitions' = t
          /\ UNCHANGED dirs
       \/ /\ mem[o].state \notin Terminal
          /\ Return(t) /\ Fault
          /\ dirs' = [dirs EXCEPT ![o] = @ \ input]
          /\ UNCHANGED <<store, transitions>>
    /\ UNCHANGED <<daemon, audit_writes, audit, process, recovering, used>>

-----------------------------------------------------------------------------
(* serve_input, by an upload.                                              *)

\* Admission is checked without state_transitions.
UploadAdmit(u, o, i) ==
    /\ Ready(u) /\ mem[o].state = "Preparing" /\ i \in mem[o].pending
    /\ task' = [task EXCEPT ![u] = [Idle EXCEPT !.pc = "admitted", !.op = o, !.input = i]]
    /\ UNCHANGED <<daemon, store, running, transitions, audit_writes, audit, dirs,
                   process, recovering, faults>>

\* Mutant: an existing directory is used.
UploadPrepareShared(u) ==
    LET o == task[u].op IN
    /\ task[u].pc = "admitted"
    /\ dirs' = [dirs EXCEPT ![o] = @ \cup {task[u].input}]
    /\ Goto(u, "copy")
    /\ UNCHANGED <<daemon, store, running, transitions, audit_writes, audit, process,
                   recovering, faults, used>>

UploadPrepare(u) ==
    LET o == task[u].op
        i == task[u].input IN
    /\ task[u].pc = "admitted"
    /\ \/ /\ i \notin dirs[o]
          /\ dirs' = [dirs EXCEPT ![o] = @ \cup {i}]
          /\ Goto(u, "copy")
       \/ /\ i \in dirs[o]
          /\ Return(u)
          /\ UNCHANGED dirs
    /\ UNCHANGED <<daemon, store, running, transitions, audit_writes, audit, process,
                   recovering, faults, used>>

\* PendingInputDirectory::drop.
Abandon(u) ==
    /\ dirs' = [dirs EXCEPT ![task[u].op] = @ \ {task[u].input}]
    /\ Return(u)

\* The transfer and Git's verification: it ends early, is refused or succeeds.
UploadCopy(u) ==
    /\ task[u].pc = "copy"
    /\ \/ Abandon(u)
       \/ Goto(u, "fail") /\ UNCHANGED dirs
       \/ Goto(u, "commit") /\ UNCHANGED dirs
    /\ UNCHANGED <<daemon, store, running, transitions, audit_writes, audit, process,
                   recovering, faults, used>>

Captured(r, i) ==
    LET pending == r.pending \ {i}
    IN  [r EXCEPT !.pending = pending,
                  !.state = IF pending = {} THEN "AwaitingApproval" ELSE @]

UploadCommit(u) ==
    LET o == task[u].op
        pending == mem[o].state = "Preparing" /\ task[u].input \in mem[o].pending IN
    /\ task[u].pc = "commit" /\ transitions = "free"
    /\ \/ /\ pending /\ NoFault
          /\ Store(o, Captured(mem[o], task[u].input))
          /\ Log(u, "InputCaptured")
          /\ transitions' = u
          /\ UNCHANGED dirs
       \/ /\ IF pending THEN Fault ELSE NoFault
          /\ Abandon(u)
          /\ UNCHANGED <<store, transitions>>
    /\ UNCHANGED <<daemon, running, audit_writes, audit, process, recovering, used>>

\* The directory of a captured input is retained.
UploadReturns(u) ==
    /\ task[u].pc \in {"audited", "unaudited"}
    /\ transitions' = "free"
    /\ IF task[u].kind = "Failed" THEN Abandon(u) ELSE Return(u) /\ UNCHANGED dirs
    /\ UNCHANGED <<daemon, store, running, audit_writes, audit, process, recovering,
                   faults, used>>

-----------------------------------------------------------------------------
(* The host process, the end of the daemon, and HostOperationService::open. *)

Exit(o) ==
    /\ child[o] = "alive"
    /\ Kill(o)
    /\ UNCHANGED <<daemon, store, running, transitions, audit_writes, task, audit, dirs,
                   spawns, recovering, faults, used>>

\* The last descendant that holds an output pipe ends.
PipesClose(o) ==
    /\ child[o] = "exited"
    /\ child' = [child EXCEPT ![o] = "gone"]
    /\ UNCHANGED <<daemon, store, running, transitions, audit_writes, task, audit, dirs,
                   spawns, recovering, faults, used>>

\* Processes outlive a daemon that is killed.
Crash ==
    /\ daemon # "down" /\ Count("crashes", MaxCrashes)
    /\ daemon' = "down" /\ recovering' = "free"
    /\ transitions' = "free" /\ audit_writes' = "free"
    /\ mem' = [o \in Ops |-> NoRecord]
    /\ running' = [o \in Ops |-> "none"]
    /\ task' = [t \in Tasks |-> Idle]
    /\ UNCHANGED <<disk, audit, dirs, process, faults>>

Open ==
    /\ daemon = "down"
    /\ daemon' = "opening"
    /\ UNCHANGED <<store, running, transitions, audit_writes, task, audit, dirs, process,
                   recovering, faults, used>>

OpenInterrupt(o) ==
    /\ daemon = "opening" /\ recovering = "free" /\ disk[o].state \in Active
    /\ disk' = [disk EXCEPT ![o] = At(@, "Interrupted")]
    /\ recovering' = o
    /\ UNCHANGED <<daemon, mem, running, transitions, audit_writes, task, audit, dirs,
                   process, faults, used>>

OpenAudit ==
    /\ daemon = "opening" /\ recovering # "free"
    /\ audit' = [audit EXCEPT ![recovering] =
                    Append(@, [seq |-> next_audit_sequence(recovering), kind |-> "Interrupted"])]
    /\ recovering' = "free"
    /\ UNCHANGED <<daemon, store, running, transitions, audit_writes, task, dirs, process,
                   faults, used>>

OpenDone ==
    /\ daemon = "opening" /\ recovering = "free"
    /\ \A o \in Ops : disk[o].state \notin Active
    /\ daemon' = "up"
    /\ mem' = disk
    /\ UNCHANGED <<disk, running, transitions, audit_writes, task, audit, dirs, process,
                   recovering, faults, used>>

-----------------------------------------------------------------------------
CallStep(c) ==
    \E o \in Ops :
       \/ Request(c, o) \/ Cancel(c, o)
       \/ \E kind \in {"Postponed", "Rejected", "Approved"} : Resolve(c, o, kind)

CallProgress(c) == RequestInsert(c) \/ CallReturns(c)

UploadStep(u) == \E o \in Ops : \E i \in Inputs : UploadAdmit(u, o, i)

UploadProgress(u) ==
    UploadPrepare(u) \/ UploadCopy(u) \/ UploadCommit(u) \/ UploadReturns(u) \/ FailOperation(u)

RunProgress(o) ==
    \/ RunStart(o) \/ RunRecord(o) \/ RunStarted(o) \/ RunWait(o) \/ RunDrain(o)
    \/ RunFinish(o) \/ RunEnds(o) \/ FailOperation(o)

AuditProgress(t) == AuditLock(t) \/ AuditRead(t) \/ AuditAppend(t)

Recovery == Open \/ OpenAudit \/ OpenDone \/ \E o \in Ops : OpenInterrupt(o)

Next ==
    \/ \E c \in Calls : CallStep(c) \/ CallProgress(c) \/ Drop(c)
    \/ \E u \in Uploads : UploadStep(u) \/ UploadProgress(u)
    \/ \E o \in Ops : RunProgress(o) \/ Exit(o) \/ PipesClose(o)
    \/ \E t \in Tasks : AuditProgress(t)
    \/ Recovery \/ Crash

Spec == Init /\ [][Next]_vars

(* Tasks are polled whenever they are ready and the locks are granted in   *)
(* order; a daemon that died is started again.  Nobody has to call, and a  *)
(* process may run for as long as it likes.                                *)
Fairness ==
    /\ \A c \in Calls : WF_vars(CallProgress(c))
    /\ \A u \in Uploads : WF_vars(UploadProgress(u))
    /\ \A o \in Ops : WF_vars(RunProgress(o))
    /\ \A t \in Tasks : WF_vars(AuditProgress(t))
    /\ WF_vars(Recovery)

FairSpec == Spec /\ Fairness

-----------------------------------------------------------------------------

(* An operation's process is started at most once, over crashes, retries   *)
(* and cancellations, and never before the approval is in the permanent    *)
(* audit log (resolve spawns run_operation after append_audit returns).    *)
RunsOnceApproved ==
    \A o \in Ops : spawns[o] <= 1 /\ (spawns[o] = 1 => "Approved" \in kinds(o))

(* run_operation starts a process only while the durable record says that  *)
(* the operation is approved and starting: a cancel that withdrew it, or a *)
(* recovery that interrupted it, is never overtaken.                       *)
StartsFromStarting ==
    [][\A o \in Ops : spawns'[o] # spawns[o] => disk[o].state = "Starting"]_vars

(* A terminal record is final: no late supervisor, upload, cancel or       *)
(* recovery overwrites how the operation ended.                            *)
TerminalIsFinal ==
    [][\A o \in Ops : disk[o].state \in Terminal => disk'[o] = disk[o]]_vars

(* What clients are shown is durable: a record in the operations map is    *)
(* the one a restart would load.                                           *)
ShownIsDurable == \A o \in Ops : mem[o] \in {NoRecord, disk[o]}

(* The directory of every captured input exists, whatever other transfers  *)
(* of the same input do when they are abandoned.                           *)
CapturedInputsKept ==
    \A o \in Ops : disk[o] # NoRecord => Declared[o] \ disk[o].pending \subseteq dirs[o]

(* An operation that the running daemon reports as finished has no process *)
(* left, except one that a restart marked Interrupted.                     *)
FinishedHasNoProcess ==
    \A o \in Ops : mem[o].state \in Terminal \ {"Interrupted"} => child[o] # "alive"

(* The end of a process is recorded: once the process and its pipes are    *)
(* gone the record becomes terminal, over any number of restarts, unless   *)
(* storage fails.                                                          *)
ExitIsRecorded ==
    \A o \in Ops : child[o] = "gone" ~> (disk[o].state \in Terminal \/ faults > 0)

(* "Approval was granted and the process is starting": an operation shown  *)
(* as Starting has a supervisor, or a resolve call that will spawn it.     *)
StartingHasSupervisor ==
    \A o \in Ops : mem[o].state = "Starting" =>
        \/ task[o].pc # "idle"
        \/ \E c \in Calls : transitions = c /\ task[c].op = o

(* cancel "terminates a started one": an operation whose supervisor was    *)
(* signalled becomes terminal.                                             *)
CancelTerminates ==
    \A o \in Ops : running[o] = "cancel" ~> (disk[o].state \in Terminal \/ faults > 0)

=============================================================================
