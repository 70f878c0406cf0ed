----------------------------- MODULE Workspaces -----------------------------
(***************************************************************************)
(* The workspace service of the host daemon (tascarrel-hostd,              *)
(* services/workspaces/service.rs), in managed mode.  One worker task per  *)
(* workspace owns its VM; calls find or spawn the worker through a map and *)
(* talk to it over a queue; a stop or a destroy takes the worker out of    *)
(* the map before it waits for it; a watcher does the same for workspaces  *)
(* whose configuration directory is gone; shutdown clears the map and      *)
(* waits for every task.                                                   *)
(*                                                                         *)
(* A step of a task runs to its next await, where others interleave.       *)
(* Publishing a status is two steps all the same: publish_workspace_state  *)
(* releases the states lock before it applies the mutation to the          *)
(* published list, and tasks run on several threads.                       *)
(* Calls that the code refuses at once change nothing and are left out.    *)
(* connect, start, control_plane and overlay_share differ in the value     *)
(* they return and are one operation here.  Guest instance ids and serial  *)
(* logs are left out, and vm.lock and state.raw are found in one step:     *)
(* the state directory is taken not to be replaced between the two.        *)
(***************************************************************************)
EXTENDS Naturals, Sequences, FiniteSets, Functions

CONSTANTS
    Names,          \* names of workspaces
    Calls,          \* calls in progress at a time
    Workers,        \* bound: worker tasks in memory at a time
    Watcher,        \* the task of run_workspace_watcher
    Closer,         \* the task that calls shutdown
    None,           \* no workspace, no worker
    Created,        \* workspaces configured at the start
    Resets,         \* reset_data_workspaces
    MaxWorkspaces,  \* max_workspaces
    Ops,            \* operations the calls may make
    MaxCalls,       \* bound: calls made
    MaxTroubles     \* bound: failed starts, VM failures, failed deletions, dropped
                    \* calls, edits of the configuration tree and shutdown, together

ASSUME WorkspacesAssumption ==
    /\ Created \subseteq Names /\ Resets \subseteq Names
    /\ None \notin Names \cup Workers \cup Calls \cup {Watcher, Closer}
    /\ Watcher # Closer /\ {Watcher, Closer} \cap Calls = {}
    /\ Ops \subseteq {"connect", "stop", "destroy", "create"}
    /\ MaxWorkspaces \in Nat \ {0}
    /\ {MaxCalls, MaxTroubles} \subseteq Nat

Callers == Calls \cup {Watcher, Closer}

VARIABLES
    image,      \* workspaces with a configuration directory
    partition,  \* the state directory of a workspace: 0, or a number never used before
    used,       \* calls and troubles so far
    workers,    \* the workers map: a sender, or None
    stopping,   \* stopping_workspaces
    shutdown,   \* the shutdown watch
    states,     \* WorkspaceRuntimeState of each workspace, without the instance
    store,      \* the published workspace list
    reset,      \* reset_data_workspaces still to be taken by a worker
    resets,     \* state disks discarded so far
    last,       \* state directories made so far
    task,       \* what each caller is doing
    work,       \* what each worker is doing
    queue,      \* the commands channel of each worker
    changed,    \* the watcher has notifications to reconcile
    watch,      \* what a reconciliation has read, and the workers it has still to stop
    unshown     \* workspaces that shutdown has still to publish

files == <<image, partition>>
lifecycle == <<workers, stopping, shutdown>>
shown == <<states, store>>
boots == <<reset, resets, last>>
service == <<changed, watch, unshown>>
vars == <<image, partition, used, workers, stopping, shutdown, states, store, reset,
          resets, last, task, work, queue, changed, watch, unshown>>

HasInstance == {"Starting", "Running", "Stopping", "Failed"}

(* pc is where the task awaits; show, then: the status it publishes and    *)
(* where it goes on; peer: the worker whose sender it got; ok: the answer  *)
(* to a stop command.  A blocking job outlives a dropped call ("orphan").  *)
Idle == [pc |-> "idle", op |-> "none", ws |-> None, show |-> "Absent", then |-> "idle",
         peer |-> None, tries |-> 0, ok |-> TRUE]

NoCommand == [by |-> None, kind |-> "none"]

(* first: the command to answer; reset: reset_data; lock: the state        *)
(* directory whose vm.lock it holds; vm: "dying" is a VM process killed by *)
(* a dropped start and not yet gone; stop: why the active workspace ended. *)
Gone == [pc |-> "gone", ws |-> None, show |-> "Absent", then |-> "gone", first |-> NoCommand,
         reset |-> FALSE, lock |-> 0, vm |-> "none", stop |-> "none"]

Unread == [names |-> {}, snap |-> [w \in Names |-> "Absent"], left |-> {}]

Count(what, max) == used[what] < max /\ used' = [used EXCEPT ![what] = @ + 1]
NoTrouble == UNCHANGED used
Trouble == Count("troubles", MaxTroubles)

Alive(k) == work[k].pc # "gone"
Held(k) == \E w \in Names : workers[w] = k
HasSender(k) ==
    \/ Held(k) \/ k \in watch.left
    \/ \E c \in Callers : task[c].peer = k /\ (task[c].pc = "wait" => task[c].op = "connect")
Free(k) == ~Alive(k) /\ work[k].vm = "none" /\ ~Held(k) /\ k \notin watch.left
           /\ \A c \in Callers : task[c].peer # k

Init ==
    /\ image = Created
    /\ partition = [w \in Names |-> 0]
    /\ used = [what \in {"calls", "troubles"} |-> 0]
    /\ workers = [w \in Names |-> None]
    /\ stopping = {} /\ shutdown = FALSE
    /\ states = [w \in Names |-> "Absent"]
    /\ store = [w \in Names |-> IF w \in Created THEN "Stopped" ELSE "Absent"]
    /\ reset = Resets /\ resets = [w \in Names |-> 0]
    /\ last = 0
    /\ task = [c \in Callers |-> Idle]
    /\ work = [k \in Workers |-> Gone]
    /\ queue = [k \in Workers |-> << >>]
    /\ changed = FALSE
    /\ watch = Unread /\ unshown = {}

-----------------------------------------------------------------------------
(* Publishing a status.                                                    *)

Publishing(r, show, then) == [r EXCEPT !.pc = "publish", !.show = show, !.then = then]

Settled(r, pc) == [r EXCEPT !.pc = pc, !.show = "Absent", !.then = "gone"]

PublishState(r) ==
    /\ r.pc = "publish"
    /\ states' = [states EXCEPT ![r.ws] = r.show]

ApplyToStore(r) ==
    /\ r.pc = "apply"
    /\ store' = [store EXCEPT ![r.ws] = r.show]

TaskPublishes(c) ==
    /\ \/ /\ PublishState(task[c])
          /\ task' = [task EXCEPT ![c].pc = "apply"]
          /\ UNCHANGED store
       \/ /\ ApplyToStore(task[c])
          /\ task' = [task EXCEPT ![c] = IF @.then = "idle" THEN Idle
                                         ELSE [@ EXCEPT !.pc = task[c].then, !.show = "Absent",
                                                        !.then = "idle"]]
          /\ UNCHANGED states
    /\ UNCHANGED <<files, used, lifecycle, boots, work, queue, service>>

-----------------------------------------------------------------------------
(* Calls.                                                                  *)

Return(c) == task' = [task EXCEPT ![c] = Idle]
Goto(c, pc) == task' = [task EXCEPT ![c].pc = pc]

Begin(c, op, w) ==
    /\ task[c].pc = "idle" /\ op \in Ops /\ Count("calls", MaxCalls)
    /\ IF op = "create" THEN w \notin image ELSE w \in image
    /\ op = "connect" => ~shutdown
    /\ task' = [task EXCEPT ![c] =
           [Idle EXCEPT !.op = op, !.ws = w, !.tries = 2,
                        !.pc = CASE op = "connect" -> "sender"
                                 [] op = "stop"    -> "instance"
                                 [] op = "destroy" -> "begin"
                                 [] op = "create"  -> "rename"]]
    /\ UNCHANGED <<files, lifecycle, shown, boots, work, queue, service>>

\* Mutant: the shutdown flag is checked only before the map is locked.
RefusedIfStopping(w) == w \in stopping

Refused(w) == shutdown \/ w \in stopping

Open == {w \in Names : workers[w] # None /\ Alive(workers[w])}

\* Under the workers lock to the end, so a worker that is spawned is in the map
\* and in the task list before shutdown can clear either.
worker_sender(c) ==
    LET w == task[c].ws
        kept == [v \in Names |-> IF v \in Open THEN workers[v] ELSE None]
        fresh == CHOOSE k \in Workers : Free(k)
    IN  /\ task[c].pc = "sender"
        /\ \/ /\ Refused(w)
              /\ Return(c)
              /\ UNCHANGED <<workers, reset, work>>
           \/ /\ ~Refused(w) /\ w \in Open
              /\ workers' = kept
              /\ task' = [task EXCEPT ![c].peer = workers[w], ![c].pc = "send"]
              /\ UNCHANGED <<reset, work>>
           \/ /\ ~Refused(w) /\ w \notin Open
              /\ Cardinality(Open) >= MaxWorkspaces
              /\ workers' = kept
              /\ Return(c)
              /\ UNCHANGED <<reset, work>>
           \/ /\ ~Refused(w) /\ w \notin Open
              /\ Cardinality(Open) < MaxWorkspaces
              /\ reset' = reset \ {w}
              /\ \E k \in Workers : Free(k)
              /\ workers' = [kept EXCEPT ![w] = fresh]
              /\ work' = [work EXCEPT ![fresh] =
                             [Gone EXCEPT !.pc = "recv", !.ws = w, !.reset = w \in reset]]
              /\ task' = [task EXCEPT ![c].peer = fresh, ![c].pc = "send"]
        /\ UNCHANGED <<files, used, stopping, shutdown, shown, resets, last, queue, service>>

Kind(op) == IF op = "connect" THEN "connect" ELSE "stop"

\* WORKSPACE_QUEUE_CAPACITY is never reached: a caller has one command at a time.
Send(c) ==
    LET k == task[c].peer IN
    /\ task[c].pc = "send"
    /\ IF Alive(k)
       THEN /\ queue' = [queue EXCEPT ![k] = Append(@, [by |-> c, kind |-> Kind(task[c].op)])]
            /\ Goto(c, "wait")
       ELSE /\ Goto(c, IF task[c].op = "connect" THEN "closed" ELSE "end")
            /\ UNCHANGED queue
    /\ UNCHANGED <<files, used, lifecycle, shown, boots, work, service>>

remove_closed_worker(c) ==
    LET w == task[c].ws IN
    /\ task[c].pc = "closed"
    /\ workers' = IF workers[w] = task[c].peer THEN [workers EXCEPT ![w] = None] ELSE workers
    /\ \/ task[c].tries = 1 /\ Return(c)
       \/ /\ task[c].tries > 1
          /\ task' = [task EXCEPT ![c] = [@ EXCEPT !.pc = "sender", !.peer = None,
                                                   !.tries = task[c].tries - 1]]
    /\ UNCHANGED <<files, used, stopping, shutdown, shown, boots, work, queue, service>>

\* stop, up to its first await inside begin_workspace_stop.
current_guest_instance(c) ==
    LET w == task[c].ws IN
    /\ task[c].pc = "instance"
    /\ IF states[w] \in HasInstance
       THEN task' = [task EXCEPT ![c] = Publishing(@, "Stopping", "begin")]
       ELSE Goto(c, "begin")
    /\ UNCHANGED <<files, used, lifecycle, shown, boots, work, queue, service>>

begin_workspace_stop(c) ==
    LET w == task[c].ws IN
    /\ task[c].pc = "begin"
    /\ IF w \in stopping
       THEN Return(c) /\ UNCHANGED <<workers, stopping>>
       ELSE /\ stopping' = stopping \cup {w}
            /\ workers' = [workers EXCEPT ![w] = None]
            /\ task' = [task EXCEPT ![c].peer = workers[w],
                                    ![c].pc = IF workers[w] = None THEN "end" ELSE "send"]
    /\ UNCHANGED <<files, used, shutdown, shown, boots, work, queue, service>>

end_workspace_stop(c) ==
    /\ task[c].pc = "end" /\ c \in Calls
    /\ stopping' = stopping \ {task[c].ws}
    /\ task' = [task EXCEPT ![c] =
           IF ~@.ok THEN Idle
           ELSE IF @.op = "stop"
                THEN Publishing([@ EXCEPT !.peer = None], "Stopped", "idle")
                ELSE Publishing([@ EXCEPT !.peer = None], "Destroying", "preflight")]
    /\ UNCHANGED <<files, used, workers, shutdown, shown, boots, work, queue, service>>

\* delete_managed_workspace: preflight and repository cache, then the two
\* trees, then the two views.  Each of the first three may fail, and does
\* when the configuration is missing.
delete_managed_workspace(c) ==
    LET w == task[c].ws
        pc == task[c].pc
    IN  /\ \/ /\ pc = "preflight" /\ w \in image
              /\ Goto(c, "state") /\ NoTrouble
              /\ UNCHANGED <<files, shown, changed>>
           \/ /\ pc \in {"preflight", "state", "config"}
              /\ IF pc # "state" /\ w \notin image THEN NoTrouble ELSE Trouble
              /\ Return(c)
              /\ UNCHANGED <<files, shown, changed>>
           \/ /\ pc = "state"
              /\ partition' = [partition EXCEPT ![w] = 0]
              /\ Goto(c, "config") /\ NoTrouble
              /\ UNCHANGED <<image, shown, changed>>
           \/ /\ pc = "config" /\ w \in image
              /\ image' = image \ {w} /\ changed' = TRUE
              /\ task' = [task EXCEPT ![c] = IF @.op = "orphan" THEN Idle
                                             ELSE [@ EXCEPT !.pc = "forget"]]
              /\ NoTrouble
              /\ UNCHANGED <<partition, shown>>
           \/ /\ pc = "forget"
              /\ states' = [states EXCEPT ![w] = "Absent"]
              /\ Goto(c, "unlist") /\ NoTrouble
              /\ UNCHANGED <<files, store, changed>>
           \/ /\ pc = "unlist"
              /\ store' = [store EXCEPT ![w] = "Absent"]
              /\ Return(c) /\ NoTrouble
              /\ UNCHANGED <<files, states, changed>>
        /\ UNCHANGED <<lifecycle, boots, work, queue, watch, unshown>>

\* The rename refuses a target that exists.
publish_create(c) ==
    LET w == task[c].ws IN
    /\ task[c].pc = "rename"
    /\ IF w \in image
       THEN Return(c) /\ UNCHANGED <<image, changed>>
       ELSE /\ image' = image \cup {w} /\ changed' = TRUE
            /\ task' = [task EXCEPT ![c] = IF @.op = "orphan" THEN Idle
                                           ELSE Publishing(@, "Stopped", "idle")]
    /\ UNCHANGED <<partition, used, lifecycle, shown, boots, work, queue, watch, unshown>>

CallStep(c) ==
    \/ TaskPublishes(c) \/ worker_sender(c) \/ Send(c) \/ remove_closed_worker(c)
    \/ current_guest_instance(c) \/ begin_workspace_stop(c) \/ end_workspace_stop(c)
    \/ delete_managed_workspace(c) \/ publish_create(c)

\* The control plane drops a call at any await; a blocking job of the call
\* still finishes, and nobody takes the answer to a queued command.
Drop(c) ==
    /\ c \in Calls /\ task[c].op # "orphan" /\ task[c].pc \notin {"idle", "apply", "unlist"}
    /\ Trouble
    /\ task' = [task EXCEPT ![c] = IF @.pc \in {"state", "config", "rename"}
                                   THEN [@ EXCEPT !.op = "orphan"] ELSE Idle]
    /\ queue' = [k \in Workers |-> [i \in 1 .. Len(queue[k]) |->
                   IF queue[k][i].by = c THEN [queue[k][i] EXCEPT !.by = None] ELSE queue[k][i]]]
    /\ work' = [k \in Workers |-> IF work[k].first.by = c
                                  THEN [work[k] EXCEPT !.first.by = None] ELSE work[k]]
    /\ UNCHANGED <<files, lifecycle, shown, boots, service>>

-----------------------------------------------------------------------------
(* The worker of a workspace.                                              *)

\* An answer, or a response channel dropped, lets the caller go on.
Answer(commands, ok) ==
    [c \in Callers |-> IF \E m \in commands : m.by = c
                       THEN IF task[c].op = "connect" THEN Idle
                            ELSE [task[c] EXCEPT !.pc = "end", !.ok = ok]
                       ELSE task[c]]

Put(k, r) == work' = [work EXCEPT ![k] = r]
StayAs(k, pc) == Put(k, [work[k] EXCEPT !.pc = pc])

\* The worker returns: its receiver goes, and with it the queued commands.
Finish(k, rejected, vm) ==
    /\ Put(k, [Gone EXCEPT !.vm = vm])
    /\ queue' = [queue EXCEPT ![k] = << >>]
    /\ task' = Answer(rejected \cup Range(queue[k]), TRUE)

Receive(k) ==
    /\ work[k].pc = "recv"
    /\ \/ /\ shutdown \/ (queue[k] = << >> /\ ~HasSender(k))
          /\ Finish(k, {}, "none")
       \/ /\ ~shutdown /\ queue[k] # << >>
          /\ queue' = [queue EXCEPT ![k] = Tail(@)]
          /\ LET r == [work[k] EXCEPT !.first = Head(queue[k])] IN
             Put(k, IF r.first.kind = "stop" THEN Publishing(r, "Stopped", "replied")
                    ELSE Publishing(r, "Starting", "start"))
          /\ UNCHANGED task
    /\ UNCHANGED <<files, used, lifecycle, shown, boots, service>>

WorkerPublishes(k) ==
    /\ PublishState(work[k])
    /\ StayAs(k, "apply")
    /\ UNCHANGED <<files, used, lifecycle, store, boots, task, queue, service>>

\* Mutant: vm.lock is opened but not locked.
NeverLocked(p) == FALSE

Locked(p) == \E k \in Workers : work[k].lock = p

\* Mutant: the worker asks for a fresh disk at every start.
TriedAndStillReset(r) == r

\* reset_data holds for the first start only, also if that fails.
Tried(r) == [r EXCEPT !.reset = FALSE]

\* Mutant: a failed start goes back to the queue without saying so.
StartFailedSilently(r) == Settled([r EXCEPT !.first = NoCommand], "recv")

StartFailed(r) == Publishing(r, "Failed", "failed")

\* start_managed_workspace up to spawn_vm: the state directory, its vm.lock, the
\* image, the shares; then spawn_vm, which discards the disk if it is asked to.
start_managed_workspace(k) ==
    LET w == work[k].ws
        p == IF partition[w] = 0 THEN last + 1 ELSE partition[w]
        r == Tried(work[k])
    IN  /\ work[k].then = "start" /\ ApplyToStore(work[k])
        /\ partition' = [partition EXCEPT ![w] = p]
        /\ last' = IF partition[w] = 0 THEN p ELSE last
        /\ \/ /\ Locked(p) \/ w \notin image
              /\ Put(k, StartFailed(r)) /\ NoTrouble /\ UNCHANGED resets
           \/ Put(k, StartFailed(r)) /\ Trouble /\ UNCHANGED resets
           \/ /\ ~Locked(p) /\ w \in image
              /\ Put(k, [Settled(r, "boot") EXCEPT !.lock = p, !.vm = "booting"])
              /\ resets' = IF work[k].reset THEN [resets EXCEPT ![w] = @ + 1] ELSE resets
              /\ NoTrouble
        /\ UNCHANGED <<image, lifecycle, states, reset, task, queue, service>>

\* The rest of spawn_vm and finish_workspace_start.  Shutdown drops a start in
\* spawn_vm, whose processes are killed and not awaited; later failures,
\* timeouts and shutdown go through finish_failed_workspace_start.  A start that
\* succeeds looks at shutdown once more before the VM is shown.
Boot(k) ==
    /\ work[k].pc = "boot"
    /\ \/ shutdown /\ Finish(k, {work[k].first}, "dying") /\ NoTrouble
       \/ /\ shutdown /\ NoTrouble
          /\ Put(k, [work[k] EXCEPT !.pc = "failing", !.stop = "Cancelled"])
          /\ UNCHANGED <<queue, task>>
       \/ Trouble /\ StayAs(k, "failing") /\ UNCHANGED <<queue, task>>
       \/ /\ shutdown /\ NoTrouble
          /\ Put(k, [work[k] EXCEPT !.pc = "closing", !.vm = "up", !.first = NoCommand,
                                    !.stop = "Cancelled"])
          /\ task' = Answer({work[k].first} \cup Range(queue[k]), FALSE)
          /\ queue' = [queue EXCEPT ![k] = << >>]
       \/ /\ ~shutdown /\ NoTrouble
          /\ Put(k, Publishing([work[k] EXCEPT !.vm = "up"], "Running", "answer"))
          /\ UNCHANGED <<queue, task>>
    /\ UNCHANGED <<files, lifecycle, shown, boots, service>>

Ended(r) == [r EXCEPT !.vm = "none", !.lock = 0, !.stop = "none"]

finish_failed_workspace_start(k) ==
    /\ work[k].pc = "failing"
    /\ IF work[k].stop = "Cancelled"
       THEN Finish(k, {work[k].first}, "none")
       ELSE Put(k, StartFailed(Ended(work[k]))) /\ UNCHANGED <<queue, task>>
    /\ UNCHANGED <<files, used, lifecycle, shown, boots, service>>

\* What the worker does once the status is in the list.  A failed start rejects
\* what is queued, and honours the last stop in it.
Applied(k) ==
    LET stops == {i \in DOMAIN queue[k] : queue[k][i].kind = "stop"}
        done == Settled([work[k] EXCEPT !.first = NoCommand], "recv")
    IN  /\ ApplyToStore(work[k])
        /\ \/ /\ work[k].then = "failed" /\ stops = {}
              /\ queue' = [queue EXCEPT ![k] = << >>]
              /\ task' = Answer({work[k].first} \cup Range(queue[k]), TRUE)
              /\ Put(k, done)
           \/ /\ work[k].then = "failed"
              /\ \E i \in stops :
                    /\ \A j \in stops : j <= i
                    /\ task' = Answer({work[k].first} \cup (Range(queue[k]) \ {queue[k][i]}), TRUE)
                    /\ Put(k, Publishing([work[k] EXCEPT !.first = queue[k][i]], "Stopped", "replied"))
              /\ queue' = [queue EXCEPT ![k] = << >>]
           \/ /\ work[k].then = "answer"
              /\ task' = Answer({work[k].first}, TRUE)
              /\ Put(k, [done EXCEPT !.pc = "run"])
              /\ UNCHANGED queue
           \/ work[k].then = "recv" /\ Put(k, done) /\ UNCHANGED <<queue, task>>
           \/ work[k].then = "replied" /\ Finish(k, {work[k].first}, "none")
           \/ work[k].then = "exit" /\ Finish(k, {}, "none")
        /\ UNCHANGED <<files, used, lifecycle, states, boots, service>>

Closing(k, why) == Put(k, [work[k] EXCEPT !.pc = "closing", !.stop = why])

\* Mutant: the stop is answered before the VM is stopped.
StopAnsweredEarly(k, m) == Closing(k, "Requested") /\ task' = Answer({m}, TRUE)

StopRequested(k, m) ==
    /\ Put(k, [work[k] EXCEPT !.pc = "closing", !.stop = "Requested", !.first = m])
    /\ UNCHANGED task

\* ActiveWorkspace::run, whose select is biased: shutdown, then commands.
Run(k) ==
    /\ work[k].pc = "run"
    /\ \/ shutdown /\ Closing(k, "Shutdown") /\ NoTrouble /\ UNCHANGED <<queue, task>>
       \/ /\ ~shutdown /\ queue[k] # << >> /\ NoTrouble
          /\ LET m == Head(queue[k]) IN
             IF m.kind = "stop"
             THEN StopRequested(k, m)
             ELSE task' = Answer({m}, TRUE) /\ UNCHANGED work
          /\ queue' = [queue EXCEPT ![k] = Tail(@)]
       \/ /\ ~shutdown /\ queue[k] = << >> /\ ~HasSender(k)
          /\ Closing(k, "CommandsClosed") /\ NoTrouble /\ UNCHANGED <<queue, task>>
       \/ /\ ~shutdown /\ queue[k] = << >>
          /\ Closing(k, "Failed") /\ Trouble /\ UNCHANGED <<queue, task>>
    /\ UNCHANGED <<files, lifecycle, shown, boots, service>>

\* ActiveWorkspace::shutdown: the VM is stopped and awaited, then the lock goes.
Close(k) ==
    LET r == Ended(work[k]) IN
    /\ work[k].pc = "closing"
    /\ IF work[k].stop = "Cancelled"
       THEN Finish(k, {}, "none")
       ELSE /\ Put(k, CASE work[k].stop = "Requested" -> Publishing(r, "Stopped", "replied")
                        [] work[k].stop = "Failed" -> Publishing(r, "Failed", "recv")
                        [] OTHER -> Publishing(r, "Stopped", "exit"))
            /\ UNCHANGED <<queue, task>>
    /\ UNCHANGED <<files, used, lifecycle, shown, boots, service>>

WorkerStep(k) ==
    \/ WorkerPublishes(k) \/ Receive(k) \/ start_managed_workspace(k) \/ Boot(k)
    \/ finish_failed_workspace_start(k) \/ Applied(k) \/ Run(k) \/ Close(k)

\* kill_on_drop: the processes of a dropped start die without being awaited.
Reap(k) ==
    /\ work[k].vm = "dying"
    /\ Put(k, [work[k] EXCEPT !.vm = "none"])
    /\ UNCHANGED <<files, used, lifecycle, shown, boots, task, queue, service>>

-----------------------------------------------------------------------------
(* The watcher: notifications are coalesced, then the inventory is         *)
(* reconciled with the configuration tree.                                 *)

run_workspace_watcher ==
    /\ task[Watcher].pc = "idle"
    /\ \/ shutdown /\ Goto(Watcher, "gone") /\ UNCHANGED changed
       \/ changed /\ ~shutdown /\ Goto(Watcher, "scan") /\ changed' = FALSE
    /\ UNCHANGED <<files, used, lifecycle, shown, boots, work, queue, watch, unshown>>

Removed == {w \in Names : watch.snap[w] # "Absent" /\ w \notin watch.names}

\* reconcile_workspace_inventory: read the tree and the list, take the workers
\* of removed workspaces out of the map, stop them in turn, publish the rest.
Reconcile ==
    LET t == task[Watcher] IN
    /\ \/ /\ t.pc = "scan"
          /\ watch' = [names |-> image, snap |-> store, left |-> {}]
          /\ Goto(Watcher, "sweep")
          /\ UNCHANGED <<workers, shown>>
       \/ /\ t.pc = "sweep"
          /\ watch' = [watch EXCEPT !.left = {workers[w] : w \in Removed} \ {None}]
          /\ workers' = [w \in Names |-> IF w \in Removed THEN None ELSE workers[w]]
          /\ Goto(Watcher, "next")
          /\ UNCHANGED shown
       \/ /\ t.pc = "next" /\ watch.left # {}
          /\ \E k \in watch.left :
                /\ watch' = [watch EXCEPT !.left = @ \ {k}]
                /\ task' = [task EXCEPT ![Watcher].peer = k, ![Watcher].pc = "send"]
          /\ UNCHANGED <<workers, shown>>
       \/ /\ t.pc = "end"
          /\ task' = [task EXCEPT ![Watcher].peer = None, ![Watcher].pc = "next"]
          /\ UNCHANGED <<workers, shown, watch>>
       \/ /\ t.pc = "next" /\ watch.left = {}
          /\ store' = [w \in Names |->
                LET current == IF states[w] = "Absent" THEN "Stopped" ELSE states[w] IN
                IF w \in watch.names
                THEN IF watch.snap[w] = current THEN store[w] ELSE current
                ELSE IF watch.snap[w] # "Absent" THEN "Absent" ELSE store[w]]
          /\ states' = [w \in Names |-> IF w \in watch.names THEN states[w] ELSE "Absent"]
          /\ watch' = Unread
          /\ Goto(Watcher, "idle")
          /\ UNCHANGED workers
    /\ UNCHANGED <<files, used, stopping, shutdown, boots, work, queue, changed, unshown>>

WatcherStep == run_workspace_watcher \/ Reconcile \/ Send(Watcher)

-----------------------------------------------------------------------------
(* Shutdown, and what happens outside the daemon.                          *)

Shutdown ==
    /\ task[Closer].pc = "idle" /\ ~shutdown
    /\ Trouble
    /\ shutdown' = TRUE
    /\ Goto(Closer, "clear")
    /\ UNCHANGED <<files, workers, stopping, shown, boots, work, queue, service>>

\* The map is cleared, every task awaited, and every known workspace shown stopped.
FinishShutdown ==
    /\ \/ /\ task[Closer].pc = "clear"
          /\ workers' = [w \in Names |-> None]
          /\ Goto(Closer, "join")
          /\ UNCHANGED unshown
       \/ /\ task[Closer].pc = "join" /\ \A k \in Workers : ~Alive(k)
          /\ unshown' = {w \in Names : states[w] # "Absent"}
          /\ Goto(Closer, "next")
          /\ UNCHANGED workers
       \/ /\ task[Closer].pc = "next" /\ unshown # {}
          /\ \E w \in unshown :
                /\ unshown' = unshown \ {w}
                /\ task' = [task EXCEPT ![Closer] = Publishing([@ EXCEPT !.ws = w], "Stopped", "next")]
          /\ UNCHANGED workers
       \/ /\ task[Closer].pc = "next" /\ unshown = {}
          /\ Goto(Closer, "returned")
          /\ UNCHANGED <<workers, unshown>>
    /\ UNCHANGED <<files, used, stopping, shutdown, shown, boots, work, queue, changed, watch>>

CloserStep == FinishShutdown \/ TaskPublishes(Closer)

\* Somebody adds or removes a configuration directory by hand.
Edit(w) ==
    /\ Trouble
    /\ image' = IF w \in image THEN image \ {w} ELSE image \cup {w}
    /\ changed' = TRUE
    /\ UNCHANGED <<partition, lifecycle, shown, boots, task, work, queue, watch, unshown>>

Next ==
    \/ \E c \in Calls, op \in Ops, w \in Names : Begin(c, op, w)
    \/ \E c \in Calls : CallStep(c) \/ Drop(c)
    \/ \E k \in Workers : WorkerStep(k) \/ Reap(k)
    \/ WatcherStep \/ Shutdown \/ CloserStep
    \/ \E w \in Names : Edit(w)

Spec == Init /\ [][Next]_vars

\* A worker task is scheduled, a start is bounded by startup_timeout and a VM stop
\* by shutdown_timeout, so its steps happen once they stay possible.  Nothing is
\* assumed of the calls, the watcher or the user.
Fairness == \A k \in Workers : WF_vars(WorkerStep(k))

FairSpec == Spec /\ Fairness

-----------------------------------------------------------------------------
(* Properties.                                                             *)

Live == {k \in Workers : work[k].vm \in {"booting", "up"}}

\* Two VMs never use one state partition, although the watcher takes a worker out
\* of the map without marking the workspace as stopping and a call may then spawn
\* a second worker next to it: vm.lock is held for as long as the VM exists.
OneVmPerPartition ==
    \A j, k \in Live : work[j].lock = work[k].lock => j = k

\* Once shutdown has returned there is no worker and no VM, and none appears: a
\* call that passed the first check is stopped by the check under the map's lock.
ShutdownIsComplete ==
    task[Closer].pc = "returned" => Live = {} /\ \A k \in Workers : ~Alive(k)

\* When a stop or destroy has its answer the worker it took from the map has no
\* VM any more, also when the answer is a closed channel ("a closed worker no
\* longer owns a running VM").  A refused stop is excepted: shutdown took over.
StopMeansStopped ==
    \A c \in Calls : task[c].pc = "end" /\ task[c].ok /\ task[c].peer # None
                        => task[c].peer \notin Live

\* A state disk is discarded at most once, however often the VM restarts.
ResetOnce == \A w \in Names : resets[w] <= 1

\* A workspace is not shown as starting for ever: however the start ends, the list
\* comes to say so.  (A list that shutdown froze is excepted: a worker may add its
\* entry again after the watcher has removed it, and then shutdown skips it.)
StartsEnd == \A w \in Names : store[w] = "Starting" ~> store[w] # "Starting" \/ shutdown

\* The limit's description, "maximum number of workspace VMs this host daemon
\* may own", as an invariant.
VmsWithinLimit == Cardinality(Live) <= MaxWorkspaces

=============================================================================
