-------------------------- MODULE WorkspacesProofs --------------------------
(***************************************************************************)
(* Proofs about Workspaces, for any workspaces, calls, workers and bounds: *)
(* a VM has its partition for itself, shutdown leaves nothing running, a   *)
(* stop leaves no VM, and a disk is discarded at most once per request.    *)
(*                                                                         *)
(* The inductive invariant IInv says where a task or a worker may be and   *)
(* what its fields mean there (Shape); that whoever has a command in a     *)
(* queue waits for the answer, and has only one there (Mail); that a stop  *)
(* is answered by a worker that has no VM and will get none (Answered);    *)
(* that no two workers hold one vm.lock (Locks); that a disk is discarded  *)
(* by the one worker that took the request (Discards); and that shutdown,  *)
(* past its join, has left no worker (Ending).                             *)
(***************************************************************************)
EXTENDS Workspaces, TLAPS

Statuses == {"Absent", "Stopped", "Starting", "Running", "Stopping", "Failed", "Destroying"}

Command == [by : Callers \cup {None}, kind : {"none", "connect", "stop"}]

Task ==
    [pc : {"idle", "sender", "send", "wait", "closed", "instance", "begin", "end", "preflight",
           "state", "config", "forget", "unlist", "rename", "publish", "apply", "gone", "scan",
           "sweep", "next", "clear", "join", "returned"},
     op : {"none", "connect", "stop", "destroy", "create", "orphan"},
     ws : Names \cup {None}, show : Statuses, then : {"idle", "begin", "preflight", "next"},
     peer : Workers \cup {None}, tries : {0, 1, 2}, ok : BOOLEAN]

Worker ==
    [pc : {"gone", "recv", "publish", "apply", "boot", "failing", "run", "closing"},
     ws : Names \cup {None}, show : Statuses,
     then : {"gone", "start", "failed", "answer", "recv", "replied", "exit"},
     first : Command, reset : BOOLEAN, lock : Nat, vm : {"none", "booting", "up", "dying"},
     stop : {"none", "Cancelled", "Requested", "Failed", "Shutdown", "CommandsClosed"}]

(* Where a caller may be, and what its fields mean there.                  *)
TaskOK(c, t) ==
    /\ c \in Calls /\ t.pc # "idle" => t.ws \in Names /\ t.tries \in {1, 2}
    /\ t.pc \in {"send", "wait"} => t.peer \in Workers
    /\ c \notin Calls => t.op = "none"
    /\ c = Watcher => t.pc \in {"idle", "gone", "scan", "sweep", "next", "send", "wait", "end"}
    /\ c = Closer => t.pc \in {"idle", "clear", "join", "next", "publish", "apply", "returned"}
    /\ c = Closer /\ t.pc \in {"publish", "apply"} => t.then = "next"

(* Where a worker may have a VM, and where it may owe an answer to a stop. *)
WorkerOK(r) ==
    /\ r.pc # "gone" => r.ws \in Names
    /\ r.pc = "gone" => r.vm \in {"none", "dying"} /\ r.first = NoCommand /\ ~r.reset
    /\ r.pc = "boot" => r.vm = "booting"
    /\ r.vm \in {"booting", "up"} =>
          /\ r.lock # 0
          /\ \/ r.pc \in {"boot", "failing", "run", "closing"}
             \/ r.pc \in {"publish", "apply"} /\ r.then = "answer"
    /\ r.first.kind = "stop" =>
          \/ r.pc \in {"publish", "apply"} /\ r.then = "replied"
          \/ r.pc = "closing" /\ r.stop = "Requested"

TaskShape == task \in [Callers -> Task] /\ \A c \in Callers : TaskOK(c, task[c])
WorkShape == work \in [Workers -> Worker] /\ \A k \in Workers : WorkerOK(work[k])

(* The variables other than task, work and queue. *)
RestOK ==
    /\ image \in SUBSET Names /\ stopping \in SUBSET Names /\ reset \in SUBSET Names
    /\ unshown \in SUBSET Names
    /\ partition \in [Names -> Nat] /\ resets \in [Names -> Nat] /\ last \in Nat
    /\ workers \in [Names -> Workers \cup {None}]
    /\ states \in [Names -> Statuses] /\ store \in [Names -> Statuses]
    /\ shutdown \in BOOLEAN /\ changed \in BOOLEAN
    /\ watch \in [names : SUBSET Names, snap : [Names -> Statuses], left : SUBSET Workers]

(* The types of the variables, with what the places of tasks and workers   *)
(* say about their fields.                                                 *)
Shape == TaskShape /\ WorkShape /\ RestOK /\ queue \in [Workers -> Seq(Command)]

(* The sender of m waits for the answer of k. *)
Sent(m, k) == task[m.by].pc = "wait" /\ task[m.by].peer = k /\ m.kind = Kind(task[m.by].op)

(* Whoever sent a command waits for its answer, and sent only one. *)
MailFor(k) ==
    /\ ~Alive(k) => queue[k] = << >>
    /\ work[k].first.by # None => Sent(work[k].first, k)
    /\ \A i \in DOMAIN queue[k] :
          queue[k][i].by # None =>
              /\ Sent(queue[k][i], k)
              /\ work[k].first.by # queue[k][i].by
              /\ \A j \in DOMAIN queue[k] : queue[k][j].by = queue[k][i].by => i = j

Mail == \A k \in Workers : MailFor(k)

(* A worker whose stop was answered has no VM and will not have one. *)
Over(k) == ~Alive(k) \/ (work[k].pc \in {"publish", "apply"} /\ work[k].then = "replied")

(* A stop that was answered, and has not ended yet, has a worker that is over. *)
Answered ==
    \A c \in Callers : task[c].pc = "end" /\ task[c].ok /\ task[c].peer # None
                          => Over(task[c].peer)

(* No two workers hold one vm.lock. *)
Locks ==
    \A j, k \in Workers : work[j].lock = work[k].lock /\ work[k].lock # 0 => j = k

(* A disk is discarded at most once, by the one worker that took the request. *)
Discards ==
    /\ \A w \in Names : resets[w] <= 1
    /\ \A w \in reset : resets[w] = 0
    /\ \A k \in Workers : work[k].reset => resets[work[k].ws] = 0 /\ work[k].ws \notin reset
    /\ \A j, k \in Workers : work[j].reset /\ work[k].reset /\ work[j].ws = work[k].ws => j = k

(* Once shutdown has joined the workers there are none. *)
Ending ==
    /\ task[Closer].pc # "idle" => shutdown
    /\ task[Closer].pc \in {"next", "publish", "apply", "returned"} => \A k \in Workers : ~Alive(k)

Rest == Locks /\ Discards /\ Ending

IInv == Shape /\ Mail /\ Answered /\ Rest

-----------------------------------------------------------------------------
(* Shape: one lemma per kind of step.                                      *)

(* One caller moves to a fitting record. *)
LEMMA TaskSet ==
    ASSUME Shape, NEW c \in Callers, NEW t \in Task, TaskOK(c, t),
           task' = [task EXCEPT ![c] = t]
    PROVE  TaskShape' /\ task'[c] = t /\ \A d \in Callers : d # c => task'[d] = task[d]
BY Zenon DEF Shape, TaskShape

(* One worker moves to a fitting record. *)
LEMMA WorkSet ==
    ASSUME Shape, NEW k \in Workers, NEW r \in Worker, WorkerOK(r),
           work' = [work EXCEPT ![k] = r]
    PROVE  WorkShape'
BY Zenon DEF Shape, WorkShape

(* A caller between two calls fits. *)
LEMMA IdleOK == Idle \in Task /\ \A c \in Callers : TaskOK(c, Idle)
BY WorkspacesAssumption, Zenon DEF Idle, Task, TaskOK, Statuses, Callers

(* A worker that is not there fits. *)
LEMMA GoneFits == Gone \in Worker /\ WorkerOK(Gone)
BY Zenon DEF Gone, Worker, WorkerOK, NoCommand, Command, Statuses

(* So does one whose VM is still dying. *)
LEMMA GoneOK ==
    ASSUME NEW vm \in {"none", "dying"}
    PROVE  [Gone EXCEPT !.vm = vm] \in Worker /\ WorkerOK([Gone EXCEPT !.vm = vm])
BY Zenon DEF Gone, Worker, WorkerOK, NoCommand, Command, Statuses

(* A caller that is called gives back a fitting record. *)
LEMMA TaskAt ==
    ASSUME Shape, NEW c \in Callers
    PROVE  task[c] \in Task /\ TaskOK(c, task[c])
BY Zenon DEF Shape, TaskShape

(* A worker fits. *)
LEMMA WorkAt ==
    ASSUME Shape, NEW k \in Workers
    PROVE  work[k] \in Worker /\ WorkerOK(work[k])
BY Zenon DEF Shape, WorkShape

(* A call is one of the callers. *)
LEMMA CallIsCaller == ASSUME NEW c \in Calls PROVE c \in Callers /\ c # Watcher /\ c # Closer
BY WorkspacesAssumption, Zenon DEF Callers

(* So are the watcher and shutdown, and neither is a call. *)
LEMMA OthersAreCallers == Watcher \in Callers /\ Closer \in Callers /\ Watcher # Closer
                          /\ Watcher \notin Calls /\ Closer \notin Calls /\ None \notin Callers
BY WorkspacesAssumption, Zenon DEF Callers

(* A step of a caller that touches no worker, queue or disk; it comes to   *)
(* the end of a stop without a peer, or when the peer is over.             *)
QuietBy(c) ==
    /\ task[c].pc # "wait"
    /\ \A d \in Callers : d # c => task'[d] = task[d]
    /\ task'[c].pc = "end" => task'[c].peer = None \/ Over(task'[c].peer)
    /\ work' = work /\ queue' = queue /\ reset' = reset /\ resets' = resets

(* A step of c that leaves workers, queues and disks alone. *)
Untouched(c) ==
    /\ task[c].pc # "wait" /\ work' = work /\ queue' = queue /\ reset' = reset /\ resets' = resets

(* c may have the record t. *)
Fits(c, t) == t \in Task /\ TaskOK(c, t) /\ (t.pc = "end" => t.peer = None)

(* A caller may return. *)
LEMMA IdleFits == ASSUME NEW c \in Callers PROVE Fits(c, Idle)
BY IdleOK, Zenon DEF Fits, Idle

(* The shape of a quiet step. *)
LEMMA Quietly ==
    ASSUME Shape, NEW c \in Callers, NEW t, Fits(c, t), task' = [task EXCEPT ![c] = t],
           Untouched(c), RestOK'
    PROVE  Shape' /\ QuietBy(c)
<1>1. TaskShape' /\ task'[c] = t /\ \A d \in Callers : d # c => task'[d] = task[d]
  BY TaskSet, Zenon DEF Fits
<1> QED BY <1>1, Zenon DEF Fits, Untouched, QuietBy, Shape, WorkShape

(* A caller that only goes on. *)
LEMMA GotoShape ==
    ASSUME Shape, NEW c \in Callers, NEW pc, Goto(c, pc),
           [task[c] EXCEPT !.pc = pc] \in Task, TaskOK(c, [task[c] EXCEPT !.pc = pc])
    PROVE  TaskShape'
<1>1. task' = [task EXCEPT ![c] = [task[c] EXCEPT !.pc = pc]]
  BY Zenon DEF Goto
<1> QED BY <1>1, TaskSet, Zenon

(* A caller that returns. *)
LEMMA ReturnShape ==
    ASSUME Shape, NEW c \in Callers, Return(c)
    PROVE  TaskShape'
BY IdleOK, TaskSet, Zenon DEF Return

(* At first. *)
LEMMA InitShape == Init => Shape
<1> SUFFICES ASSUME Init PROVE Shape
  BY Zenon
<1>1. TaskShape
  BY IdleOK, Zenon DEF Init, TaskShape
<1>3. WorkShape
  BY GoneFits, Zenon DEF Init, WorkShape
<1>4. RestOK
  BY WorkspacesAssumption, Zenon DEF Init, RestOK, Unread, Statuses
<1>5. queue \in [Workers -> Seq(Command)]
  BY DEF Init
<1> QED BY <1>1, <1>3, <1>4, <1>5, Zenon DEF Shape

(* A caller publishes a status. *)
LEMMA PublishesQuiet ==
    ASSUME Shape, NEW c \in Calls \cup {Closer}, TaskPublishes(c)
    PROVE  Shape' /\ QuietBy(c)
<1>1. c \in Callers /\ c # Watcher /\ task[c] \in Task /\ TaskOK(c, task[c])
  BY CallIsCaller, OthersAreCallers, TaskAt, Zenon
<1>2. Untouched(c) /\ RestOK'
  <2>1. states' \in [Names -> Statuses] /\ store' \in [Names -> Statuses]
    BY <1>1, Zenon DEF TaskPublishes, PublishState, ApplyToStore, Shape, RestOK, Task
  <2> QED BY <2>1, Zenon DEF TaskPublishes, PublishState, ApplyToStore, Shape, RestOK, Untouched, files,
             lifecycle, boots, service
<1>3. CASE PublishState(task[c]) /\ task' = [task EXCEPT ![c].pc = "apply"]
  <2> DEFINE t == [task[c] EXCEPT !.pc = "apply"]
  <2>1. Fits(c, t)
    BY <1>1, <1>3 DEF Task, TaskOK, PublishState, Fits
  <2> QED BY <1>1, <1>2, <1>3, <2>1, Quietly, Zenon
<1>4. CASE /\ ApplyToStore(task[c])
           /\ task' = [task EXCEPT ![c] = IF @.then = "idle" THEN Idle
                                          ELSE [@ EXCEPT !.pc = task[c].then, !.show = "Absent",
                                                         !.then = "idle"]]
  <2> DEFINE t == [task[c] EXCEPT !.pc = task[c].then, !.show = "Absent", !.then = "idle"]
  <2>1. t \in Task
    <3>1. "Absent" \in Statuses
      BY Zenon DEF Statuses
    <3> QED BY <1>1, <3>1, Zenon DEF Task
  <2>2. ASSUME task[c].then # "idle" PROVE Fits(c, t)
    BY <1>1, <1>4, <2>1, <2>2, CallIsCaller DEF Task, TaskOK, ApplyToStore, Fits
  <2> QED BY <1>1, <1>2, <1>4, <2>2, IdleFits, Quietly, Zenon
<1> QED BY <1>3, <1>4, Zenon DEF TaskPublishes

(* A call begins. *)
LEMMA BeginQuiet ==
    ASSUME Shape, NEW c \in Calls, NEW op \in Ops, NEW w \in Names, Begin(c, op, w)
    PROVE  Shape' /\ QuietBy(c)
<1>1. c \in Callers /\ c # Watcher /\ c # Closer
  BY CallIsCaller, Zenon
<1>2. op \in {"connect", "stop", "destroy", "create"}
  BY WorkspacesAssumption, Zenon
<1>3. PICK pc \in {"sender", "instance", "begin", "rename"} :
         task' = [task EXCEPT ![c] = [Idle EXCEPT !.op = op, !.ws = w, !.tries = 2, !.pc = pc]]
  BY <1>2, Zenon DEF Begin
<1>4. [Idle EXCEPT !.op = op, !.ws = w, !.tries = 2, !.pc = pc] \in Task
  BY <1>2, <1>3, Zenon DEF Idle, Task, Statuses
<1>5. Fits(c, [Idle EXCEPT !.op = op, !.ws = w, !.tries = 2, !.pc = pc])
  BY <1>1, <1>3, <1>4, Zenon DEF Idle, TaskOK, Fits
<1>6. Untouched(c) /\ RestOK'
  BY Zenon DEF Begin, Shape, RestOK, Untouched, files, lifecycle, shown, boots, service
<1> QED BY <1>1, <1>3, <1>5, <1>6, Quietly, Zenon

(* worker_sender finds a worker or spawns one. *)
LEMMA SenderShape ==
    ASSUME Shape, NEW c \in Calls, worker_sender(c)
    PROVE  Shape'
<1> DEFINE w == task[c].ws
           kept == [v \in Names |-> IF v \in Open THEN workers[v] ELSE None]
           fresh == CHOOSE k \in Workers : Free(k)
           hired == [Gone EXCEPT !.pc = "recv", !.ws = w, !.reset = w \in reset]
<1>1. c \in Callers /\ c # Watcher /\ c # Closer
  BY CallIsCaller, Zenon
<1>2. task[c] \in Task /\ TaskOK(c, task[c]) /\ task[c].pc = "sender"
  BY <1>1, TaskAt, Zenon DEF worker_sender
<1>3. w \in Names
  BY <1>2, Zenon DEF TaskOK
<1>4. kept \in [Names -> Workers \cup {None}]
  BY Zenon DEF Shape, RestOK
<1>5. queue' = queue /\ RestOK' = (reset' \in SUBSET Names /\ workers' \in [Names -> Workers \cup {None}])
  BY Zenon DEF worker_sender, files, shown, service, Shape, RestOK
<1>6. ASSUME NEW k \in Workers
      PROVE  /\ [task[c] EXCEPT !.peer = k, !.pc = "send"] \in Task
             /\ TaskOK(c, [task[c] EXCEPT !.peer = k, !.pc = "send"])
  BY <1>1, <1>2, <1>3, Zenon DEF Task, TaskOK
<1>7. CASE Refused(w) /\ Return(c) /\ UNCHANGED <<workers, reset, work>>
  BY <1>1, <1>5, <1>7, ReturnShape, Zenon DEF Shape, RestOK, WorkShape
<1>8. CASE /\ ~Refused(w) /\ w \in Open /\ workers' = kept
           /\ task' = [task EXCEPT ![c].peer = workers[w], ![c].pc = "send"]
           /\ UNCHANGED <<reset, work>>
  <2>1. workers[w] \in Workers
    BY <1>3, <1>8, Zenon DEF Open, Shape, RestOK
  <2>2. task' = [task EXCEPT ![c] = [task[c] EXCEPT !.peer = workers[w], !.pc = "send"]]
    BY <1>1, <1>8, Zenon DEF Shape, TaskShape
  <2>3. TaskShape'
    BY <1>1, <1>6, <2>1, <2>2, TaskSet, Zenon
  <2> QED BY <1>4, <1>5, <1>8, <2>3, Zenon DEF Shape, RestOK, WorkShape
<1>9. CASE /\ workers' = kept /\ Return(c) /\ UNCHANGED <<reset, work>>
  BY <1>1, <1>4, <1>5, <1>9, ReturnShape, Zenon DEF Shape, RestOK, WorkShape
<1>10. CASE /\ ~Refused(w) /\ reset' = reset \ {w} /\ \E k \in Workers : Free(k)
            /\ workers' = [kept EXCEPT ![w] = fresh]
            /\ work' = [work EXCEPT ![fresh] = hired]
            /\ task' = [task EXCEPT ![c].peer = fresh, ![c].pc = "send"]
  <2>1. fresh \in Workers
    BY <1>10, Zenon
  <2> HIDE DEF fresh
  <2>2. task' = [task EXCEPT ![c] = [task[c] EXCEPT !.peer = fresh, !.pc = "send"]]
    BY <1>1, <1>10, Zenon DEF Shape, TaskShape
  <2>3. TaskShape'
    BY <1>1, <1>6, <2>1, <2>2, TaskSet, Zenon
  <2>4. hired \in Worker /\ WorkerOK(hired)
    <3> DEFINE b == w \in reset
    <3>1. b \in BOOLEAN
      OBVIOUS
    <3>2. hired = [Gone EXCEPT !.pc = "recv", !.ws = w, !.reset = b]
      BY Zenon
    <3> HIDE DEF b, w, hired
    <3>3. hired = [pc |-> "recv", ws |-> w, show |-> "Absent", then |-> "gone",
                   first |-> NoCommand, reset |-> b, lock |-> 0, vm |-> "none", stop |-> "none"]
      BY <3>2, Zenon DEF Gone
    <3>4. NoCommand \in Command /\ NoCommand.kind = "none"
      BY Zenon DEF NoCommand, Command
    <3>5. hired \in Worker
      BY <1>3, <3>1, <3>3, <3>4, Zenon DEF Worker, Statuses
    <3>6. WorkerOK(hired)
      BY <1>3, <3>3, <3>4, Zenon DEF WorkerOK
    <3> QED BY <3>5, <3>6, Zenon
  <2>5. WorkShape'
    BY <1>10, <2>1, <2>4, WorkSet, Zenon
  <2>6. workers' \in [Names -> Workers \cup {None}]
    BY <1>4, <1>10, <2>1, Zenon
  <2>7. reset' \in SUBSET Names
    BY <1>10, Zenon DEF Shape, RestOK
  <2> QED BY <1>5, <2>3, <2>5, <2>6, <2>7, Zenon DEF Shape
<1> QED BY <1>7, <1>8, <1>9, <1>10, Zenon DEF worker_sender

(* The command is sent, or the queue is closed. *)
LEMMA SendShape ==
    ASSUME Shape, NEW c \in Calls \cup {Watcher}, Send(c)
    PROVE  Shape'
<1>1. c \in Callers /\ c # Closer
  BY CallIsCaller, OthersAreCallers, Zenon
<1>2. task[c] \in Task /\ TaskOK(c, task[c]) /\ task[c].pc = "send" /\ task[c].peer \in Workers
  BY <1>1, TaskAt, Zenon DEF Send, TaskOK
<1>3. RestOK' /\ WorkShape'
  BY Zenon DEF Send, Shape, RestOK, WorkShape, files, lifecycle, shown, boots, service
<1>4. [by |-> c, kind |-> Kind(task[c].op)] \in Command
  BY <1>1, Zenon DEF Command, Kind
<1>5. queue' \in [Workers -> Seq(Command)]
  <2> DEFINE m == [by |-> c, kind |-> Kind(task[c].op)]
             k == task[c].peer
  <2>1. queue' = queue \/ queue' = [queue EXCEPT ![k] = Append(queue[k], m)]
    BY Zenon DEF Send
  <2>2. m \in Command /\ k \in Workers /\ queue \in [Workers -> Seq(Command)]
    BY <1>2, <1>4, Zenon DEF Shape
  <2> DEFINE q == Append(queue[k], m)
  <2> HIDE DEF m, k
  <2>3. q \in Seq(Command)
    BY <2>2
  <2> HIDE DEF q
  <2>4. [queue EXCEPT ![k] = q] \in [Workers -> Seq(Command)]
    BY <2>2, <2>3, Zenon
  <2> QED BY <2>1, <2>2, <2>4, Zenon DEF q
<1>6. PICK pc \in {"wait", "closed", "end"} : Goto(c, pc) /\ (c = Watcher => pc # "closed")
  BY <1>1, <1>2, OthersAreCallers, Zenon DEF Send, TaskOK
<1>7. [task[c] EXCEPT !.pc = pc] \in Task
  BY <1>2, <1>6, Zenon DEF Task
<1>8. TaskOK(c, [task[c] EXCEPT !.pc = pc])
  BY <1>1, <1>2, <1>6, Zenon DEF Task, TaskOK
<1>9. TaskShape'
  BY <1>1, <1>6, <1>7, <1>8, GotoShape, Zenon
<1> QED BY <1>3, <1>5, <1>9, Zenon DEF Shape

(* A caller that goes to publish fits. *)
LEMMA TaskPublishing ==
    ASSUME NEW c \in Calls, NEW t \in Task, TaskOK(c, t), t.pc # "idle",
           NEW show \in Statuses, NEW then \in {"idle", "begin", "preflight"}
    PROVE  Fits(c, Publishing(t, show, then))
<1>1. c # Watcher /\ c # Closer
  BY CallIsCaller, Zenon
<1>2. /\ Publishing(t, show, then) \in Task
      /\ Publishing(t, show, then).pc = "publish"
      /\ Publishing(t, show, then).ws = t.ws
      /\ Publishing(t, show, then).tries = t.tries
  BY Zenon DEF Publishing, Task
<1> QED BY <1>1, <1>2, Zenon DEF TaskOK, Fits

(* The steps of a call that send nothing and start no worker. *)
LEMMA CallQuiet ==
    ASSUME Shape, NEW c \in Calls, CallStep(c), ~worker_sender(c), ~Send(c)
    PROVE  Shape' /\ QuietBy(c)
<1>0. CASE TaskPublishes(c)
  BY <1>0, PublishesQuiet, Zenon
<1>1. CASE remove_closed_worker(c)
  <2> USE <1>1
  <2> DEFINE t == [task[c] EXCEPT !.pc = "sender", !.peer = None, !.tries = task[c].tries - 1]
  <2>1. c \in Callers /\ c # Watcher /\ c # Closer
    BY CallIsCaller, Zenon
  <2>2. task[c] \in Task /\ TaskOK(c, task[c]) /\ task[c].pc = "closed"
    BY <2>1, TaskAt, Zenon DEF remove_closed_worker
  <2>3. ASSUME task[c].tries > 1 PROVE Fits(c, t)
    <3>1. task[c].tries - 1 = 1 /\ task[c].ws \in Names
      BY <2>2, <2>3 DEF TaskOK
    <3>2. t \in Task /\ t.pc = "sender" /\ t.tries = 1 /\ t.ws = task[c].ws
      BY <2>2, <3>1, Zenon DEF Task
    <3> QED BY <2>1, <3>1, <3>2, Zenon DEF TaskOK, Fits
  <2>4. task' = [task EXCEPT ![c] = Idle] \/ (task[c].tries > 1 /\ task' = [task EXCEPT ![c] = t])
    BY Zenon DEF remove_closed_worker, Return
  <2>5. workers' \in [Names -> Workers \cup {None}]
    BY Zenon DEF remove_closed_worker, Shape, RestOK
  <2>6. Untouched(c) /\ RestOK'
    BY <2>5, Zenon DEF remove_closed_worker, Shape, RestOK, Untouched, files, shown, boots, service
  <2> QED BY <2>1, <2>3, <2>4, <2>6, IdleFits, Quietly, Zenon
<1>2. CASE current_guest_instance(c)
  <2> USE <1>2
  <2>1. c \in Callers /\ c # Watcher /\ c # Closer
    BY CallIsCaller, Zenon
  <2>2. task[c] \in Task /\ TaskOK(c, task[c]) /\ task[c].pc = "instance"
    BY <2>1, TaskAt, Zenon DEF current_guest_instance
  <2>3. Fits(c, [task[c] EXCEPT !.pc = "begin"])
    BY <2>1, <2>2, Zenon DEF Task, TaskOK, Fits
  <2>4. Fits(c, Publishing(task[c], "Stopping", "begin"))
    BY <2>2, TaskPublishing, Zenon DEF Statuses
  <2>5. \/ task' = [task EXCEPT ![c] = Publishing(task[c], "Stopping", "begin")]
        \/ task' = [task EXCEPT ![c] = [task[c] EXCEPT !.pc = "begin"]]
    BY Zenon DEF current_guest_instance, Goto
  <2>6. Untouched(c) /\ RestOK'
    BY Zenon DEF current_guest_instance, Shape, RestOK, Untouched, files, lifecycle, shown, boots, service
  <2> QED BY <2>1, <2>3, <2>4, <2>5, <2>6, Quietly, Zenon
<1>3. CASE begin_workspace_stop(c)
  <2> USE <1>3
  <2> DEFINE w == task[c].ws
             pc == IF workers[w] = None THEN "end" ELSE "send"
             t == [task[c] EXCEPT !.peer = workers[w], !.pc = pc]
  <2>1. c \in Callers /\ c # Watcher /\ c # Closer
    BY CallIsCaller, Zenon
  <2>2. task[c] \in Task /\ TaskOK(c, task[c]) /\ task[c].pc = "begin"
    BY <2>1, TaskAt, Zenon DEF begin_workspace_stop
  <2>3. w \in Names /\ workers[w] \in Workers \cup {None}
        /\ ((pc = "end" /\ workers[w] = None) \/ (pc = "send" /\ workers[w] \in Workers))
    BY <2>2, Zenon DEF TaskOK, Shape, RestOK
  <2>4. Fits(c, t)
    <3> HIDE DEF pc
    <3>1. t \in Task /\ t.pc = pc /\ t.peer = workers[w] /\ t.ws = w /\ t.tries = task[c].tries
      BY <2>2, <2>3, Zenon DEF Task
    <3> QED BY <2>1, <2>2, <2>3, <3>1, Zenon DEF TaskOK, Fits
  <2>5. task' = [task EXCEPT ![c] = Idle] \/ task' = [task EXCEPT ![c] = t]
    BY <2>1, Zenon DEF begin_workspace_stop, Return, Shape, TaskShape
  <2>6. workers' \in [Names -> Workers \cup {None}] /\ stopping' \in SUBSET Names
    BY <2>3, Zenon DEF begin_workspace_stop, Shape, RestOK
  <2>7. Untouched(c) /\ RestOK'
    BY <2>6, Zenon DEF begin_workspace_stop, Shape, RestOK, Untouched, files, shown, boots, service
  <2> QED BY <2>1, <2>4, <2>5, <2>7, IdleFits, Quietly, Zenon
<1>4. CASE end_workspace_stop(c)
  <2> USE <1>4
  <2> DEFINE t == [task[c] EXCEPT !.peer = None]
  <2>1. c \in Callers /\ c # Watcher /\ c # Closer
    BY CallIsCaller, Zenon
  <2>2. task[c] \in Task /\ TaskOK(c, task[c]) /\ task[c].pc = "end"
    BY <2>1, TaskAt, Zenon DEF end_workspace_stop
  <2>3. t \in Task /\ TaskOK(c, t) /\ t.pc = "end"
    <3>1. t \in Task /\ t.pc = "end" /\ t.ws = task[c].ws /\ t.tries = task[c].tries
      BY <2>2, Zenon DEF Task
    <3> QED BY <2>1, <2>2, <3>1, Zenon DEF TaskOK
  <2>4. PICK s \in {Idle, Publishing(t, "Stopped", "idle"), Publishing(t, "Destroying", "preflight")} :
           task' = [task EXCEPT ![c] = s]
    BY Zenon DEF end_workspace_stop
  <2>5. Fits(c, s)
    <3> HIDE DEF t
    <3>1. {"Stopped", "Destroying"} \subseteq Statuses
      BY Zenon DEF Statuses
    <3> QED BY <2>1, <2>3, <2>4, <3>1, IdleFits, TaskPublishing, Zenon
  <2>6. Untouched(c) /\ RestOK'
    BY <2>2, Zenon DEF end_workspace_stop, Shape, RestOK, Untouched, files, shown, boots, service
  <2> QED BY <2>1, <2>4, <2>5, <2>6, Quietly, Zenon
<1>5. CASE delete_managed_workspace(c)
  <2> USE <1>5
  <2>1. c \in Callers /\ c # Watcher /\ c # Closer
    BY CallIsCaller, Zenon
  <2>2. task[c] \in Task /\ TaskOK(c, task[c]) /\ task[c].pc # "idle"
    BY <2>1, TaskAt, Zenon DEF delete_managed_workspace
  <2>3. ASSUME NEW pc \in {"state", "config", "forget", "unlist"}
        PROVE  Fits(c, [task[c] EXCEPT !.pc = pc])
    <3>1. /\ [task[c] EXCEPT !.pc = pc] \in Task
          /\ [task[c] EXCEPT !.pc = pc].pc = pc
          /\ [task[c] EXCEPT !.pc = pc].ws = task[c].ws
          /\ [task[c] EXCEPT !.pc = pc].tries = task[c].tries
      BY <2>2, Zenon DEF Task
    <3> QED BY <2>1, <2>2, <2>3, <3>1, Zenon DEF TaskOK, Fits
  <2>4. \/ task' = [task EXCEPT ![c] = Idle]
        \/ \E pc \in {"state", "config", "forget", "unlist"} :
              task' = [task EXCEPT ![c] = [task[c] EXCEPT !.pc = pc]]
    BY Zenon DEF delete_managed_workspace, Goto, Return
  <2>5. /\ image' \in SUBSET Names /\ partition' \in [Names -> Nat] /\ changed' \in BOOLEAN
        /\ states' \in [Names -> Statuses] /\ store' \in [Names -> Statuses]
    <3>1. image' \in SUBSET Names /\ changed' \in BOOLEAN
      BY Zenon DEF delete_managed_workspace, Shape, RestOK, files
    <3>2. partition' \in [Names -> Nat]
      <4>1. partition' = partition \/ partition' = [partition EXCEPT ![task[c].ws] = 0]
        BY Zenon DEF delete_managed_workspace, files
      <4> QED BY <4>1 DEF Shape, RestOK
    <3>3. states' \in [Names -> Statuses] /\ store' \in [Names -> Statuses]
      BY Zenon DEF delete_managed_workspace, Shape, RestOK, shown, Statuses
    <3> QED BY <3>1, <3>2, <3>3, Zenon
  <2>6. Untouched(c) /\ RestOK'
    BY <2>5, Zenon DEF delete_managed_workspace, Shape, RestOK, Untouched, lifecycle, boots
  <2> QED BY <2>1, <2>3, <2>4, <2>6, IdleFits, Quietly, Zenon
<1>6. CASE publish_create(c)
  <2> USE <1>6
  <2>1. c \in Callers
    BY CallIsCaller, Zenon
  <2>2. task[c] \in Task /\ TaskOK(c, task[c]) /\ task[c].pc = "rename" /\ task[c].ws \in Names
    BY <2>1, TaskAt, Zenon DEF publish_create, TaskOK
  <2>3. Fits(c, Publishing(task[c], "Stopped", "idle"))
    BY <2>2, TaskPublishing, Zenon DEF Statuses
  <2>4. \/ task' = [task EXCEPT ![c] = Idle]
        \/ task' = [task EXCEPT ![c] = Publishing(task[c], "Stopped", "idle")]
    BY Zenon DEF publish_create, Return
  <2>5. image' \in SUBSET Names /\ changed' \in BOOLEAN
    BY <2>2, Zenon DEF publish_create, Shape, RestOK
  <2>6. Untouched(c) /\ RestOK'
    BY <2>2, <2>5, Zenon DEF publish_create, Shape, RestOK, Untouched, lifecycle, shown, boots
  <2> QED BY <2>1, <2>3, <2>4, <2>6, IdleFits, Quietly, Zenon
<1> QED BY <1>0, <1>1, <1>2, <1>3, <1>4, <1>5, <1>6, Zenon DEF CallStep

(* A call is dropped: its command stays, and nobody waits for the answer. *)
LEMMA DropShape ==
    ASSUME Shape, NEW c \in Calls, Drop(c)
    PROVE  Shape'
<1>1. c \in Callers
  BY CallIsCaller, Zenon
<1>2. task[c] \in Task /\ TaskOK(c, task[c]) /\ task[c].pc # "idle"
  BY <1>1, TaskAt, Zenon DEF Drop
<1>3. /\ [task[c] EXCEPT !.op = "orphan"] \in Task
      /\ TaskOK(c, [task[c] EXCEPT !.op = "orphan"])
  BY <1>2 DEF Task, TaskOK
<1>4. \/ task' = [task EXCEPT ![c] = Idle]
      \/ task' = [task EXCEPT ![c] = [task[c] EXCEPT !.op = "orphan"]]
  BY Zenon DEF Drop
<1>5. TaskShape'
  BY <1>1, <1>3, <1>4, IdleOK, TaskSet, Zenon
<1>6. WorkShape'
  <2>1. ASSUME NEW k \in Workers PROVE work'[k] \in Worker /\ WorkerOK(work'[k])
    <3>1. work[k] \in Worker /\ WorkerOK(work[k])
      BY WorkAt, Zenon
    <3>2. CASE work[k].first.by = c
      <4> DEFINE m == [work[k].first EXCEPT !.by = None]
                 r == [work[k] EXCEPT !.first = m]
      <4>1. work'[k] = r
        BY <3>2, Zenon DEF Drop
      <4>2. m \in Command /\ m.kind = work[k].first.kind
        BY <3>1, Zenon DEF Worker, Command
      <4> HIDE DEF m
      <4>3. /\ r \in Worker /\ r.pc = work[k].pc /\ r.ws = work[k].ws /\ r.then = work[k].then
            /\ r.first = m /\ r.lock = work[k].lock /\ r.vm = work[k].vm /\ r.stop = work[k].stop
        BY <3>1, <4>2, Zenon DEF Worker
      <4>4. work[k].pc # "gone"
        BY <1>1, <3>1, <3>2, OthersAreCallers DEF WorkerOK, NoCommand
      <4>5. WorkerOK(r)
        BY <3>1, <4>2, <4>3, <4>4, Zenon DEF WorkerOK
      <4> QED BY <4>1, <4>3, <4>5, Zenon
    <3>3. CASE work[k].first.by # c
      BY <3>1, <3>3, Zenon DEF Drop
    <3> QED BY <3>2, <3>3, Zenon
  <2>2. work' = [k \in Workers |-> work'[k]]
    BY Zenon DEF Drop
  <2> QED BY <2>1, <2>2, Zenon DEF WorkShape
<1>7. queue' \in [Workers -> Seq(Command)]
  <2>1. ASSUME NEW k \in Workers PROVE queue'[k] \in Seq(Command)
    <3> DEFINE q == queue[k]
               f == [i \in 1 .. Len(q) |-> IF q[i].by = c THEN [q[i] EXCEPT !.by = None] ELSE q[i]]
    <3>1. queue'[k] = f
      BY Zenon DEF Drop
    <3>2. q \in Seq(Command)
      BY Zenon DEF Shape
    <3> HIDE DEF q
    <3>3. ASSUME NEW i \in 1 .. Len(q) PROVE f[i] \in Command
      <4>1. q[i] \in Command
        BY <3>2
      <4> QED BY <4>1, Zenon DEF Command
    <3> HIDE DEF f
    <3>4. f \in Seq(Command)
      BY <3>2, <3>3 DEF f
    <3> QED BY <3>1, <3>4, Zenon
  <2>2. queue' = [k \in Workers |-> queue'[k]]
    BY Zenon DEF Drop
  <2> QED BY <2>1, <2>2, Zenon
<1>8. RestOK'
  BY Zenon DEF Drop, Shape, RestOK, files, lifecycle, shown, boots, service
<1> QED BY <1>5, <1>6, <1>7, <1>8, Zenon DEF Shape

-----------------------------------------------------------------------------
(* Shape: the workers.                                                     *)

(* The commands k has. *)
Commands(k) == {work[k].first} \cup Range(queue[k])

(* The sender of a command waits for its answer. *)
LEMMA Waits ==
    ASSUME Shape, Mail, NEW k \in Workers, NEW m \in Commands(k), m.by # None
    PROVE  m \in Command /\ Sent(m, k)
<1>1. work[k].first \in Command /\ queue[k] \in Seq(Command)
  BY WorkAt, Zenon DEF Shape, Worker
<1>2. CASE m = work[k].first
  BY <1>1, <1>2, Zenon DEF Mail, MailFor
<1>3. CASE m \in Range(queue[k])
  <2>1. PICK i \in DOMAIN queue[k] : m = queue[k][i]
    BY <1>3, Zenon DEF Range
  <2>2. m \in Command
    BY <1>1, <2>1
  <2> QED BY <2>1, <2>2, Zenon DEF Mail, MailFor
<1> QED BY <1>2, <1>3, Zenon DEF Commands

(* The answers leave the callers where they may be. *)
LEMMA AnswerShape ==
    ASSUME Shape, Mail, NEW k \in Workers, NEW commands \in SUBSET Commands(k),
           NEW ok \in BOOLEAN, task' = Answer(commands, ok)
    PROVE  TaskShape'
<1>1. ASSUME NEW c \in Callers PROVE task'[c] \in Task /\ TaskOK(c, task'[c])
  <2>1. task[c] \in Task /\ TaskOK(c, task[c])
    BY TaskAt, Zenon
  <2>2. CASE \E m \in commands : m.by = c
    <3>1. PICK m \in commands : m.by = c
      BY <2>2, Zenon
    <3>2. m \in Commands(k) /\ m.by # None
      BY <3>1, OthersAreCallers, Zenon
    <3>3. task[c].pc = "wait"
      BY <3>1, <3>2, Waits, Zenon DEF Sent
    <3>4. CASE task[c].op = "connect"
      BY <2>2, <3>4, IdleOK, Zenon DEF Answer
    <3>5. CASE task[c].op # "connect"
      <4> DEFINE t == [task[c] EXCEPT !.pc = "end", !.ok = ok]
      <4>1. task'[c] = t
        BY <2>2, <3>5, Zenon DEF Answer
      <4>2. /\ t \in Task /\ t.pc = "end" /\ t.ws = task[c].ws /\ t.tries = task[c].tries
            /\ t.op = task[c].op
        BY <2>1, Zenon DEF Task
      <4>3. TaskOK(c, t)
        BY <2>1, <3>3, <4>2, Zenon DEF TaskOK
      <4> QED BY <4>1, <4>2, <4>3, Zenon
    <3> QED BY <3>4, <3>5, Zenon
  <2>3. CASE ~\E m \in commands : m.by = c
    BY <2>1, <2>3, Zenon DEF Answer
  <2> QED BY <2>2, <2>3, Zenon
<1>2. task' = [c \in Callers |-> task'[c]]
  BY Zenon DEF Answer
<1> QED BY <1>1, <1>2, Zenon DEF TaskShape

(* What k keeps, the command m and the queue q: none of the commands it answers. *)
Keeps(k, m, q, commands) ==
    /\ m.by # None => m \in Commands(k) \ commands
    /\ \A i \in DOMAIN q :
          q[i].by # None =>
              /\ q[i] \in Commands(k) \ commands
              /\ m.by # q[i].by
              /\ \A j \in DOMAIN q : q[j].by = q[i].by => i = j

(* A worker is like this once its stop was answered. *)
IsOver(r) == r.pc = "gone" \/ (r.pc \in {"publish", "apply"} /\ r.then = "replied")

(* k goes on as r with the queue q, and answers commands; a stop is answered with *)
(* success only by a worker that is over.                                         *)
Move(k, r, q, commands, ok) ==
    /\ Alive(k)
    /\ work' = [work EXCEPT ![k] = r] /\ queue' = [queue EXCEPT ![k] = q]
    /\ task' = Answer(commands, ok)
    /\ r \in Worker /\ WorkerOK(r) /\ q \in Seq(Command) /\ ok \in BOOLEAN
    /\ commands \subseteq Commands(k)
    /\ Keeps(k, r.first, q, commands)
    /\ r.pc = "gone" => q = << >>
    /\ Over(k) \/ (ok /\ \E m \in commands : m.by # None /\ m.kind = "stop") => IsOver(r)

(* k takes no lock, and asks for no disk. *)
Calm(k, r) ==
    /\ r.lock \in {work[k].lock, 0}
    /\ r.reset => work[k].reset /\ r.ws = work[k].ws
    /\ shutdown' = shutdown /\ reset' = reset /\ resets' = resets /\ RestOK'

(* One caller has one command with a worker. *)
LEMMA Distinct ==
    ASSUME Shape, Mail, NEW k \in Workers, NEW m \in Commands(k), NEW n \in Commands(k),
           m.by = n.by, m.by # None
    PROVE  m = n
<1>1. MailFor(k)
  BY Zenon DEF Mail
<1>2. ASSUME NEW x \in Range(queue[k]) PROVE \E i \in DOMAIN queue[k] : x = queue[k][i]
  BY Zenon DEF Range
<1>3. m = work[k].first \/ \E i \in DOMAIN queue[k] : m = queue[k][i]
  BY <1>2, Zenon DEF Commands
<1>4. n = work[k].first \/ \E i \in DOMAIN queue[k] : n = queue[k][i]
  BY <1>2, Zenon DEF Commands
<1> QED BY <1>1, <1>3, <1>4, Zenon DEF MailFor

(* What the answers of a worker do to a caller. *)
LEMMA AnswerIs ==
    ASSUME Shape, Mail, NEW k \in Workers, NEW commands \in SUBSET Commands(k), NEW ok,
           task' = Answer(commands, ok), NEW c \in Callers
    PROVE  \/ task'[c] = task[c] /\ \A m \in commands : m.by # c
           \/ /\ \E m \in commands : m.by = c /\ m.by # None /\ m.kind = Kind(task[c].op)
              /\ task[c].pc = "wait" /\ task[c].peer = k
              /\ \/ task'[c] = Idle /\ task[c].op = "connect"
                 \/ /\ task'[c].pc = "end" /\ task'[c].ok = ok /\ task'[c].peer = k
                    /\ task[c].op # "connect"
<1>1. CASE \A m \in commands : m.by # c
  BY <1>1, Zenon DEF Answer
<1>2. ASSUME NEW m \in commands, m.by = c
      PROVE  /\ m.by # None /\ m.kind = Kind(task[c].op)
             /\ task[c].pc = "wait" /\ task[c].peer = k
             /\ \/ task'[c] = Idle /\ task[c].op = "connect"
                \/ /\ task'[c].pc = "end" /\ task'[c].ok = ok /\ task'[c].peer = k
                   /\ task[c].op # "connect"
  <2>1. m \in Commands(k) /\ m.by # None
    BY <1>2, OthersAreCallers, Zenon
  <2>2. Sent(m, k)
    BY <2>1, Waits, Zenon
  <2>3. task[c] \in Task /\ task[c].peer = k
    BY <1>2, <2>2, TaskAt, Zenon DEF Sent
  <2>4. CASE task[c].op = "connect"
    <3>1. task'[c] = Idle
      BY <1>2, <2>4, Zenon DEF Answer
    <3> QED BY <1>2, <2>1, <2>2, <2>4, <3>1, Zenon DEF Sent
  <2>5. CASE task[c].op # "connect"
    <3> DEFINE t == [task[c] EXCEPT !.pc = "end", !.ok = ok]
    <3>1. task'[c] = t
      BY <1>2, <2>5, Zenon DEF Answer
    <3>2. t.pc = "end" /\ t.ok = ok /\ t.peer = task[c].peer
      BY <2>3, Zenon DEF Task
    <3> HIDE DEF t
    <3> QED BY <1>2, <2>1, <2>2, <2>3, <2>5, <3>1, <3>2, Zenon DEF Sent
  <2> QED BY <2>4, <2>5, Zenon
<1> QED BY <1>1, <1>2, Zenon

(* No answer changes nothing. *)
LEMMA NoAnswer == ASSUME Shape PROVE task = Answer({}, TRUE)
<1>1. Answer({}, TRUE) = [c \in Callers |-> task[c]]
  BY Zenon DEF Answer
<1>2. task \in [Callers -> Task]
  BY Zenon DEF Shape, TaskShape
<1> QED BY <1>1, <1>2, Zenon

(* The shape of a step of a worker. *)
LEMMA MoveShape ==
    ASSUME Shape, Mail, NEW k \in Workers, NEW r, NEW q, NEW commands, NEW ok,
           Move(k, r, q, commands, ok), RestOK'
    PROVE  Shape'
<1>1. TaskShape'
  BY AnswerShape, Zenon DEF Move
<1>2. WorkShape'
  BY WorkSet, Zenon DEF Move
<1>3. queue' \in [Workers -> Seq(Command)]
  BY Zenon DEF Move, Shape
<1> QED BY <1>1, <1>2, <1>3, Zenon DEF Shape

(* Its mail. *)
LEMMA MoveMail ==
    ASSUME Shape, Mail, Answered, NEW k \in Workers, NEW r, NEW q, NEW commands, NEW ok,
           Move(k, r, q, commands, ok)
    PROVE  Mail' /\ Answered'
<1>1. commands \in SUBSET Commands(k) /\ task' = Answer(commands, ok)
  BY Zenon DEF Move
<1>2. work'[k] = r /\ queue'[k] = q
      /\ \A j \in Workers : j # k => work'[j] = work[j] /\ queue'[j] = queue[j]
  BY Zenon DEF Move, Shape, WorkShape
<1>3. Over(k)' <=> IsOver(r)
  BY <1>2, Zenon DEF Over, IsOver, Alive
<1>4. ASSUME NEW j \in Workers, NEW m \in Commands(j), m.by # None, j # k \/ m \notin commands
      PROVE  Sent(m, j)'
  <2>1. m \in Command /\ Sent(m, j)
    BY <1>4, Waits, Zenon
  <2>2. PICK c \in Callers : c = m.by
    BY <1>4, <2>1, Zenon DEF Command
  <2>3. task[c].peer = j
    BY <2>1, <2>2, Zenon DEF Sent
  <2>4. ASSUME NEW n \in commands, n.by = c PROVE FALSE
    <3>1. n \in Commands(k) /\ Sent(n, k)
      BY <1>1, <1>4, <2>2, <2>4, Waits, Zenon
    <3>2. j = k
      BY <2>2, <2>3, <2>4, <3>1, Zenon DEF Sent
    <3> QED BY <1>4, <2>2, <2>4, <3>1, <3>2, Distinct, Zenon
  <2>5. task'[c] = task[c]
    BY <1>1, <2>4, AnswerIs
  <2> QED BY <2>1, <2>2, <2>5, Zenon DEF Sent
<1>5. ASSUME NEW j \in Workers PROVE MailFor(j)'
  <2>1. CASE j = k
    <3>1. Keeps(k, r.first, q, commands) /\ (r.pc = "gone" => q = << >>)
      BY Zenon DEF Move
    <3>2. r.first.by # None => Sent(r.first, k)'
      BY <1>4, <3>1, Zenon DEF Keeps
    <3>3. ASSUME NEW i \in DOMAIN q, NEW m, m = q[i], m.by # None PROVE Sent(m, k)'
      BY <1>4, <3>1, <3>3, Zenon DEF Keeps
    <3>4. Alive(k)' <=> r.pc # "gone"
      BY <1>2, Zenon DEF Alive
    <3> QED BY <1>2, <2>1, <3>1, <3>2, <3>3, <3>4, Zenon DEF MailFor, Keeps
  <2>2. CASE j # k
    <3>1. MailFor(j) /\ work'[j] = work[j] /\ queue'[j] = queue[j] /\ (Alive(j)' <=> Alive(j))
      BY <1>2, <2>2, Zenon DEF Mail, Alive
    <3>2. work[j].first \in Commands(j) /\ \A i \in DOMAIN queue[j] : queue[j][i] \in Commands(j)
      BY Zenon DEF Commands, Range
    <3> QED BY <1>4, <2>2, <3>1, <3>2, Zenon DEF MailFor
  <2> QED BY <2>1, <2>2, Zenon
<1>6. ASSUME NEW d \in Callers, NEW j, j = task'[d].peer,
             task'[d].pc = "end", task'[d].ok, task'[d].peer # None
      PROVE  Over(j)'
  <2>1. CASE task'[d] = task[d]
    <3>0. task[d] \in Task /\ task[d].peer = j /\ task[d].peer # None
      BY <1>6, <2>1, TaskAt, Zenon
    <3>1. Over(j) /\ j \in Workers
      BY <1>6, <2>1, <3>0, Zenon DEF Answered, Task
    <3>2. CASE j = k
      BY <1>3, <3>1, <3>2, Zenon DEF Move
    <3>3. CASE j # k
      BY <1>2, <3>1, <3>3, Zenon DEF Over, Alive
    <3> QED BY <3>2, <3>3, Zenon
  <2>2. CASE task'[d] # task[d]
    <3>1. /\ \E m \in commands : m.by # None /\ m.kind = Kind(task[d].op)
          /\ task'[d].ok = ok /\ task'[d].peer = k /\ task[d].op # "connect"
      <4>1. Idle.pc # "end"
        BY Zenon DEF Idle
      <4>2. \/ task'[d] = task[d] /\ \A m \in commands : m.by # d
            \/ /\ \E m \in commands : m.by = d /\ m.by # None /\ m.kind = Kind(task[d].op)
               /\ task[d].pc = "wait" /\ task[d].peer = k
               /\ \/ task'[d] = Idle /\ task[d].op = "connect"
                  \/ /\ task'[d].pc = "end" /\ task'[d].ok = ok /\ task'[d].peer = k
                     /\ task[d].op # "connect"
        BY <1>1, AnswerIs
      <4> QED BY <1>6, <2>2, <4>1, <4>2, Zenon
    <3>2. \E m \in commands : m.by # None /\ m.kind = "stop"
      BY <3>1, Zenon DEF Kind
    <3>3. IsOver(r)
      BY <1>6, <3>1, <3>2, Zenon DEF Move
    <3> QED BY <1>3, <1>6, <3>1, <3>3, Zenon
  <2> QED BY <2>1, <2>2, Zenon
<1>7. Answered'
  BY <1>6, Zenon DEF Answered
<1> QED BY <1>5, <1>7, Zenon DEF Mail

(* No worker answers shutdown. *)
LEMMA AwayFromCloser ==
    ASSUME Shape, Mail, NEW k \in Workers, NEW r, NEW q, NEW commands, NEW ok,
           Move(k, r, q, commands, ok)
    PROVE  task'[Closer] = task[Closer]
<1>1. task[Closer].pc # "wait" /\ Closer \in Callers
  BY TaskAt, OthersAreCallers, Zenon DEF TaskOK
<1> QED BY <1>1, AnswerIs, Zenon DEF Move

(* Its part in a shutdown. *)
LEMMA MoveEnding ==
    ASSUME Shape, Mail, Ending, NEW k \in Workers, NEW r, NEW q, NEW commands, NEW ok,
           Move(k, r, q, commands, ok), shutdown' = shutdown
    PROVE  Ending'
<1>1. task'[Closer] = task[Closer] /\ Alive(k)
  BY AwayFromCloser, Zenon DEF Move
<1> QED BY <1>1, Zenon DEF Ending

(* Locks, disks and shutdown. *)
LEMMA MoveRest ==
    ASSUME Shape, Mail, Rest, NEW k \in Workers, NEW r, NEW q, NEW commands, NEW ok,
           Move(k, r, q, commands, ok), Calm(k, r)
    PROVE  Rest'
<1>1. work'[k] = r /\ \A j \in Workers : j # k => work'[j] = work[j]
  BY Zenon DEF Move, Shape, WorkShape
<1>2. Ending'
  BY MoveEnding, Zenon DEF Rest, Calm
<1>3. Locks'
  BY <1>1 DEF Rest, Locks, Calm
<1>4. Discards'
  BY <1>1 DEF Rest, Discards, Calm
<1> QED BY <1>2, <1>3, <1>4, Zenon DEF Rest

(* All of it, when it takes no lock and asks for no disk. *)
LEMMA MoveStep ==
    ASSUME Shape, Mail, Answered, Rest, NEW k \in Workers, NEW r, NEW q, NEW commands, NEW ok,
           Move(k, r, q, commands, ok), Calm(k, r)
    PROVE  IInv'
BY MoveShape, MoveMail, MoveRest, Zenon DEF Calm, IInv

(* It answers the command it has, and keeps its queue. *)
LEMMA KeepsQueue ==
    ASSUME Shape, Mail, NEW k \in Workers, NEW m, m = NoCommand, NEW commands \in SUBSET {work[k].first}
    PROVE  Keeps(k, m, queue[k], commands)
<1>1. MailFor(k) /\ NoCommand.by = None
  BY Zenon DEF Mail, NoCommand
<1>2. \A i \in DOMAIN queue[k] : queue[k][i] \in Commands(k)
  BY Zenon DEF Commands, Range
<1> QED BY <1>1, <1>2, Zenon DEF Keeps, MailFor

(* It keeps its command and its queue. *)
LEMMA KeepsAll ==
    ASSUME Shape, Mail, NEW k \in Workers
    PROVE  Keeps(k, work[k].first, queue[k], {})
<1>1. MailFor(k)
  BY Zenon DEF Mail
<1>2. work[k].first \in Commands(k) /\ \A i \in DOMAIN queue[k] : queue[k][i] \in Commands(k)
  BY Zenon DEF Commands, Range
<1> QED BY <1>1, <1>2, Zenon DEF Keeps, MailFor

(* The queue behind its head. *)
LEMMA TailIs ==
    ASSUME Shape, NEW k \in Workers, queue[k] # << >>
    PROVE  /\ Head(queue[k]) \in Command /\ Tail(queue[k]) \in Seq(Command)
           /\ 1 \in DOMAIN queue[k] /\ Head(queue[k]) = queue[k][1]
           /\ \A i \in DOMAIN Tail(queue[k]) :
                 /\ i + 1 \in DOMAIN queue[k] /\ i \in Nat \ {0}
                 /\ Tail(queue[k])[i] = queue[k][i + 1]
<1>1. queue[k] \in Seq(Command)
  BY Zenon DEF Shape
<1> QED BY <1>1

(* It takes the head of its queue, or answers it at once. *)
LEMMA KeepsTail ==
    ASSUME Shape, Mail, NEW k \in Workers, queue[k] # << >>
    PROVE  /\ Keeps(k, Head(queue[k]), Tail(queue[k]), {})
           /\ Keeps(k, work[k].first, Tail(queue[k]), {Head(queue[k])})
<1> DEFINE m == Head(queue[k])
           q == Tail(queue[k])
<1>1. MailFor(k)
  BY Zenon DEF Mail
<1>2. work[k].first \in Commands(k) /\ \A i \in DOMAIN queue[k] : queue[k][i] \in Commands(k)
  BY Zenon DEF Commands, Range
<1>3. /\ 1 \in DOMAIN queue[k] /\ m = queue[k][1]
      /\ \A i \in DOMAIN q : i + 1 \in DOMAIN queue[k] /\ i \in Nat \ {0} /\ q[i] = queue[k][i + 1]
  BY TailIs, Zenon
<1> HIDE DEF m, q
<1>4. work[k].first.by # None => work[k].first # m
  BY <1>1, <1>3, Zenon DEF MailFor
<1>5. ASSUME NEW i \in DOMAIN q, q[i].by # None
      PROVE  /\ q[i] \in Commands(k) /\ q[i] # m /\ m.by # q[i].by /\ work[k].first.by # q[i].by
             /\ \A j \in DOMAIN q : q[j].by = q[i].by => i = j
  <2>1. q[i] \in Commands(k) /\ work[k].first.by # q[i].by
    BY <1>1, <1>2, <1>3, <1>5 DEF MailFor
  <2>2. ASSUME m.by = q[i].by PROVE FALSE
    <3>1. queue[k][1].by = queue[k][i + 1].by /\ queue[k][i + 1].by # None
      BY <1>3, <1>5, <2>2, Zenon
    <3>2. 1 = i + 1
      BY <1>1, <1>3, <3>1, Zenon DEF MailFor
    <3> QED BY <1>3, <3>2
  <2>3. ASSUME NEW j \in DOMAIN q, q[j].by = q[i].by PROVE i = j
    <3>1. queue[k][j + 1].by = queue[k][i + 1].by /\ queue[k][i + 1].by # None
      BY <1>3, <1>5, <2>3, Zenon
    <3>2. i + 1 = j + 1
      BY <1>1, <1>3, <3>1, Zenon DEF MailFor
    <3> QED BY <1>3, <3>2
  <2> QED BY <2>1, <2>2, <2>3, Zenon
<1>6. m \in Commands(k)
  BY <1>2, <1>3, Zenon
<1>7. Keeps(k, m, q, {})
  BY <1>5, <1>6, Zenon DEF Keeps
<1>8. Keeps(k, work[k].first, q, {m})
  BY <1>2, <1>4, <1>5, Zenon DEF Keeps
<1> QED BY <1>7, <1>8, Zenon DEF m, q

(* It drops its queue. *)
LEMMA KeepsNothing ==
    ASSUME NEW k \in Workers, NEW m, m.by = None \/ m = NoCommand, NEW commands
    PROVE  Keeps(k, m, << >>, commands)
BY DEF Keeps, NoCommand

(* A worker that goes on as r, with the same queue and command, and no answer. *)
LEMMA StaysStep ==
    ASSUME Shape, Mail, Answered, Rest, NEW k \in Workers, NEW r \in Worker, WorkerOK(r),
           work' = [work EXCEPT ![k] = r], UNCHANGED <<queue, task>>,
           Alive(k), r.pc # "gone", r.first = work[k].first \/ r.first = NoCommand,
           Over(k) => IsOver(r), Calm(k, r)
    PROVE  IInv'
<1>1. queue' = [queue EXCEPT ![k] = queue[k]] /\ queue[k] \in Seq(Command)
  BY Zenon DEF Shape
<1>2. task' = Answer({}, TRUE)
  BY NoAnswer, Zenon
<1>3. Keeps(k, r.first, queue[k], {})
  BY KeepsAll, KeepsQueue, Zenon
<1>4. Move(k, r, queue[k], {}, TRUE)
  BY <1>1, <1>2, <1>3, Zenon DEF Move
<1> QED BY <1>4, MoveStep, Zenon

(* A worker that returns. *)
LEMMA FinishStep ==
    ASSUME Shape, Mail, Answered, Rest, NEW k \in Workers, NEW rejected \in SUBSET {work[k].first},
           NEW vm \in {"none", "dying"}, Finish(k, rejected, vm), Alive(k),
           shutdown' = shutdown, reset' = reset, resets' = resets, RestOK'
    PROVE  IInv'
<1> DEFINE r == [Gone EXCEPT !.vm = vm]
           commands == rejected \cup Range(queue[k])
<1>1. r.pc = "gone" /\ r.first = NoCommand /\ r.lock = 0 /\ r.reset = FALSE
  BY Zenon DEF Gone
<1>2. r \in Worker /\ WorkerOK(r)
  BY GoneOK, Zenon
<1>3. work' = [work EXCEPT ![k] = r] /\ queue' = [queue EXCEPT ![k] = << >>] /\ task' = Answer(commands, TRUE)
  BY Zenon DEF Finish, Put
<1>4. commands \subseteq Commands(k) /\ << >> \in Seq(Command)
  BY DEF Commands
<1> HIDE DEF r, commands
<1>5. Keeps(k, r.first, << >>, commands)
  BY <1>1, KeepsNothing, Zenon
<1>6. Move(k, r, << >>, commands, TRUE)
  BY <1>1, <1>2, <1>3, <1>4, <1>5, Zenon DEF Move, IsOver
<1>7. Calm(k, r)
  BY <1>1, Zenon DEF Calm
<1> QED BY <1>6, <1>7, MoveStep, Zenon

(* What a worker may publish without a VM, and with one. *)
LEMMA WorkPublishing ==
    ASSUME NEW r \in Worker, r.ws \in Names, NEW show \in Statuses,
           NEW then \in {"start", "failed", "answer", "recv", "replied", "exit"},
           r.vm \in {"booting", "up"} => then = "answer" /\ r.lock # 0,
           r.first.kind = "stop" => then = "replied",
           NEW p, p = Publishing(r, show, then)
    PROVE  /\ p \in Worker /\ WorkerOK(p) /\ p.pc = "publish" /\ p.then = then
           /\ p.ws = r.ws /\ p.lock = r.lock /\ p.first = r.first /\ p.reset = r.reset
<1>1. /\ p \in Worker /\ p.pc = "publish" /\ p.then = then /\ p.ws = r.ws /\ p.vm = r.vm
      /\ p.lock = r.lock /\ p.first = r.first /\ p.reset = r.reset
  BY Zenon DEF Publishing, Worker
<1>2. WorkerOK(p)
  BY <1>1, Zenon DEF WorkerOK
<1> QED BY <1>1, <1>2, Zenon

(* A worker that asked for its fresh disk. *)
LEMMA TriedIs ==
    ASSUME NEW r \in Worker
    PROVE  /\ Tried(r) \in Worker /\ ~Tried(r).reset /\ Tried(r).pc = r.pc
           /\ Tried(r).ws = r.ws /\ Tried(r).vm = r.vm /\ Tried(r).lock = r.lock
           /\ Tried(r).first = r.first /\ Tried(r).stop = r.stop
BY Zenon DEF Tried, Worker

(* A worker that could not start its VM fits. *)
LEMMA StartFailedOK ==
    ASSUME NEW r \in Worker, r.ws \in Names, r.vm \notin {"booting", "up"}, r.first.kind # "stop",
           NEW p, p = StartFailed(r)
    PROVE  /\ p \in Worker /\ WorkerOK(p) /\ p.pc = "publish" /\ p.then = "failed"
           /\ p.ws = r.ws /\ p.lock = r.lock /\ p.first = r.first /\ p.reset = r.reset
<1>1. "Failed" \in Statuses
  BY Zenon DEF Statuses
<1> QED BY <1>1, WorkPublishing DEF StartFailed

(* A worker that has the lock p of its state directory and boots. *)
Booting(k, p) == [Settled(Tried(work[k]), "boot") EXCEPT !.lock = p, !.vm = "booting"]

(* The state directory that a start uses. *)
Directory(k) == IF partition[work[k].ws] = 0 THEN last + 1 ELSE partition[work[k].ws]

(* A worker whose VM has stopped. *)
LEMMA EndedIs ==
    ASSUME NEW r \in Worker
    PROVE  /\ Ended(r) \in Worker /\ Ended(r).vm = "none" /\ Ended(r).lock = 0
           /\ Ended(r).stop = "none" /\ Ended(r).pc = r.pc /\ Ended(r).ws = r.ws
           /\ Ended(r).first = r.first /\ Ended(r).reset = r.reset
BY Zenon DEF Ended, Worker

(* A worker between two commands. *)
Done(k) == Settled([work[k] EXCEPT !.first = NoCommand], "recv")

(* The ways a worker goes on after a publication, each a case below.       *)
FailedEmpty(k) ==
    /\ work[k].then = "failed" /\ \A i \in DOMAIN queue[k] : queue[k][i].kind # "stop"
    /\ queue' = [queue EXCEPT ![k] = << >>]
    /\ task' = Answer(Commands(k), TRUE)
    /\ work' = [work EXCEPT ![k] = Done(k)]

FailedStop(k, i) ==
    /\ work[k].then = "failed" /\ i \in DOMAIN queue[k] /\ queue[k][i].kind = "stop"
    /\ queue' = [queue EXCEPT ![k] = << >>]
    /\ task' = Answer({work[k].first} \cup (Range(queue[k]) \ {queue[k][i]}), TRUE)
    /\ work' = [work EXCEPT ![k] =
                   Publishing([work[k] EXCEPT !.first = queue[k][i]], "Stopped", "replied")]

AnsweredStart(k) ==
    /\ work[k].then = "answer"
    /\ task' = Answer({work[k].first}, TRUE)
    /\ work' = [work EXCEPT ![k] = [Done(k) EXCEPT !.pc = "run"]]
    /\ queue' = queue

Idles(k) ==
    work[k].then = "recv" /\ work' = [work EXCEPT ![k] = Done(k)] /\ UNCHANGED <<queue, task>>

Finishes(k) ==
    \/ work[k].then = "replied" /\ Finish(k, {work[k].first}, "none")
    \/ work[k].then = "exit" /\ Finish(k, {}, "none")

(* A worker that goes to stop its VM, with the command to answer then. *)
Closes(k, why, m) == [work[k] EXCEPT !.pc = "closing", !.stop = why, !.first = m]

-----------------------------------------------------------------------------
(* Shape: the watcher, shutdown and the user.                              *)

(* The watcher only goes on. *)
LEMMA WatcherPc ==
    ASSUME Shape, NEW pc \in {"idle", "gone", "scan", "sweep", "next"}, Goto(Watcher, pc),
           Untouched(Watcher), RestOK'
    PROVE  Shape' /\ QuietBy(Watcher)
<1> DEFINE t == [task[Watcher] EXCEPT !.pc = pc]
<1>1. Watcher \in Callers /\ Watcher # Closer /\ Watcher \notin Calls
  BY OthersAreCallers, Zenon
<1>2. task[Watcher] \in Task /\ TaskOK(Watcher, task[Watcher])
  BY <1>1, TaskAt, Zenon
<1>3. t \in Task /\ t.pc = pc /\ t.op = task[Watcher].op
  BY <1>2, Zenon DEF Task
<1>4. task' = [task EXCEPT ![Watcher] = t]
  BY Zenon DEF Goto
<1> HIDE DEF t
<1>5. Fits(Watcher, t)
  BY <1>1, <1>2, <1>3, Zenon DEF TaskOK, Fits
<1> QED BY <1>1, <1>4, <1>5, Quietly, Zenon

(* run_workspace_watcher. *)
LEMMA WatchesQuiet ==
    ASSUME Shape, run_workspace_watcher
    PROVE  Shape' /\ QuietBy(Watcher)
<1>1. Untouched(Watcher) /\ RestOK'
  BY Zenon DEF run_workspace_watcher, Shape, RestOK, Untouched, files, lifecycle, shown, boots
<1> QED BY <1>1, WatcherPc, Zenon DEF run_workspace_watcher

(* reconcile_workspaces. *)
LEMMA ReconcileQuiet ==
    ASSUME Shape, Reconcile
    PROVE  Shape' /\ QuietBy(Watcher)
<1> DEFINE W == [names : SUBSET Names, snap : [Names -> Statuses], left : SUBSET Workers]
<1>1. Watcher \in Callers /\ Watcher # Closer /\ Watcher \notin Calls
  BY OthersAreCallers, Zenon
<1>2. task[Watcher] \in Task /\ TaskOK(Watcher, task[Watcher])
  BY <1>1, TaskAt, Zenon
<1>3. Untouched(Watcher)
  BY Zenon DEF Reconcile, Untouched, boots
<1>4. RestOK' = /\ workers' \in [Names -> Workers \cup {None}] /\ watch' \in W
                /\ states' \in [Names -> Statuses] /\ store' \in [Names -> Statuses]
  BY Zenon DEF Reconcile, Shape, RestOK, files, boots
<1>5. /\ watch \in W /\ image \in SUBSET Names /\ workers \in [Names -> Workers \cup {None}]
      /\ states \in [Names -> Statuses] /\ store \in [Names -> Statuses]
  BY Zenon DEF Shape, RestOK
<1>6. ASSUME NEW k \in Workers \cup {None}, NEW pc \in {"send", "next"}, pc = "send" => k \in Workers,
             task' = [task EXCEPT ![Watcher].peer = k, ![Watcher].pc = pc], RestOK'
      PROVE  Shape' /\ QuietBy(Watcher)
  <2> DEFINE t == [task[Watcher] EXCEPT !.peer = k, !.pc = pc]
  <2>1. t \in Task /\ t.pc = pc /\ t.peer = k /\ t.op = task[Watcher].op
    BY <1>2, Zenon DEF Task
  <2>2. task' = [task EXCEPT ![Watcher] = t]
    BY <1>1, <1>6, Zenon DEF Shape, TaskShape
  <2> HIDE DEF t
  <2>3. Fits(Watcher, t)
    BY <1>1, <1>2, <1>6, <2>1, Zenon DEF TaskOK, Fits
  <2> QED BY <1>1, <1>3, <1>6, <2>2, <2>3, Quietly, Zenon
<1>7. CASE /\ watch' = [names |-> image, snap |-> store, left |-> {}]
           /\ Goto(Watcher, "sweep") /\ UNCHANGED <<workers, shown>>
  BY <1>3, <1>4, <1>5, <1>7, WatcherPc, Zenon DEF shown
<1>8. CASE /\ watch' = [watch EXCEPT !.left = {workers[w] : w \in Removed} \ {None}]
           /\ workers' = [w \in Names |-> IF w \in Removed THEN None ELSE workers[w]]
           /\ Goto(Watcher, "next") /\ UNCHANGED shown
  <2> DEFINE L == {workers[w] : w \in Removed} \ {None}
  <2>1. L \in SUBSET Workers
    BY <1>5 DEF Removed
  <2>2. workers' \in [Names -> Workers \cup {None}]
    BY <1>5, <1>8, Zenon
  <2>3. watch' = [watch EXCEPT !.left = L]
    BY <1>8, Zenon
  <2> HIDE DEF L
  <2>4. watch' \in W
    BY <1>5, <2>1, <2>3, Zenon
  <2> QED BY <1>3, <1>4, <1>5, <1>8, <2>2, <2>4, WatcherPc, Zenon DEF shown
<1>9. ASSUME NEW k \in watch.left, watch' = [watch EXCEPT !.left = @ \ {k}],
             task' = [task EXCEPT ![Watcher].peer = k, ![Watcher].pc = "send"],
             UNCHANGED <<workers, shown>>
      PROVE  Shape' /\ QuietBy(Watcher)
  <2>1. k \in Workers /\ watch' \in W
    BY <1>5, <1>9, Zenon
  <2>2. RestOK'
    BY <1>4, <1>5, <1>9, <2>1, Zenon DEF shown
  <2> QED BY <1>6, <1>9, <2>1, <2>2, Zenon
<1>10. CASE /\ task' = [task EXCEPT ![Watcher].peer = None, ![Watcher].pc = "next"]
            /\ UNCHANGED <<workers, shown, watch>>
  <2>1. RestOK'
    BY <1>4, <1>5, <1>10, Zenon DEF shown
  <2> QED BY <1>6, <1>10, <2>1, Zenon
<1>11. CASE /\ store' = [w \in Names |->
                 LET current == IF states[w] = "Absent" THEN "Stopped" ELSE states[w] IN
                 IF w \in watch.names
                 THEN IF watch.snap[w] = current THEN store[w] ELSE current
                 ELSE IF watch.snap[w] # "Absent" THEN "Absent" ELSE store[w]]
            /\ states' = [w \in Names |-> IF w \in watch.names THEN states[w] ELSE "Absent"]
            /\ watch' = Unread
            /\ Goto(Watcher, "idle")
            /\ UNCHANGED workers
  <2>1. store' \in [Names -> Statuses] /\ states' \in [Names -> Statuses]
    BY <1>5, <1>11, Zenon DEF Statuses
  <2>2. watch' \in W
    BY <1>11, Zenon DEF Unread, Statuses
  <2> QED BY <1>3, <1>4, <1>5, <1>11, <2>1, <2>2, WatcherPc, Zenon
<1> QED BY <1>7, <1>8, <1>9, <1>10, <1>11, Zenon DEF Reconcile

(* Shutdown only goes on. *)
LEMMA CloserPc ==
    ASSUME Shape, NEW pc \in {"clear", "join", "next", "returned"}, Goto(Closer, pc),
           Untouched(Closer), RestOK'
    PROVE  Shape' /\ QuietBy(Closer) /\ task'[Closer].pc = pc
<1> DEFINE t == [task[Closer] EXCEPT !.pc = pc]
<1>1. Closer \in Callers /\ Watcher # Closer /\ Closer \notin Calls
  BY OthersAreCallers, Zenon
<1>2. task[Closer] \in Task /\ TaskOK(Closer, task[Closer])
  BY <1>1, TaskAt, Zenon
<1>3. t \in Task /\ t.pc = pc /\ t.op = task[Closer].op
  BY <1>2, Zenon DEF Task
<1>4. task' = [task EXCEPT ![Closer] = t]
  BY Zenon DEF Goto
<1> HIDE DEF t
<1>5. Fits(Closer, t)
  BY <1>1, <1>2, <1>3, Zenon DEF TaskOK, Fits
<1> QED BY <1>1, <1>3, <1>4, <1>5, Quietly, TaskSet, Zenon DEF Fits

-----------------------------------------------------------------------------
(* Steps of a caller that touch no worker and no queue.                    *)

(* A quiet step leaves the mail and the answers alone. *)
LEMMA QuietMail ==
    ASSUME Shape, Mail, Answered, NEW c \in Callers, QuietBy(c)
    PROVE  Mail' /\ Answered'
<1>1. ASSUME NEW m \in Command, NEW k \in Workers, m.by # None, Sent(m, k) PROVE Sent(m, k)'
  <2>1. m.by \in Callers /\ m.by # c
    BY <1>1, Zenon DEF Command, Sent, QuietBy
  <2>2. task'[m.by] = task[m.by]
    BY <2>1, Zenon DEF QuietBy
  <2> QED BY <1>1, <2>2, Zenon DEF Sent
<1>2. ASSUME NEW k \in Workers PROVE MailFor(k)'
  <2>1. MailFor(k) /\ work'[k] = work[k] /\ queue'[k] = queue[k] /\ (Alive(k)' <=> Alive(k))
    BY Zenon DEF Mail, QuietBy, Alive
  <2>2. work[k].first \in Command /\ \A i \in DOMAIN queue[k] : queue[k][i] \in Command
    BY WorkAt DEF Shape, Worker
  <2> QED BY <1>1, <2>1, <2>2, Zenon DEF MailFor
<1>3. Answered'
  <2>1. ASSUME NEW d \in Callers, NEW k, k = task'[d].peer,
               task'[d].pc = "end", task'[d].ok, task'[d].peer # None
        PROVE  Over(k)'
    <3>1. Over(k)
      BY <2>1, Zenon DEF QuietBy, Answered
    <3> QED BY <3>1, Zenon DEF QuietBy, Over, Alive
  <2> QED BY <2>1, Zenon DEF Answered
<1> QED BY <1>2, <1>3, Zenon DEF Mail

(* And the rest. *)
LEMMA QuietRest ==
    ASSUME Shape, Rest, NEW c \in Callers, QuietBy(c), c # Closer, shutdown' = shutdown
    PROVE  Rest'
<1>1. task'[Closer] = task[Closer]
  BY OthersAreCallers, Zenon DEF QuietBy
<1> QED BY <1>1, Zenon DEF Rest, Locks, Discards, Ending, QuietBy, Alive

(* The other callers stay where they are. *)
LEMMA OthersStay ==
    ASSUME Shape, NEW c \in Callers, NEW t, task' = [task EXCEPT ![c] = t]
    PROVE  task'[c] = t /\ \A d \in Callers : d # c => task'[d] = task[d]
BY Zenon DEF Shape, TaskShape

(* A caller goes on. *)
LEMMA GotoIs ==
    ASSUME Shape, NEW c \in Callers, NEW pc, Goto(c, pc)
    PROVE  /\ task'[c].pc = pc /\ task'[c].peer = task[c].peer
           /\ \A d \in Callers : d # c => task'[d] = task[d]
BY DEF Shape, TaskShape, Goto, Task

-----------------------------------------------------------------------------
(* A call gets a sender, sends, or is dropped.                             *)

(* worker_sender finds a worker or spawns one. *)
LEMMA SenderStep ==
    ASSUME Shape, Mail, Answered, Rest, NEW c \in Calls, worker_sender(c)
    PROVE  Mail' /\ Answered' /\ Rest'
<1> DEFINE w == task[c].ws
           fresh == CHOOSE k \in Workers : Free(k)
           hired == [Gone EXCEPT !.pc = "recv", !.ws = w, !.reset = w \in reset]
<1>1. c \in Callers /\ c # Closer /\ task[c] \in Task /\ task[c].pc = "sender"
  BY CallIsCaller, TaskAt, Zenon DEF worker_sender
<1>2. /\ w \in Names /\ queue' = queue /\ shutdown' = shutdown /\ resets' = resets
      /\ Idle.pc # "end"
  BY <1>1, TaskAt, Zenon DEF worker_sender, TaskOK, Idle
<1>3. ASSUME NEW k, task' = [task EXCEPT ![c].peer = k, ![c].pc = "send"]
      PROVE  task'[c].pc = "send" /\ \A d \in Callers : d # c => task'[d] = task[d]
  <2> DEFINE t == [task[c] EXCEPT !.peer = k, !.pc = "send"]
  <2>1. t.pc = "send" /\ task' = [task EXCEPT ![c] = t]
    BY <1>1, <1>3, Zenon DEF Task, Shape, TaskShape
  <2> HIDE DEF t
  <2> QED BY <1>1, <2>1, OthersStay, Zenon
<1>4. CASE Return(c) /\ reset' = reset /\ work' = work
  <2>1. task'[c] = Idle /\ \A d \in Callers : d # c => task'[d] = task[d]
    BY <1>1, <1>4, OthersStay, Zenon DEF Return
  <2>2. QuietBy(c)
    BY <1>1, <1>2, <1>4, <2>1, Zenon DEF QuietBy
  <2> QED BY <1>1, <1>2, <2>2, QuietMail, QuietRest, Zenon
<1>5. CASE /\ task' = [task EXCEPT ![c].peer = workers[w], ![c].pc = "send"]
           /\ reset' = reset /\ work' = work
  <2>1. QuietBy(c)
    BY <1>1, <1>2, <1>3, <1>5, Zenon DEF QuietBy
  <2> QED BY <1>1, <1>2, <2>1, QuietMail, QuietRest, Zenon
<1>6. CASE /\ ~Refused(w) /\ reset' = reset \ {w} /\ \E k \in Workers : Free(k)
           /\ work' = [work EXCEPT ![fresh] = hired]
           /\ task' = [task EXCEPT ![c].peer = fresh, ![c].pc = "send"]
  <2>1. fresh \in Workers /\ Free(fresh)
    BY <1>6, Zenon
  <2> HIDE DEF fresh
  <2>2. /\ hired.pc = "recv" /\ hired.ws = w /\ hired.first = NoCommand /\ hired.lock = 0
        /\ hired.vm = "none" /\ (hired.reset <=> w \in reset)
    <3> DEFINE b == w \in reset
    <3>1. hired = [Gone EXCEPT !.pc = "recv", !.ws = w, !.reset = b]
      BY Zenon
    <3> HIDE DEF b, w, hired
    <3>2. /\ hired.pc = "recv" /\ hired.ws = w /\ hired.first = NoCommand /\ hired.lock = 0
          /\ hired.vm = "none" /\ hired.reset = b
      BY <3>1, Zenon DEF Gone
    <3> QED BY <3>2, Zenon DEF b
  <2> HIDE DEF hired
  <2>3. work'[fresh] = hired /\ \A k \in Workers : k # fresh => work'[k] = work[k]
    BY <1>6, <2>1, Zenon DEF Shape, WorkShape
  <2>4. task'[c].pc = "send" /\ \A d \in Callers : d # c => task'[d] = task[d]
    BY <1>3, <1>6, Zenon
  <2>5. ASSUME NEW m \in Command, NEW k \in Workers, m.by # None, Sent(m, k) PROVE Sent(m, k)'
    <3>1. m.by \in Callers /\ m.by # c
      BY <1>1, <2>5, Zenon DEF Command, Sent
    <3> QED BY <2>4, <2>5, <3>1, Zenon DEF Sent
  <2>6. ASSUME NEW k \in Workers PROVE MailFor(k)'
    <3>1. MailFor(k) /\ work[k].first \in Command /\ \A i \in DOMAIN queue[k] : queue[k][i] \in Command
      BY WorkAt DEF Mail, Shape, Worker
    <3>2. CASE k = fresh
      <4>1. queue[k] = << >>
        BY <2>1, <3>1, <3>2, Zenon DEF Free, MailFor
      <4> QED BY <1>2, <2>2, <2>3, <3>2, <4>1 DEF MailFor, NoCommand
    <3>3. CASE k # fresh
      <4>1. work'[k] = work[k] /\ (Alive(k)' <=> Alive(k))
        BY <2>3, <3>3, Zenon DEF Alive
      <4> QED BY <1>2, <2>5, <3>1, <4>1, Zenon DEF MailFor
    <3> QED BY <3>2, <3>3, Zenon
  <2>7. Answered'
    <3>1. ASSUME NEW d \in Callers, NEW k, k = task'[d].peer,
                 task'[d].pc = "end", task'[d].ok, task'[d].peer # None
          PROVE  Over(k)'
      <4>1. d # c /\ task'[d] = task[d]
        BY <2>4, <3>1, Zenon
      <4>2. Over(k) /\ k # fresh /\ k \in Workers
        BY <2>1, <3>1, <4>1, TaskAt DEF Answered, Free, Task
      <4> QED BY <2>3, <4>2, Zenon DEF Over, Alive
    <3> QED BY <3>1, Zenon DEF Answered
  <2>8. Locks'
    BY <2>1, <2>2, <2>3 DEF Locks, Rest
  <2>9. ~shutdown /\ task'[Closer] = task[Closer]
    BY <1>1, <1>6, <2>4, OthersAreCallers, Zenon DEF Refused
  <2>10. Ending'
    BY <1>2, <2>9, Zenon DEF Ending, Rest
  <2>11. Discards'
    <3>2. \A j \in Workers : work'[j].reset =>
             \/ j # fresh /\ work'[j] = work[j]
             \/ j = fresh /\ w \in reset /\ work'[j].ws = w
      BY <2>2, <2>3, Zenon
    <3>3. \A v \in Names : resets'[v] <= 1
      BY <1>2, Zenon DEF Discards, Rest
    <3>4. \A v \in reset' : resets'[v] = 0
      BY <1>2, <1>6, Zenon DEF Discards, Rest
    <3>5. \A j \in Workers : work'[j].reset => resets'[work'[j].ws] = 0 /\ work'[j].ws \notin reset'
      BY <1>2, <1>6, <3>2 DEF Discards, Rest
    <3>6. \A i, j \in Workers : work'[i].reset /\ work'[j].reset /\ work'[i].ws = work'[j].ws => i = j
      BY <3>2 DEF Discards, Rest
    <3> QED BY <3>3, <3>4, <3>5, <3>6, Zenon DEF Discards
  <2> QED BY <2>6, <2>7, <2>8, <2>10, <2>11, Zenon DEF Mail, Rest
<1> QED BY <1>4, <1>5, <1>6, Zenon DEF worker_sender

(* The command is sent, or the queue is closed. *)
LEMMA SendStep ==
    ASSUME Shape, Mail, Answered, Rest, NEW c \in Calls \cup {Watcher}, Send(c)
    PROVE  Mail' /\ Answered' /\ Rest'
<1>1. c \in Callers /\ c # Closer /\ task[c] \in Task /\ task[c].pc = "send" /\ c # None
  BY CallIsCaller, OthersAreCallers, TaskAt, Zenon DEF Send
<1>2. /\ task[c].peer \in Workers /\ work' = work /\ shutdown' = shutdown /\ reset' = reset
      /\ resets' = resets
  BY <1>1, TaskAt, Zenon DEF Send, TaskOK, lifecycle, boots
<1>k. PICK k \in Workers : k = task[c].peer
  BY <1>2, Zenon
<1>m. PICK m : m = [by |-> c, kind |-> Kind(task[c].op)]
  BY Zenon
<1>3. CASE ~Alive(k)
  <2>1. PICK pc : Goto(c, pc) /\ queue' = queue
    BY <1>3, <1>k, Zenon DEF Send
  <2>2. task'[c].peer = k /\ \A d \in Callers : d # c => task'[d] = task[d]
    BY <1>1, <1>k, <2>1, GotoIs, Zenon
  <2>3. QuietBy(c)
    BY <1>1, <1>2, <1>3, <2>1, <2>2, Zenon DEF QuietBy, Over
  <2> QED BY <1>1, <1>2, <2>3, QuietMail, QuietRest, Zenon
<1>4. CASE Alive(k)
  <2>1. queue' = [queue EXCEPT ![k] = Append(@, m)] /\ Goto(c, "wait")
    BY <1>4, <1>k, <1>m, Zenon DEF Send
  <2>2. /\ task'[c] = [task[c] EXCEPT !.pc = "wait"]
        /\ \A d \in Callers : d # c => task'[d] = task[d]
    BY <1>1, <2>1, OthersStay, Zenon DEF Goto
  <2>3. task'[c].pc = "wait" /\ task'[c].peer = k /\ task'[c].op = task[c].op
    BY <1>1, <1>k, <2>2, Zenon DEF Task
  <2>4. Sent(m, k)' /\ m.by = c
    BY <1>m, <2>3, Zenon DEF Sent
  <2>5. ASSUME NEW n \in Command, NEW j \in Workers, n.by # None, Sent(n, j)
        PROVE  Sent(n, j)' /\ n.by # c
    <3>1. n.by \in Callers /\ n.by # c
      BY <1>1, <2>5, Zenon DEF Command, Sent
    <3> QED BY <2>2, <2>5, <3>1, Zenon DEF Sent
  <2>6. ASSUME NEW j \in Workers PROVE MailFor(j)'
    <3>1. /\ MailFor(j) /\ work[j].first \in Command /\ queue[j] \in Seq(Command)
          /\ \A i \in DOMAIN queue[j] : queue[j][i] \in Command
      BY WorkAt DEF Mail, Shape, Worker
    <3>2. work'[j] = work[j] /\ (Alive(j)' <=> Alive(j))
      BY <1>2, Zenon DEF Alive
    <3>3. CASE j # k
      <4>1. queue'[j] = queue[j]
        BY <2>1, <3>3, Zenon DEF Shape
      <4> QED BY <2>5, <3>1, <3>2, <4>1, Zenon DEF MailFor
    <3>4. CASE j = k
      <4> DEFINE q == queue[k]
      <4>1. queue'[k] = Append(q, m) /\ q \in Seq(Command)
        BY <1>2, <2>1, Zenon DEF Shape
      <4>2. MailFor(k) /\ work[k].first \in Command /\ \A i \in DOMAIN q : q[i] \in Command
        BY <3>1, <3>4, Zenon
      <4>3. work[k].first.by # None => Sent(work[k].first, k)' /\ work[k].first.by # c
        BY <1>2, <2>5, <4>2, Zenon DEF MailFor
      <4>4. ASSUME NEW i \in DOMAIN q, NEW n, n = q[i], n.by # None PROVE Sent(n, k)' /\ n.by # c
        <5>1. Sent(n, k) /\ n \in Command
          BY <4>2, <4>4, Zenon DEF MailFor
        <5> QED BY <1>2, <2>5, <4>4, <5>1, Zenon
      <4>5. \A i \in DOMAIN q : q[i].by # None =>
                 /\ work[k].first.by # q[i].by
                 /\ \A h \in DOMAIN q : q[h].by = q[i].by => i = h
        BY <4>2, Zenon DEF MailFor
      <4> HIDE DEF q
      <4>6. /\ DOMAIN queue'[k] = 1 .. Len(q) + 1
            /\ queue'[k][Len(q) + 1] = m
            /\ DOMAIN q = 1 .. Len(q) /\ Len(q) \in Nat
            /\ \A i \in DOMAIN q : queue'[k][i] = q[i]
        BY <4>1
      <4>7. ASSUME NEW i \in DOMAIN queue'[k], NEW n, n = queue'[k][i], n.by # None
            PROVE  /\ Sent(n, k)' /\ work[k].first.by # n.by
                   /\ \A h \in DOMAIN queue'[k] : queue'[k][h].by = n.by => i = h
        <5>1. CASE i \in DOMAIN q
          <6>1. n = q[i]
            BY <4>6, <4>7, <5>1, Zenon
          <6>2. Sent(n, k)' /\ n.by # c
            BY <4>4, <4>7, <5>1, <6>1, Zenon
          <6>3. \A h \in DOMAIN queue'[k] : queue'[k][h].by = n.by => i = h
            BY <2>4, <4>5, <4>6, <4>7, <5>1, <6>1, <6>2
          <6> QED BY <4>5, <4>7, <5>1, <6>1, <6>2, <6>3, Zenon
        <5>2. CASE i = Len(q) + 1
          <6>1. n = m
            BY <4>6, <4>7, <5>2, Zenon
          <6>2. work[k].first.by # n.by
            BY <1>1, <2>4, <4>3, <6>1, Zenon
          <6>3. \A h \in DOMAIN q : q[h].by # c
            BY <1>1, <4>4, Zenon
          <6>4. \A h \in DOMAIN queue'[k] : queue'[k][h].by = n.by => i = h
            BY <2>4, <4>6, <5>2, <6>1, <6>3
          <6> QED BY <2>4, <6>1, <6>2, <6>4, Zenon
        <5> QED BY <4>6, <5>1, <5>2
      <4> QED BY <1>4, <3>2, <3>4, <4>3, <4>7 DEF MailFor
    <3> QED BY <3>3, <3>4, Zenon
  <2>7. Answered'
    <3>1. ASSUME NEW d \in Callers, NEW j, j = task'[d].peer,
                 task'[d].pc = "end", task'[d].ok, task'[d].peer # None
          PROVE  Over(j)'
      <4>1. task'[d] = task[d]
        BY <2>2, <2>3, <3>1, Zenon
      <4>2. Over(j)
        BY <3>1, <4>1, Zenon DEF Answered
      <4> QED BY <1>2, <4>2, Zenon DEF Over, Alive
    <3> QED BY <3>1, Zenon DEF Answered
  <2>8. task'[Closer] = task[Closer]
    BY <1>1, <2>2, OthersAreCallers, Zenon
  <2>9. Rest'
    BY <1>2, <2>8, Zenon DEF Rest, Locks, Discards, Ending, Alive
  <2> QED BY <2>6, <2>7, <2>9, Zenon DEF Mail
<1> QED BY <1>3, <1>4, Zenon

(* A call is dropped. *)
LEMMA DropStep ==
    ASSUME Shape, Mail, Answered, Rest, NEW c \in Calls, Drop(c)
    PROVE  Mail' /\ Answered' /\ Rest'
<1>1. c \in Callers /\ c # Closer /\ task[c] \in Task /\ c # None
  BY CallIsCaller, OthersAreCallers, TaskAt, Zenon
<1>2. shutdown' = shutdown /\ reset' = reset /\ resets' = resets
  BY Zenon DEF Drop, lifecycle, boots
<1>3. task'[c].pc # "end" /\ \A d \in Callers : d # c => task'[d] = task[d]
  <2> DEFINE t == [task[c] EXCEPT !.op = "orphan"]
  <2>1. t.pc = task[c].pc /\ Idle.pc = "idle"
    BY <1>1, Zenon DEF Task, Idle
  <2>2. \/ task' = [task EXCEPT ![c] = Idle]
        \/ task[c].pc # "end" /\ task' = [task EXCEPT ![c] = t]
    BY Zenon DEF Drop
  <2> HIDE DEF t
  <2> QED BY <1>1, <2>1, <2>2, OthersStay, Zenon
<1>4. ASSUME NEW k \in Workers
      PROVE  /\ work'[k].pc = work[k].pc /\ work'[k].then = work[k].then
             /\ work'[k].lock = work[k].lock /\ work'[k].reset = work[k].reset
             /\ work'[k].ws = work[k].ws
             /\ work'[k].first.by # None => work'[k].first = work[k].first /\ work[k].first.by # c
  <2>1. work[k] \in Worker
    BY WorkAt, Zenon
  <2>2. CASE work[k].first.by = c
    <3> DEFINE m == [work[k].first EXCEPT !.by = None]
               r == [work[k] EXCEPT !.first = m]
    <3>1. work'[k] = r
      BY <2>2, Zenon DEF Drop
    <3>2. m.by = None
      BY <2>1, Zenon DEF Worker, Command
    <3> HIDE DEF m
    <3>3. /\ r.pc = work[k].pc /\ r.ws = work[k].ws /\ r.then = work[k].then /\ r.first = m
          /\ r.lock = work[k].lock /\ r.reset = work[k].reset
      BY <2>1, Zenon DEF Worker
    <3> QED BY <3>1, <3>2, <3>3, Zenon
  <2>3. CASE work[k].first.by # c
    BY <2>3, Zenon DEF Drop
  <2> QED BY <2>2, <2>3, Zenon
<1>5. ASSUME NEW k \in Workers
      PROVE  /\ DOMAIN queue'[k] = DOMAIN queue[k]
             /\ queue[k] = << >> => queue'[k] = << >>
             /\ \A i \in DOMAIN queue[k] :
                   queue'[k][i].by # None => queue'[k][i] = queue[k][i] /\ queue[k][i].by # c
  <2> DEFINE q == queue[k]
             f == [i \in 1 .. Len(q) |-> IF q[i].by = c THEN [q[i] EXCEPT !.by = None] ELSE q[i]]
  <2>1. queue'[k] = f /\ q \in Seq(Command)
    BY Zenon DEF Drop, Shape
  <2> HIDE DEF q
  <2>2. DOMAIN f = 1 .. Len(q) /\ DOMAIN q = 1 .. Len(q) /\ (q = << >> => f = << >>)
    BY <2>1
  <2>3. ASSUME NEW i \in DOMAIN q, f[i].by # None PROVE f[i] = q[i] /\ q[i].by # c
    <3>1. q[i] \in Command
      BY <2>1
    <3>2. CASE q[i].by = c
      <4>1. f[i] = [q[i] EXCEPT !.by = None]
        BY <2>2, <3>2, Zenon
      <4> QED BY <2>3, <3>1, <4>1 DEF Command
    <3>3. CASE q[i].by # c
      BY <2>2, <3>3, Zenon
    <3> QED BY <3>2, <3>3, Zenon
  <2> HIDE DEF f
  <2> QED BY <2>1, <2>2, <2>3, Zenon DEF q
<1>6. ASSUME NEW m \in Command, NEW k \in Workers, m.by # None, m.by # c, Sent(m, k)
      PROVE  Sent(m, k)'
  <2>1. task'[m.by] = task[m.by]
    BY <1>3, <1>6, Zenon DEF Command
  <2> QED BY <1>6, <2>1, Zenon DEF Sent
<1>7. ASSUME NEW k \in Workers PROVE MailFor(k)'
  <2>1. MailFor(k) /\ work[k].first \in Command /\ \A i \in DOMAIN queue[k] : queue[k][i] \in Command
    BY WorkAt DEF Mail, Shape, Worker
  <2>2. Alive(k)' <=> Alive(k)
    BY <1>4, Zenon DEF Alive
  <2>3. ASSUME NEW m, m = work'[k].first, m.by # None PROVE Sent(m, k)'
    BY <1>4, <1>6, <2>1, <2>3, Zenon DEF MailFor
  <2>4. ASSUME NEW i \in DOMAIN queue'[k], NEW m, m = queue'[k][i], m.by # None
        PROVE  /\ Sent(m, k)' /\ work'[k].first.by # m.by
               /\ \A j \in DOMAIN queue'[k] : queue'[k][j].by = m.by => i = j
    <3>1. i \in DOMAIN queue[k] /\ m = queue[k][i] /\ m.by # c
      BY <1>5, <2>4, Zenon
    <3>2. Sent(m, k)'
      BY <1>6, <2>1, <2>4, <3>1, Zenon DEF MailFor
    <3>3. work'[k].first.by # m.by
      BY <1>4, <2>1, <2>4, <3>1 DEF MailFor
    <3>4. \A j \in DOMAIN queue'[k] : queue'[k][j].by = m.by => i = j
      BY <1>5, <2>1, <2>4, <3>1 DEF MailFor
    <3> QED BY <3>2, <3>3, <3>4, Zenon
  <2>5. ~Alive(k)' => queue'[k] = << >>
    BY <1>5, <2>1, <2>2, Zenon DEF MailFor
  <2> QED BY <2>3, <2>4, <2>5, Zenon DEF MailFor
<1>8. Answered'
  <2>1. ASSUME NEW d \in Callers, NEW k, k = task'[d].peer,
               task'[d].pc = "end", task'[d].ok, task'[d].peer # None
        PROVE  Over(k)'
    <3>1. task'[d] = task[d]
      BY <1>3, <2>1, Zenon
    <3>2. Over(k) /\ k \in Workers
      BY <2>1, <3>1, TaskAt DEF Answered, Task
    <3> QED BY <1>4, <3>2, Zenon DEF Over, Alive
  <2> QED BY <2>1, Zenon DEF Answered
<1>9. Rest'
  <2>1. task'[Closer] = task[Closer]
    BY <1>1, <1>3, OthersAreCallers, Zenon
  <2>2. \A k \in Workers : Alive(k)' <=> Alive(k)
    BY <1>4, Zenon DEF Alive
  <2>3. Ending'
    BY <1>2, <2>1, <2>2, Zenon DEF Ending, Rest
  <2>4. Locks' /\ Discards'
    BY <1>2, <1>4 DEF Locks, Discards, Rest
  <2> QED BY <2>3, <2>4, Zenon DEF Rest
<1> QED BY <1>7, <1>8, <1>9, Zenon DEF Mail

(* shutdown is called. *)
LEMMA ShutdownStep ==
    ASSUME Shape, Mail, Answered, Rest, Shutdown
    PROVE  IInv'
<1>1. Untouched(Closer) /\ RestOK'
  BY Zenon DEF Shutdown, Shape, RestOK, Untouched, files, shown, boots, service
<1>2. Shape' /\ QuietBy(Closer) /\ task'[Closer].pc = "clear"
  BY <1>1, CloserPc, Zenon DEF Shutdown
<1>3. Rest'
  BY <1>2 DEF Shutdown, QuietBy, Rest, Locks, Discards, Ending
<1> QED BY <1>2, <1>3, QuietMail, OthersAreCallers, Zenon DEF IInv

(* The steps of shutdown: it clears the map and awaits the workers. *)
LEMMA CloserStepOK ==
    ASSUME Shape, Mail, Answered, Rest, CloserStep
    PROVE  IInv'
<1>1. /\ Closer \in Callers /\ Watcher # Closer /\ Closer \notin Calls
      /\ task[Closer] \in Task /\ TaskOK(Closer, task[Closer])
  BY OthersAreCallers, TaskAt, Zenon
<1>2. CASE TaskPublishes(Closer)
  <2>1. Shape' /\ QuietBy(Closer)
    BY <1>2, PublishesQuiet, Zenon
  <2>2. /\ task[Closer].pc \in {"publish", "apply"} /\ task[Closer].then = "next"
        /\ shutdown' = shutdown
    BY <1>1, <1>2, Zenon DEF TaskPublishes, PublishState, ApplyToStore, TaskOK, lifecycle
  <2>3. shutdown /\ \A k \in Workers : ~Alive(k)
    BY <2>2, Zenon DEF Rest, Ending
  <2>4. Rest'
    BY <2>1, <2>2, <2>3, Zenon DEF QuietBy, Rest, Locks, Discards, Ending, Alive
  <2> QED BY <1>1, <2>1, <2>4, QuietMail, Zenon DEF IInv
<1>3. CASE FinishShutdown
  <2>1. Untouched(Closer) /\ task[Closer].pc # "idle" /\ shutdown' = shutdown
    BY <1>3, Zenon DEF FinishShutdown, Untouched, boots
  <2>2. shutdown
    BY <2>1, Zenon DEF Rest, Ending
  <2>3. RestOK'
    <3>1. workers' \in [Names -> Workers \cup {None}] /\ unshown' \in SUBSET Names
      BY <1>3, Zenon DEF FinishShutdown, Shape, RestOK
    <3> QED BY <1>3, <3>1, Zenon DEF FinishShutdown, Shape, RestOK, files, shown, boots
  <2>4. ASSUME NEW w \in Names,
               task' = [task EXCEPT ![Closer] = Publishing([@ EXCEPT !.ws = w], "Stopped", "next")]
        PROVE  Shape' /\ QuietBy(Closer)
    <3> DEFINE t == Publishing([task[Closer] EXCEPT !.ws = w], "Stopped", "next")
    <3>1. "Stopped" \in Statuses
      BY Zenon DEF Statuses
    <3>2. t \in Task /\ t.pc = "publish" /\ t.then = "next" /\ t.op = task[Closer].op
      BY <1>1, <3>1, Zenon DEF Task, Publishing
    <3>3. task' = [task EXCEPT ![Closer] = t]
      BY <2>4, Zenon
    <3> HIDE DEF t
    <3>4. Fits(Closer, t)
      BY <1>1, <3>2, Zenon DEF TaskOK, Fits
    <3> QED BY <1>1, <2>1, <2>3, <3>3, <3>4, Quietly, Zenon
  <2>5. /\ Shape' /\ QuietBy(Closer)
        /\ task'[Closer].pc = "join" \/ \A k \in Workers : ~Alive(k)
    <3>1. task[Closer].pc = "next" => \A k \in Workers : ~Alive(k)
      BY Zenon DEF Rest, Ending
    <3>2. unshown \in SUBSET Names
      BY Zenon DEF Shape, RestOK
    <3> QED BY <1>3, <2>1, <2>3, <2>4, <3>1, <3>2, CloserPc, Zenon DEF FinishShutdown
  <2>6. Rest'
    BY <2>1, <2>2, <2>5, Zenon DEF QuietBy, Rest, Locks, Discards, Ending, Alive
  <2> QED BY <1>1, <2>5, <2>6, QuietMail, Zenon DEF IInv
<1> QED BY <1>2, <1>3, Zenon DEF CloserStep

-----------------------------------------------------------------------------
(* Steps of a worker.  It goes on as r with the queue q, and answers some  *)
(* of its commands.                                                        *)

(* A worker publishes a status. *)
LEMMA WorkerPublishesStep ==
    ASSUME Shape, Mail, Answered, Rest, NEW k \in Workers, WorkerPublishes(k)
    PROVE  IInv'
<1> DEFINE r == [work[k] EXCEPT !.pc = "apply"]
<1>1. work[k] \in Worker /\ WorkerOK(work[k]) /\ work[k].pc = "publish"
  BY WorkAt, Zenon DEF WorkerPublishes, PublishState
<1>2. /\ r \in Worker /\ r.pc = "apply" /\ r.ws = work[k].ws /\ r.then = work[k].then
      /\ r.vm = work[k].vm /\ r.lock = work[k].lock /\ r.first = work[k].first
      /\ r.reset = work[k].reset
  BY <1>1, Zenon DEF Worker
<1>3. work' = [work EXCEPT ![k] = r] /\ UNCHANGED <<queue, task>>
  BY Zenon DEF WorkerPublishes, StayAs, Put
<1> HIDE DEF r
<1>4. WorkerOK(r)
  BY <1>1, <1>2, Zenon DEF WorkerOK
<1>5. states' \in [Names -> Statuses]
  BY <1>1, Zenon DEF WorkerPublishes, PublishState, Shape, RestOK, Worker
<1>6. Calm(k, r)
  BY <1>2, <1>5, Zenon DEF WorkerPublishes, Calm, Shape, RestOK, files, lifecycle, boots, service
<1>7. Alive(k) /\ (Over(k) => IsOver(r))
  BY <1>1, <1>2, Zenon DEF Alive, Over, IsOver
<1> QED BY <1>2, <1>3, <1>4, <1>6, <1>7, StaysStep, Zenon

(* A worker without a VM receives a command, or finds its queue closed. *)
LEMMA ReceiveStep ==
    ASSUME Shape, Mail, Answered, Rest, NEW k \in Workers, Receive(k)
    PROVE  IInv'
<1>1. /\ work[k] \in Worker /\ WorkerOK(work[k]) /\ work[k].pc = "recv" /\ Alive(k) /\ ~Over(k)
  BY WorkAt, Zenon DEF Receive, Alive, Over
<1>2. shutdown' = shutdown /\ reset' = reset /\ resets' = resets /\ RestOK'
  BY Zenon DEF Receive, Shape, RestOK, files, lifecycle, shown, boots, service
<1>3. CASE Finish(k, {}, "none")
  BY <1>1, <1>2, <1>3, FinishStep, Zenon
<1>4. CASE /\ queue[k] # << >>
           /\ queue' = [queue EXCEPT ![k] = Tail(@)]
           /\ LET r == [work[k] EXCEPT !.first = Head(queue[k])] IN
              Put(k, IF r.first.kind = "stop" THEN Publishing(r, "Stopped", "replied")
                     ELSE Publishing(r, "Starting", "start"))
           /\ UNCHANGED task
  <2> DEFINE m == Head(queue[k])
             q == Tail(queue[k])
             r == [work[k] EXCEPT !.first = m]
  <2>1. m \in Command /\ q \in Seq(Command) /\ Keeps(k, m, q, {})
    BY <1>4, TailIs, KeepsTail, Zenon
  <2>2. PICK show \in {"Stopped", "Starting"}, then \in {"replied", "start"} :
           /\ work' = [work EXCEPT ![k] = Publishing(r, show, then)]
           /\ r.first.kind = "stop" => then = "replied"
    <3>1. CASE r.first.kind = "stop" /\ work' = [work EXCEPT ![k] = Publishing(r, "Stopped", "replied")]
      BY <3>1, Zenon
    <3>2. CASE r.first.kind # "stop" /\ work' = [work EXCEPT ![k] = Publishing(r, "Starting", "start")]
      BY <3>2, Zenon
    <3> QED BY <1>4, <3>1, <3>2, Zenon DEF Put
  <2> DEFINE s == Publishing(r, show, then)
  <2>3. queue' = [queue EXCEPT ![k] = q] /\ task' = Answer({}, TRUE)
    BY <1>4, NoAnswer, Zenon
  <2> HIDE DEF m, q
  <2>4. /\ r \in Worker /\ r.first = m /\ r.ws = work[k].ws /\ r.reset = work[k].reset
        /\ r.lock = work[k].lock /\ r.vm = work[k].vm
    BY <1>1, <2>1, Zenon DEF Worker
  <2> HIDE DEF r
  <2>5. r.ws \in Names /\ r.vm \notin {"booting", "up"} /\ show \in Statuses
    BY <1>1, <2>4, Zenon DEF WorkerOK, Statuses
  <2>6. /\ s \in Worker /\ WorkerOK(s) /\ s.pc = "publish" /\ s.ws = r.ws /\ s.lock = r.lock
        /\ s.first = r.first /\ s.reset = r.reset
    BY <2>2, <2>4, <2>5, WorkPublishing
  <2>9. work' = [work EXCEPT ![k] = s]
    BY <2>2, Zenon
  <2> HIDE DEF s
  <2>7. Move(k, s, q, {}, TRUE)
    BY <1>1, <2>1, <2>3, <2>4, <2>6, <2>9, Zenon DEF Move
  <2>8. Calm(k, s)
    BY <1>2, <2>4, <2>6, Zenon DEF Calm
  <2> QED BY <2>7, <2>8, MoveStep, Zenon
<1> QED BY <1>3, <1>4, Zenon DEF Receive

(* start_managed_workspace takes vm.lock and boots, or fails. *)
LEMMA StartStep ==
    ASSUME Shape, Mail, Answered, Rest, NEW k \in Workers, start_managed_workspace(k)
    PROVE  IInv'
<1>a. ASSUME work[k] \in Worker, NEW d \in Nat
      PROVE  /\ Booting(k, d) \in Worker /\ Booting(k, d).pc = "boot" /\ ~Booting(k, d).reset
             /\ Booting(k, d).ws = work[k].ws /\ Booting(k, d).vm = "booting"
             /\ Booting(k, d).lock = d /\ Booting(k, d).first = work[k].first
  <2> USE <1>a
  <2> DEFINE r == Tried(work[k])
  <2>1. r \in Worker /\ ~r.reset /\ r.ws = work[k].ws /\ r.first = work[k].first
    BY TriedIs, Zenon
  <2>2. "Absent" \in Statuses
    BY Zenon DEF Statuses
  <2> HIDE DEF r
  <2> DEFINE s == Settled(r, "boot")
  <2>3. s \in Worker /\ ~s.reset /\ s.ws = r.ws /\ s.first = r.first /\ s.pc = "boot"
    BY <2>1, <2>2, ZenonT(30) DEF Settled, Worker
  <2> HIDE DEF s
  <2> DEFINE b == [s EXCEPT !.lock = d, !.vm = "booting"]
  <2>4. /\ b \in Worker /\ ~b.reset /\ b.ws = s.ws /\ b.first = s.first /\ b.pc = "boot"
        /\ b.lock = d /\ b.vm = "booting"
    BY <2>3, Zenon DEF Worker
  <2>5. b = Booting(k, d)
    BY Zenon DEF s, r, Booting
  <2> QED BY <2>1, <2>3, <2>4, <2>5, Zenon
<1>b. /\ work[k] \in Worker /\ WorkerOK(work[k]) /\ work[k].pc = "apply"
      /\ work[k].then = "start" /\ work[k].ws \in Names
      /\ work[k].vm \notin {"booting", "up"} /\ work[k].first.kind # "stop"
      /\ Directory(k) \in Nat \ {0}
      /\ partition' = [partition EXCEPT ![work[k].ws] = Directory(k)]
      /\ last' \in {last, Directory(k)}
      /\ \/ /\ work' = [work EXCEPT ![k] = StartFailed(Tried(work[k]))]
            /\ resets' = resets
         \/ /\ ~Locked(Directory(k))
            /\ work' = [work EXCEPT ![k] = Booting(k, Directory(k))]
            /\ resets' = IF work[k].reset THEN [resets EXCEPT ![work[k].ws] = @ + 1] ELSE resets
  <2>1. /\ work[k] \in Worker /\ WorkerOK(work[k]) /\ work[k].pc = "apply"
        /\ work[k].then = "start"
    BY WorkAt, Zenon DEF start_managed_workspace, ApplyToStore
  <2>2. /\ work[k].ws \in Names
        /\ work[k].vm \notin {"booting", "up"} /\ work[k].first.kind # "stop"
    BY <2>1, Zenon DEF WorkerOK
  <2>3. Directory(k) \in Nat \ {0}
    BY <2>2 DEF Directory, Shape, RestOK
  <2>4. /\ partition' = [partition EXCEPT ![work[k].ws] = Directory(k)]
        /\ last' \in {last, Directory(k)}
    BY Zenon DEF start_managed_workspace, Directory
  <2>5. \/ /\ work' = [work EXCEPT ![k] = StartFailed(Tried(work[k]))]
           /\ resets' = resets
        \/ /\ ~Locked(Directory(k))
           /\ work' = [work EXCEPT ![k] = Booting(k, Directory(k))]
           /\ resets' = IF work[k].reset THEN [resets EXCEPT ![work[k].ws] = @ + 1] ELSE resets
    BY Zenon DEF start_managed_workspace, Directory, Booting, Put
  <2> QED BY <2>1, <2>2, <2>3, <2>4, <2>5, Zenon
<1> DEFINE p == Directory(k)
<1>1. /\ work[k] \in Worker /\ work[k].pc = "apply" /\ work[k].then = "start"
      /\ work[k].ws \in Names /\ work[k].vm \notin {"booting", "up"} /\ work[k].first.kind # "stop"
      /\ p \in Nat \ {0}
  BY <1>b, Zenon
<1>2. /\ shutdown' = shutdown /\ reset' = reset /\ UNCHANGED <<queue, task>>
      /\ Alive(k) /\ ~Over(k)
  BY <1>1, Zenon DEF start_managed_workspace, lifecycle, Alive, Over
<1>3. \/ /\ work' = [work EXCEPT ![k] = StartFailed(Tried(work[k]))]
         /\ resets' = resets
      \/ /\ ~Locked(p)
         /\ work' = [work EXCEPT ![k] = Booting(k, p)]
         /\ resets' = IF work[k].reset THEN [resets EXCEPT ![work[k].ws] = @ + 1] ELSE resets
  BY <1>b, Zenon
<1>9. RestOK'
  <2>1. partition' = [partition EXCEPT ![work[k].ws] = p] /\ last' \in {last, p}
    BY <1>b, Zenon
  <2> HIDE DEF p
  <2>2. partition' \in [Names -> Nat] /\ last' \in Nat /\ resets' \in [Names -> Nat]
    <3>1. resets' \in [Names -> Nat]
      BY <1>1, <1>3 DEF Shape, RestOK
    <3> QED BY <1>1, <2>1, <3>1, Zenon DEF Shape, RestOK
  <2>3. store' \in [Names -> Statuses]
    BY <1>1, Zenon DEF start_managed_workspace, ApplyToStore, Shape, RestOK, Worker
  <2> QED BY <2>2, <2>3, Zenon DEF start_managed_workspace, Shape, RestOK, lifecycle, service
<1> HIDE DEF p
<1>4. CASE work' = [work EXCEPT ![k] = StartFailed(Tried(work[k]))] /\ resets' = resets
  <2> DEFINE r == StartFailed(Tried(work[k]))
  <2>1. /\ r \in Worker /\ WorkerOK(r) /\ r.pc = "publish" /\ r.lock = work[k].lock
        /\ r.first = work[k].first /\ ~r.reset
    BY <1>1, TriedIs, StartFailedOK
  <2>2. work' = [work EXCEPT ![k] = r]
    BY <1>4, Zenon
  <2> HIDE DEF r
  <2>3. Calm(k, r)
    BY <1>2, <1>4, <1>9, <2>1, Zenon DEF Calm
  <2> QED BY <1>2, <2>1, <2>2, <2>3, StaysStep, Zenon
<1>5. CASE /\ ~Locked(p)
           /\ work' = [work EXCEPT ![k] = Booting(k, p)]
           /\ resets' = IF work[k].reset THEN [resets EXCEPT ![work[k].ws] = @ + 1] ELSE resets
  <2> DEFINE r == Booting(k, p)
  <2>0. /\ r \in Worker /\ r.pc = "boot" /\ r.lock = p /\ r.first = work[k].first /\ ~r.reset
        /\ r.vm = "booting" /\ r.ws = work[k].ws
    BY <1>1, <1>a, Zenon
  <2>2. work' = [work EXCEPT ![k] = r]
    BY <1>5, Zenon
  <2> HIDE DEF r
  <2>1. /\ r \in Worker /\ WorkerOK(r) /\ r.pc = "boot" /\ r.lock = p /\ r.first = work[k].first
        /\ ~r.reset
    BY <1>1, <2>0, Zenon DEF WorkerOK
  <2>3. /\ queue' = [queue EXCEPT ![k] = queue[k]] /\ task' = Answer({}, TRUE)
        /\ queue[k] \in Seq(Command)
    BY <1>2, NoAnswer, Zenon DEF Shape
  <2>4. Move(k, r, queue[k], {}, TRUE)
    BY <1>2, <2>1, <2>2, <2>3, KeepsAll, Zenon DEF Move
  <2>5. Ending'
    BY <1>2, <2>4, MoveEnding, Zenon DEF Rest
  <2>6. work'[k] = r /\ \A j \in Workers : j # k => work'[j] = work[j] /\ work[j].lock # p
    BY <1>5, <2>2, Zenon DEF Shape, WorkShape, Locked
  <2>7. Locks'
    BY <2>1, <2>6 DEF Rest, Locks
  <2>8. Discards'
    <3>1. Discards /\ resets \in [Names -> Nat]
      BY Zenon DEF Rest, Shape, RestOK
    <3>2. CASE ~work[k].reset
      BY <1>2, <1>5, <2>1, <2>6, <3>1, <3>2 DEF Discards
    <3>3. CASE work[k].reset
      <4>1. resets[work[k].ws] = 0 /\ work[k].ws \notin reset
        BY <3>1, <3>3, Zenon DEF Discards
      <4>2. \A w \in Names : resets'[w] = IF w = work[k].ws THEN 1 ELSE resets[w]
        BY <1>1, <1>5, <3>1, <3>3, <4>1
      <4>3. \A j \in Workers : work'[j].reset => j # k /\ work[j].reset /\ work[j].ws # work[k].ws
        BY <2>1, <2>6, <3>1, <3>3, Zenon DEF Discards
      <4>4. \A j \in Workers : work[j].reset => work[j].ws \in Names
        BY WorkAt, Zenon DEF WorkerOK
      <4>5. /\ \A w \in Names : resets'[w] <= 1
            /\ \A w \in reset' : resets'[w] = 0
        <5>1. reset' \subseteq Names /\ work[k].ws \notin reset'
          BY <1>2, <4>1, Zenon DEF Shape, RestOK
        <5>2. \A w \in Names : resets[w] <= 1
          BY <3>1, Zenon DEF Discards
        <5>3. \A w \in reset' : resets[w] = 0
          BY <1>2, <3>1, Zenon DEF Discards
        <5> QED BY <4>2, <5>1, <5>2, <5>3
      <4>6. \A j \in Workers : work'[j].reset => resets'[work'[j].ws] = 0 /\ work'[j].ws \notin reset'
        <5> SUFFICES ASSUME NEW j \in Workers, work'[j].reset
                     PROVE  resets'[work'[j].ws] = 0 /\ work'[j].ws \notin reset'
          BY Zenon
        <5>1. j # k /\ work[j].reset /\ work[j].ws # work[k].ws /\ work[j].ws \in Names
          BY <4>3, <4>4, Zenon
        <5>2. work'[j] = work[j] /\ resets'[work[j].ws] = resets[work[j].ws]
          BY <2>6, <4>2, <5>1, Zenon
        <5> QED BY <1>2, <3>1, <5>1, <5>2, Zenon DEF Discards
      <4>7. \A i, j \in Workers : work'[i].reset /\ work'[j].reset /\ work'[i].ws = work'[j].ws => i = j
        BY <2>6, <3>1, <4>3 DEF Discards
      <4> QED BY <4>5, <4>6, <4>7, Zenon DEF Discards
    <3> QED BY <3>2, <3>3, Zenon
  <2> QED BY <1>9, <2>4, <2>5, <2>7, <2>8, MoveShape, MoveMail, Zenon DEF Rest, IInv
<1> QED BY <1>3, <1>4, <1>5, Zenon

(* The VM comes up, or does not. *)
LEMMA BootStep ==
    ASSUME Shape, Mail, Answered, Rest, NEW k \in Workers, Boot(k)
    PROVE  IInv'
<1>1. /\ work[k] \in Worker /\ WorkerOK(work[k]) /\ work[k].pc = "boot" /\ work[k].ws \in Names
      /\ work[k].vm = "booting" /\ work[k].lock # 0 /\ work[k].first.kind # "stop"
      /\ Alive(k) /\ ~Over(k)
  BY WorkAt, Zenon DEF Boot, WorkerOK, Alive, Over
<1>2. shutdown' = shutdown /\ reset' = reset /\ resets' = resets /\ RestOK'
  BY Zenon DEF Boot, Shape, RestOK, files, lifecycle, shown, boots, service
<1>3. CASE Finish(k, {work[k].first}, "dying")
  BY <1>1, <1>2, <1>3, FinishStep, Zenon
<1>4. ASSUME NEW r \in Worker, WorkerOK(r), Put(k, r), UNCHANGED <<queue, task>>, r.pc # "gone",
             r.first = work[k].first, r.lock = work[k].lock, r.reset = work[k].reset,
             r.ws = work[k].ws
      PROVE  IInv'
  <2>1. Calm(k, r)
    BY <1>2, <1>4, Zenon DEF Calm
  <2> QED BY <1>1, <1>4, <2>1, StaysStep, Zenon DEF Put
<1>5. CASE /\ Put(k, [work[k] EXCEPT !.pc = "failing", !.stop = "Cancelled"])
           /\ UNCHANGED <<queue, task>>
  <2> DEFINE r == [work[k] EXCEPT !.pc = "failing", !.stop = "Cancelled"]
  <2>1. /\ r \in Worker /\ r.pc = "failing" /\ r.ws = work[k].ws /\ r.lock = work[k].lock
        /\ r.first = work[k].first /\ r.reset = work[k].reset /\ r.vm = work[k].vm
    BY <1>1, Zenon DEF Worker
  <2>2. Put(k, r)
    BY <1>5, Zenon
  <2> HIDE DEF r
  <2>3. WorkerOK(r)
    BY <1>1, <2>1, Zenon DEF WorkerOK
  <2> QED BY <1>4, <1>5, <2>1, <2>2, <2>3, Zenon
<1>6. CASE StayAs(k, "failing") /\ UNCHANGED <<queue, task>>
  <2> DEFINE r == [work[k] EXCEPT !.pc = "failing"]
  <2>1. /\ r \in Worker /\ r.pc = "failing" /\ r.ws = work[k].ws /\ r.lock = work[k].lock
        /\ r.first = work[k].first /\ r.reset = work[k].reset /\ r.vm = work[k].vm
    BY <1>1, Zenon DEF Worker
  <2>2. Put(k, r)
    BY <1>6, Zenon DEF StayAs
  <2> HIDE DEF r
  <2>3. WorkerOK(r)
    BY <1>1, <2>1, Zenon DEF WorkerOK
  <2> QED BY <1>4, <1>6, <2>1, <2>2, <2>3, Zenon
<1>7. CASE /\ Put(k, [work[k] EXCEPT !.pc = "closing", !.vm = "up", !.first = NoCommand,
                                     !.stop = "Cancelled"])
           /\ task' = Answer({work[k].first} \cup Range(queue[k]), FALSE)
           /\ queue' = [queue EXCEPT ![k] = << >>]
  <2> DEFINE r == [work[k] EXCEPT !.pc = "closing", !.vm = "up", !.first = NoCommand,
                                  !.stop = "Cancelled"]
  <2>1. NoCommand \in Command /\ NoCommand.kind = "none" /\ << >> \in Seq(Command)
    BY DEF NoCommand, Command
  <2>2. /\ r \in Worker /\ r.pc = "closing" /\ r.ws = work[k].ws /\ r.reset = work[k].reset
        /\ r.lock = work[k].lock /\ r.first = NoCommand /\ r.vm = "up"
    BY <1>1, <2>1, Zenon DEF Worker
  <2>3. work' = [work EXCEPT ![k] = r] /\ task' = Answer(Commands(k), FALSE)
    BY <1>7, Zenon DEF Put, Commands
  <2> HIDE DEF r
  <2>4. WorkerOK(r)
    BY <1>1, <2>1, <2>2, Zenon DEF WorkerOK
  <2>5. Keeps(k, r.first, << >>, Commands(k))
    BY <2>2, KeepsNothing, Zenon
  <2>6. Move(k, r, << >>, Commands(k), FALSE)
    BY <1>1, <1>7, <2>1, <2>2, <2>3, <2>4, <2>5, Zenon DEF Move
  <2>7. Calm(k, r)
    BY <1>2, <2>2, Zenon DEF Calm
  <2> QED BY <2>6, <2>7, MoveStep, Zenon
<1>8. CASE /\ Put(k, Publishing([work[k] EXCEPT !.vm = "up"], "Running", "answer"))
           /\ UNCHANGED <<queue, task>>
  <2> DEFINE r == [work[k] EXCEPT !.vm = "up"]
             s == Publishing(r, "Running", "answer")
  <2>1. /\ r \in Worker /\ r.ws = work[k].ws /\ r.lock = work[k].lock
        /\ r.first = work[k].first /\ r.reset = work[k].reset
    BY <1>1, Zenon DEF Worker
  <2>2. Put(k, s) /\ "Running" \in Statuses
    BY <1>8, Zenon DEF Statuses
  <2> HIDE DEF r
  <2>3. /\ s \in Worker /\ WorkerOK(s) /\ s.pc = "publish" /\ s.ws = r.ws /\ s.lock = r.lock
        /\ s.first = r.first /\ s.reset = r.reset
    BY <1>1, <2>1, <2>2, WorkPublishing
  <2> HIDE DEF s
  <2> QED BY <1>4, <1>8, <2>1, <2>2, <2>3, Zenon
<1> QED BY <1>3, <1>5, <1>6, <1>7, <1>8, Zenon DEF Boot

(* finish_failed_workspace_start. *)
LEMMA FailingStep ==
    ASSUME Shape, Mail, Answered, Rest, NEW k \in Workers, finish_failed_workspace_start(k)
    PROVE  IInv'
<1>1. /\ work[k] \in Worker /\ work[k].ws \in Names /\ work[k].first.kind # "stop"
      /\ Alive(k) /\ ~Over(k)
  BY WorkAt, Zenon DEF finish_failed_workspace_start, WorkerOK, Alive, Over
<1>2. shutdown' = shutdown /\ reset' = reset /\ resets' = resets /\ RestOK'
  BY Zenon DEF finish_failed_workspace_start, Shape, RestOK, files, lifecycle, shown, boots, service
<1>3. CASE Finish(k, {work[k].first}, "none")
  BY <1>1, <1>2, <1>3, FinishStep, Zenon
<1>4. CASE Put(k, StartFailed(Ended(work[k]))) /\ UNCHANGED <<queue, task>>
  <2> DEFINE r == StartFailed(Ended(work[k]))
  <2>1. /\ r \in Worker /\ WorkerOK(r) /\ r.pc = "publish" /\ r.lock = 0
        /\ r.first = work[k].first /\ r.ws = work[k].ws /\ r.reset = work[k].reset
    BY <1>1, EndedIs, StartFailedOK
  <2>2. work' = [work EXCEPT ![k] = r]
    BY <1>4, Zenon DEF Put
  <2> HIDE DEF r
  <2>3. Calm(k, r)
    BY <1>2, <2>1, Zenon DEF Calm
  <2> QED BY <1>1, <1>4, <2>1, <2>2, <2>3, StaysStep, Zenon
<1> QED BY <1>3, <1>4, Zenon DEF finish_failed_workspace_start

(* A worker goes on after a publication. *)
LEMMA AppliedStep ==
    ASSUME Shape, Mail, Answered, Rest, NEW k \in Workers, Applied(k)
    PROVE  IInv'
<1>a. /\ work[k].pc = "apply"
      /\ \/ FailedEmpty(k) \/ (\E i \in DOMAIN queue[k] : FailedStop(k, i))
         \/ AnsweredStart(k) \/ Idles(k) \/ Finishes(k)
  <2> DEFINE stops == {i \in DOMAIN queue[k] : queue[k][i].kind = "stop"}
             done == Settled([work[k] EXCEPT !.first = NoCommand], "recv")
  <2>1. work[k].pc = "apply"
    BY Zenon DEF Applied, ApplyToStore
  <2>2. CASE /\ work[k].then = "failed" /\ stops = {}
             /\ queue' = [queue EXCEPT ![k] = << >>]
             /\ task' = Answer({work[k].first} \cup Range(queue[k]), TRUE)
             /\ Put(k, done)
    <3>1. \A i \in DOMAIN queue[k] : queue[k][i].kind # "stop"
      BY <2>2, Zenon
    <3> QED BY <2>1, <2>2, <3>1, Zenon DEF FailedEmpty, Commands, Put, Done
  <2>3. ASSUME NEW i \in stops, work[k].then = "failed",
               task' = Answer({work[k].first} \cup (Range(queue[k]) \ {queue[k][i]}), TRUE),
               Put(k, Publishing([work[k] EXCEPT !.first = queue[k][i]], "Stopped", "replied")),
               queue' = [queue EXCEPT ![k] = << >>]
        PROVE  \E j \in DOMAIN queue[k] : FailedStop(k, j)
    <3>1. i \in DOMAIN queue[k] /\ queue[k][i].kind = "stop"
      BY Zenon
    <3> QED BY <2>3, <3>1, Zenon DEF FailedStop, Put
  <2>4. CASE /\ work[k].then = "answer"
             /\ task' = Answer({work[k].first}, TRUE)
             /\ Put(k, [done EXCEPT !.pc = "run"])
             /\ UNCHANGED queue
    BY <2>1, <2>4, Zenon DEF AnsweredStart, Put, Done
  <2>5. CASE work[k].then = "recv" /\ Put(k, done) /\ UNCHANGED <<queue, task>>
    BY <2>1, <2>5, Zenon DEF Idles, Put, Done
  <2>6. CASE Finishes(k)
    BY <2>1, <2>6, Zenon
  <2> HIDE DEF stops, done
  <2>7. \/ /\ work[k].then = "failed" /\ stops = {}
           /\ queue' = [queue EXCEPT ![k] = << >>]
           /\ task' = Answer({work[k].first} \cup Range(queue[k]), TRUE)
           /\ Put(k, done)
        \/ \E i \in stops :
             /\ work[k].then = "failed"
             /\ task' = Answer({work[k].first} \cup (Range(queue[k]) \ {queue[k][i]}), TRUE)
             /\ Put(k, Publishing([work[k] EXCEPT !.first = queue[k][i]], "Stopped", "replied"))
             /\ queue' = [queue EXCEPT ![k] = << >>]
        \/ /\ work[k].then = "answer"
           /\ task' = Answer({work[k].first}, TRUE)
           /\ Put(k, [done EXCEPT !.pc = "run"])
           /\ UNCHANGED queue
        \/ work[k].then = "recv" /\ Put(k, done) /\ UNCHANGED <<queue, task>>
        \/ Finishes(k)
    BY Zenon DEF Applied, stops, done, Finishes
  <2> QED BY <2>1, <2>2, <2>3, <2>4, <2>5, <2>6, <2>7, Zenon
<1>b. ASSUME work[k] \in Worker
      PROVE  /\ Done(k) \in Worker /\ Done(k).pc = "recv" /\ Done(k).first = NoCommand
             /\ Done(k).ws = work[k].ws /\ Done(k).vm = work[k].vm /\ Done(k).lock = work[k].lock
             /\ Done(k).reset = work[k].reset
  <2> USE <1>b
  <2> DEFINE r == [work[k] EXCEPT !.first = NoCommand]
  <2>1. NoCommand \in Command /\ "Absent" \in Statuses
    BY Zenon DEF NoCommand, Command, Statuses
  <2>2. /\ r \in Worker /\ r.first = NoCommand /\ r.ws = work[k].ws /\ r.vm = work[k].vm
        /\ r.lock = work[k].lock /\ r.reset = work[k].reset
    BY <2>1, Zenon DEF Worker
  <2> HIDE DEF r
  <2> DEFINE s == Settled(r, "recv")
  <2>3. /\ s \in Worker /\ s.pc = "recv" /\ s.first = r.first /\ s.ws = r.ws /\ s.vm = r.vm
        /\ s.lock = r.lock /\ s.reset = r.reset
    BY <2>1, <2>2, ZenonT(30) DEF Settled, Worker
  <2>4. Done(k) = s
    BY Zenon DEF Done, r
  <2> HIDE DEF s
  <2> QED BY <2>2, <2>3, <2>4, Zenon
<1>1. work[k] \in Worker /\ WorkerOK(work[k]) /\ work[k].pc = "apply" /\ Alive(k)
      /\ work[k].ws \in Names
      /\ (Over(k) <=> work[k].then = "replied")
  BY WorkAt, <1>a, Zenon DEF WorkerOK, Alive, Over
<1>2. shutdown' = shutdown /\ reset' = reset /\ resets' = resets /\ RestOK'
  <2>1. store' \in [Names -> Statuses]
    BY <1>1, Zenon DEF Applied, ApplyToStore, Shape, RestOK, Worker
  <2> QED BY <2>1, Zenon DEF Applied, Shape, RestOK, files, lifecycle, boots, service
<1>3. work[k].then # "replied" => work[k].first.kind # "stop"
  BY <1>1, Zenon DEF WorkerOK
<1>4. /\ Done(k) \in Worker /\ Done(k).pc = "recv" /\ Done(k).first = NoCommand
      /\ Done(k).ws = work[k].ws /\ Done(k).lock = work[k].lock /\ Done(k).reset = work[k].reset
      /\ Done(k).vm = work[k].vm /\ NoCommand.kind = "none" /\ << >> \in Seq(Command)
  BY <1>1, <1>b DEF NoCommand
<1>10. work[k].then # "answer" => WorkerOK(Done(k)) /\ work[k].vm \notin {"booting", "up"}
  BY <1>1, <1>4, Zenon DEF WorkerOK
<1>5. CASE FailedEmpty(k)
  <2>1. \A m \in Commands(k) : m.kind # "stop"
    BY <1>3, <1>5, Zenon DEF FailedEmpty, Commands, Range
  <2>2. Keeps(k, Done(k).first, << >>, Commands(k))
    BY <1>4, KeepsNothing, Zenon
  <2>3. Move(k, Done(k), << >>, Commands(k), TRUE)
    BY <1>1, <1>4, <1>5, <1>10, <2>1, <2>2, Zenon DEF Move, FailedEmpty
  <2>4. Calm(k, Done(k))
    BY <1>2, <1>4, Zenon DEF Calm
  <2> QED BY <2>3, <2>4, MoveStep, Zenon
<1>6. ASSUME NEW i \in DOMAIN queue[k], FailedStop(k, i) PROVE IInv'
  <2> DEFINE m == queue[k][i]
             r == [work[k] EXCEPT !.first = m]
             commands == {work[k].first} \cup (Range(queue[k]) \ {m})
             s == Publishing(r, "Stopped", "replied")
  <2>1. m \in Commands(k) /\ commands \subseteq Commands(k)
    BY Zenon DEF Commands, Range
  <2>2. m.by # None => m \notin commands
    BY Zenon DEF Mail, MailFor
  <2>3. m \in Command
    BY DEF Shape
  <2>4. /\ task' = Answer(commands, TRUE) /\ queue' = [queue EXCEPT ![k] = << >>]
        /\ work' = [work EXCEPT ![k] = s]
    BY <1>6, Zenon DEF FailedStop
  <2> HIDE DEF m, commands
  <2>5. /\ r \in Worker /\ r.first = m /\ r.ws = work[k].ws /\ r.reset = work[k].reset
        /\ r.lock = work[k].lock /\ r.vm = work[k].vm /\ "Stopped" \in Statuses
    BY <1>1, <2>3, Zenon DEF Worker, Statuses
  <2> HIDE DEF r
  <2>6. /\ s \in Worker /\ WorkerOK(s) /\ s.pc = "publish" /\ s.then = "replied"
        /\ s.ws = work[k].ws /\ s.lock = work[k].lock /\ s.first = m /\ s.reset = work[k].reset
    <3>1. work[k].vm \notin {"booting", "up"}
      BY <1>6, <1>10, Zenon DEF FailedStop
    <3> QED BY <1>1, <2>5, <3>1, WorkPublishing
  <2> HIDE DEF s
  <2>7. Keeps(k, s.first, << >>, commands)
    BY <2>1, <2>2, <2>6 DEF Keeps
  <2>8. Move(k, s, << >>, commands, TRUE)
    BY <1>1, <1>4, <2>1, <2>4, <2>6, <2>7, Zenon DEF Move, IsOver
  <2>9. Calm(k, s)
    BY <1>2, <2>6, Zenon DEF Calm
  <2> QED BY <2>8, <2>9, MoveStep, Zenon
<1>7. CASE AnsweredStart(k)
  <2> DEFINE r == [Done(k) EXCEPT !.pc = "run"]
             commands == {work[k].first}
  <2>1. /\ r \in Worker /\ r.pc = "run" /\ r.ws = work[k].ws /\ r.lock = work[k].lock
        /\ r.first = NoCommand /\ r.reset = work[k].reset /\ r.vm = work[k].vm
    BY <1>4, Zenon DEF Worker
  <2>2. /\ work' = [work EXCEPT ![k] = r] /\ task' = Answer(commands, TRUE)
        /\ queue' = [queue EXCEPT ![k] = queue[k]] /\ queue[k] \in Seq(Command)
    BY <1>7, Zenon DEF AnsweredStart, Shape
  <2>3. Keeps(k, r.first, queue[k], commands)
    BY <2>1, KeepsQueue, Zenon
  <2>4. commands \subseteq Commands(k) /\ ~Over(k) /\ \A m \in commands : m.kind # "stop"
    BY <1>1, <1>3, <1>7, Zenon DEF Commands, AnsweredStart
  <2> HIDE DEF r, commands
  <2>7. WorkerOK(r)
    BY <1>1, <1>4, <2>1, Zenon DEF WorkerOK
  <2>5. Move(k, r, queue[k], commands, TRUE)
    BY <1>1, <2>1, <2>2, <2>3, <2>4, <2>7, Zenon DEF Move
  <2>6. Calm(k, r)
    BY <1>2, <2>1, Zenon DEF Calm
  <2> QED BY <2>5, <2>6, MoveStep, Zenon
<1>8. CASE Idles(k)
  <2>1. Calm(k, Done(k))
    BY <1>2, <1>4, Zenon DEF Calm
  <2> QED BY <1>1, <1>4, <1>8, <1>10, <2>1, StaysStep, Zenon DEF Idles
<1>9. CASE Finishes(k)
  BY <1>1, <1>2, <1>9, FinishStep, Zenon DEF Finishes
<1> QED BY <1>5, <1>6, <1>7, <1>8, <1>9, <1>a, Zenon

(* A worker with a running VM. *)
LEMMA RunStep ==
    ASSUME Shape, Mail, Answered, Rest, NEW k \in Workers, Run(k)
    PROVE  IInv'
<1>a. ASSUME queue[k] # << >>
      PROVE  Head(queue[k]) \in Commands(k)
  BY <1>a, TailIs, Zenon DEF Commands, Range
<1>b. /\ work[k].pc = "run"
      /\ \/ \E why \in {"Failed", "Shutdown", "CommandsClosed"} :
               /\ work' = [work EXCEPT ![k] = Closes(k, why, work[k].first)]
               /\ UNCHANGED <<queue, task>>
         \/ /\ queue[k] # << >> /\ queue' = [queue EXCEPT ![k] = Tail(@)]
            /\ \/ /\ Head(queue[k]).kind = "stop" /\ task' = task
                  /\ work' = [work EXCEPT ![k] = Closes(k, "Requested", Head(queue[k]))]
               \/ /\ Head(queue[k]).kind # "stop"
                  /\ task' = Answer({Head(queue[k])}, TRUE) /\ work' = work
  <2>1. work[k] \in Worker /\ work[k].pc = "run"
    BY WorkAt, Zenon DEF Run
  <2>2. ASSUME NEW why, Closing(k, why)
        PROVE  work' = [work EXCEPT ![k] = Closes(k, why, work[k].first)]
    <3>1. [work[k] EXCEPT !.pc = "closing", !.stop = why] = Closes(k, why, work[k].first)
      BY <2>1, Zenon DEF Closes, Worker
    <3> QED BY <2>2, <3>1, Zenon DEF Closing, Put
  <2>3. ASSUME NEW m, StopRequested(k, m)
        PROVE  work' = [work EXCEPT ![k] = Closes(k, "Requested", m)] /\ task' = task
    BY <2>3, Zenon DEF StopRequested, Put, Closes
  <2>4. \/ \E why \in {"Failed", "Shutdown", "CommandsClosed"} :
              Closing(k, why) /\ UNCHANGED <<queue, task>>
        \/ /\ queue[k] # << >> /\ queue' = [queue EXCEPT ![k] = Tail(@)]
           /\ \/ Head(queue[k]).kind = "stop" /\ StopRequested(k, Head(queue[k]))
              \/ /\ Head(queue[k]).kind # "stop"
                 /\ task' = Answer({Head(queue[k])}, TRUE) /\ work' = work
    BY Zenon DEF Run
  <2> QED BY <2>1, <2>2, <2>3, <2>4, Zenon
<1>c. ASSUME work[k] \in Worker, NEW m \in Command,
             NEW why \in {"Requested", "Failed", "Shutdown", "CommandsClosed"}
      PROVE  /\ Closes(k, why, m) \in Worker /\ Closes(k, why, m).pc = "closing"
             /\ Closes(k, why, m).stop = why /\ Closes(k, why, m).first = m
             /\ Closes(k, why, m).ws = work[k].ws /\ Closes(k, why, m).vm = work[k].vm
             /\ Closes(k, why, m).lock = work[k].lock /\ Closes(k, why, m).reset = work[k].reset
  BY <1>c, ZenonT(30) DEF Closes, Worker
<1>1. /\ work[k] \in Worker /\ WorkerOK(work[k]) /\ work[k].pc = "run" /\ work[k].first \in Command
      /\ Alive(k) /\ ~Over(k)
  BY WorkAt, <1>b, Zenon DEF Worker, Alive, Over
<1>2. shutdown' = shutdown /\ reset' = reset /\ resets' = resets /\ RestOK'
  BY Zenon DEF Run, Shape, RestOK, files, lifecycle, shown, boots, service
<1>6. ASSUME NEW why \in {"Requested", "Failed", "Shutdown", "CommandsClosed"}, NEW m \in Command,
             m.kind = "stop" => why = "Requested", NEW r, r = Closes(k, why, m)
      PROVE  /\ r \in Worker /\ WorkerOK(r) /\ r.pc = "closing" /\ r.first = m
             /\ r.lock = work[k].lock /\ r.reset = work[k].reset /\ r.ws = work[k].ws
  BY <1>1, <1>6, <1>c DEF WorkerOK
<1>3. ASSUME NEW why \in {"Failed", "Shutdown", "CommandsClosed"},
             work' = [work EXCEPT ![k] = Closes(k, why, work[k].first)],
             UNCHANGED <<queue, task>>
      PROVE  IInv'
  <2> DEFINE r == Closes(k, why, work[k].first)
  <2>1. work[k].first.kind # "stop"
    BY <1>1, Zenon DEF WorkerOK
  <2>2. /\ r \in Worker /\ WorkerOK(r) /\ r.pc = "closing" /\ r.first = work[k].first
        /\ r.lock = work[k].lock /\ r.reset = work[k].reset /\ r.ws = work[k].ws
    BY <1>1, <1>6, <2>1
  <2>3. work' = [work EXCEPT ![k] = r]
    BY <1>3, Zenon
  <2> HIDE DEF r
  <2>4. Calm(k, r)
    BY <1>2, <2>2, Zenon DEF Calm
  <2> QED BY <1>1, <1>3, <2>2, <2>3, <2>4, StaysStep, Zenon
<1>4. ASSUME queue[k] # << >>, queue' = [queue EXCEPT ![k] = Tail(@)], task' = task,
             work' = [work EXCEPT ![k] = Closes(k, "Requested", Head(queue[k]))]
      PROVE  IInv'
  <2> DEFINE m == Head(queue[k])
             r == Closes(k, "Requested", m)
             q == Tail(queue[k])
  <2>1. m \in Command /\ q \in Seq(Command) /\ Keeps(k, m, q, {})
    BY <1>4, TailIs, KeepsTail, Zenon
  <2>2. /\ r \in Worker /\ WorkerOK(r) /\ r.pc = "closing" /\ r.first = m
        /\ r.lock = work[k].lock /\ r.reset = work[k].reset /\ r.ws = work[k].ws
    BY <1>6, <2>1
  <2>3. /\ work' = [work EXCEPT ![k] = r] /\ queue' = [queue EXCEPT ![k] = q]
        /\ task' = Answer({}, TRUE)
    BY <1>4, NoAnswer, Zenon
  <2> HIDE DEF m, r, q
  <2>4. Move(k, r, q, {}, TRUE)
    BY <1>1, <2>1, <2>2, <2>3, Zenon DEF Move
  <2>5. Calm(k, r)
    BY <1>2, <2>2, Zenon DEF Calm
  <2> QED BY <2>4, <2>5, MoveStep, Zenon
<1>5. ASSUME queue[k] # << >>, queue' = [queue EXCEPT ![k] = Tail(@)],
             Head(queue[k]).kind # "stop", task' = Answer({Head(queue[k])}, TRUE), work' = work
      PROVE  IInv'
  <2> DEFINE m == Head(queue[k])
             q == Tail(queue[k])
  <2>1. Keeps(k, work[k].first, q, {m}) /\ {m} \subseteq Commands(k) /\ m.kind # "stop"
        /\ q \in Seq(Command)
    BY <1>5, KeepsTail, <1>a, TailIs, Zenon
  <2>2. /\ work' = [work EXCEPT ![k] = work[k]] /\ queue' = [queue EXCEPT ![k] = q]
        /\ task' = Answer({m}, TRUE)
    BY <1>5, Zenon DEF Shape, WorkShape
  <2> HIDE DEF m, q
  <2>3. Move(k, work[k], q, {m}, TRUE)
    BY <1>1, <2>1, <2>2, Zenon DEF Move
  <2>4. Calm(k, work[k])
    BY <1>2, Zenon DEF Calm
  <2> QED BY <2>3, <2>4, MoveStep, Zenon
<1> QED BY <1>3, <1>4, <1>5, <1>b, Zenon

(* ActiveWorkspace::shutdown. *)
LEMMA CloseStep ==
    ASSUME Shape, Mail, Answered, Rest, NEW k \in Workers, Close(k)
    PROVE  IInv'
<1>a. /\ work[k].pc = "closing"
      /\ \/ Finish(k, {}, "none")
         \/ /\ UNCHANGED <<queue, task>>
            /\ \E show \in {"Stopped", "Failed"}, then \in {"replied", "recv", "exit"} :
                  /\ work[k].stop = "Requested" <=> then = "replied"
                  /\ work' = [work EXCEPT ![k] = Publishing(Ended(work[k]), show, then)]
  BY Zenon DEF Close, Put
<1>1. /\ work[k] \in Worker /\ WorkerOK(work[k]) /\ work[k].pc = "closing"
      /\ work[k].ws \in Names /\ Alive(k) /\ ~Over(k)
  BY WorkAt, <1>a, Zenon DEF WorkerOK, Alive, Over
<1>2. shutdown' = shutdown /\ reset' = reset /\ resets' = resets /\ RestOK'
  BY Zenon DEF Close, Shape, RestOK, files, lifecycle, shown, boots, service
<1>3. CASE Finish(k, {}, "none")
  BY <1>1, <1>2, <1>3, FinishStep, Zenon
<1>4. ASSUME UNCHANGED <<queue, task>>,
             NEW show \in {"Stopped", "Failed"}, NEW then \in {"replied", "recv", "exit"},
             (work[k].stop = "Requested") <=> (then = "replied"),
             work' = [work EXCEPT ![k] = Publishing(Ended(work[k]), show, then)]
      PROVE  IInv'
  <2> DEFINE r == Publishing(Ended(work[k]), show, then)
  <2>1. /\ r \in Worker /\ WorkerOK(r) /\ r.pc = "publish" /\ r.lock = 0
        /\ r.first = work[k].first /\ r.ws = work[k].ws /\ r.reset = work[k].reset
    <3>1. show \in Statuses /\ (work[k].first.kind = "stop" => then = "replied")
      BY <1>1, <1>4, Zenon DEF WorkerOK, Statuses
    <3> QED BY <1>1, <3>1, EndedIs, WorkPublishing
  <2>2. work' = [work EXCEPT ![k] = r]
    BY <1>4, Zenon
  <2> HIDE DEF r
  <2>3. Calm(k, r)
    BY <1>2, <2>1, Zenon DEF Calm
  <2> QED BY <1>1, <1>4, <2>1, <2>2, <2>3, StaysStep, Zenon
<1> QED BY <1>3, <1>4, <1>a, Zenon

(* A VM that was left behind dies. *)
LEMMA ReapStep ==
    ASSUME Shape, Mail, Answered, Rest, NEW k \in Workers, Reap(k)
    PROVE  IInv'
<1> DEFINE r == [work[k] EXCEPT !.vm = "none"]
<1>1. work[k] \in Worker /\ WorkerOK(work[k]) /\ work[k].vm = "dying"
  BY WorkAt, Zenon DEF Reap
<1>2. /\ r \in Worker /\ r.vm = "none" /\ r.stop = work[k].stop /\ r.pc = work[k].pc /\ r.ws = work[k].ws /\ r.first = work[k].first
      /\ r.then = work[k].then /\ r.lock = work[k].lock /\ r.reset = work[k].reset
  BY <1>1, Zenon DEF Worker
<1>3. work' = [work EXCEPT ![k] = r]
  BY Zenon DEF Reap, Put
<1> HIDE DEF r
<1>4. \A j \in Workers :
         /\ work'[j].pc = work[j].pc /\ work'[j].ws = work[j].ws /\ work'[j].first = work[j].first
         /\ work'[j].then = work[j].then /\ work'[j].lock = work[j].lock
         /\ work'[j].reset = work[j].reset
  BY <1>2, <1>3, Zenon DEF Shape, WorkShape
<1>5. /\ task' = task /\ queue' = queue /\ shutdown' = shutdown /\ reset' = reset
      /\ resets' = resets
  BY Zenon DEF Reap, lifecycle, boots
<1>6. \A j \in Workers : (Alive(j)' <=> Alive(j)) /\ (Over(j)' <=> Over(j))
  BY <1>4, Zenon DEF Alive, Over
<1>7. Mail'
  <2>1. ASSUME NEW j \in Workers PROVE MailFor(j)'
    <3>1. MailFor(j) /\ work'[j].first = work[j].first /\ queue'[j] = queue[j]
          /\ (Alive(j)' <=> Alive(j))
      BY <1>4, <1>5, <1>6, Zenon DEF Mail
    <3> QED BY <1>5, <3>1, Zenon DEF MailFor, Sent
  <2> QED BY <2>1, Zenon DEF Mail
<1>8. Answered'
  <2>1. ASSUME NEW d \in Callers, NEW j, j = task'[d].peer,
               task'[d].pc = "end", task'[d].ok, task'[d].peer # None
        PROVE  Over(j)'
    <3>1. Over(j) /\ j \in Workers
      BY <1>5, <2>1, TaskAt, Zenon DEF Answered, Task
    <3> QED BY <1>6, <3>1, Zenon
  <2> QED BY <2>1, Zenon DEF Answered
<1>9. Rest'
  <2>1. Locks' /\ Discards'
    BY <1>4, <1>5 DEF Locks, Discards, Rest
  <2>2. Ending'
    BY <1>5, <1>6, Zenon DEF Ending, Rest
  <2> QED BY <2>1, <2>2, Zenon DEF Rest
<1>10. WorkerOK(r)
  BY <1>1, <1>2, Zenon DEF WorkerOK
<1>11. Shape'
  <2>1. WorkShape'
    BY <1>2, <1>3, <1>10, WorkSet, Zenon
  <2> QED BY <2>1, Zenon DEF Reap, Shape, RestOK, TaskShape, files, lifecycle, shown, boots, service
<1> QED BY <1>7, <1>8, <1>9, <1>11, Zenon DEF IInv

-----------------------------------------------------------------------------
(* The invariant, and the theorems.                                        *)

(* A quiet step keeps the invariant. *)
LEMMA QuietStep ==
    ASSUME Shape, Mail, Answered, Rest, NEW c \in Callers, c # Closer, Shape', QuietBy(c),
           shutdown' = shutdown
    PROVE  IInv'
BY QuietMail, QuietRest, Zenon DEF IInv

(* The steps of a call. *)
LEMMA CallStepOK ==
    ASSUME Shape, Mail, Answered, Rest, NEW c \in Calls, CallStep(c)
    PROVE  IInv'
<1>1. c \in Callers /\ c # Closer
  BY CallIsCaller, Zenon
<1>2. CASE worker_sender(c)
  BY <1>2, SenderShape, SenderStep, Zenon DEF IInv
<1>3. CASE Send(c)
  BY <1>3, SendShape, SendStep, Zenon DEF IInv
<1>4. CASE ~worker_sender(c) /\ ~Send(c)
  <2>1. Shape' /\ QuietBy(c)
    BY <1>4, CallQuiet, Zenon
  <2>2. shutdown' = shutdown
    BY <1>4, Zenon DEF CallStep, TaskPublishes, remove_closed_worker, current_guest_instance,
                begin_workspace_stop, end_workspace_stop, delete_managed_workspace, publish_create,
                lifecycle
  <2> QED BY <1>1, <2>1, <2>2, QuietStep, Zenon
<1> QED BY <1>2, <1>3, <1>4, Zenon

(* The steps of the watcher. *)
LEMMA WatcherStepOK ==
    ASSUME Shape, Mail, Answered, Rest, WatcherStep
    PROVE  IInv'
<1>1. Watcher \in Callers /\ Watcher # Closer
  BY OthersAreCallers, Zenon
<1>2. CASE Send(Watcher)
  BY <1>2, SendShape, SendStep, Zenon DEF IInv
<1>3. CASE run_workspace_watcher \/ Reconcile
  <2>1. Shape' /\ QuietBy(Watcher) /\ shutdown' = shutdown
    BY <1>3, WatchesQuiet, ReconcileQuiet, Zenon DEF run_workspace_watcher, Reconcile, lifecycle
  <2> QED BY <1>1, <2>1, QuietStep, Zenon
<1> QED BY <1>2, <1>3, Zenon DEF WatcherStep

(* At first. *)
LEMMA InitIInv == Init => IInv
<1> SUFFICES ASSUME Init PROVE IInv
  BY Zenon
<1>1. Shape
  BY InitShape, Zenon
<1>2. /\ \A c \in Callers : task[c].pc = "idle"
      /\ \A k \in Workers : /\ work[k].first.by = None /\ ~work[k].reset /\ work[k].lock = 0
                            /\ queue[k] = << >>
  BY Zenon DEF Init, Idle, Gone, NoCommand
<1>3. Mail
  <2>1. ASSUME NEW k \in Workers PROVE MailFor(k)
    <3>1. queue[k] = << >> /\ work[k].first.by = None /\ DOMAIN queue[k] = {}
      BY <1>2
    <3> QED BY <3>1, Zenon DEF MailFor
  <2> QED BY <2>1, Zenon DEF Mail
<1>4. Answered
  BY <1>2, Zenon DEF Answered
<1>5. Locks
  BY <1>2, Zenon DEF Locks
<1>6. Discards
  BY <1>2, WorkspacesAssumption DEF Init, Discards
<1>7. Ending
  BY <1>2, OthersAreCallers, Zenon DEF Ending
<1> QED BY <1>1, <1>3, <1>4, <1>5, <1>6, <1>7, Zenon DEF IInv, Rest

(* A step that no part of the invariant looks at. *)
LEMMA SameStep ==
    ASSUME Shape, Mail, Answered, Rest, RestOK',
           task' = task, work' = work, queue' = queue, shutdown' = shutdown, reset' = reset,
           resets' = resets
    PROVE  IInv'
<1>1. Mail'
  <2>1. ASSUME NEW k \in Workers PROVE MailFor(k)'
    <3>1. MailFor(k) /\ (Alive(k)' <=> Alive(k))
      BY Zenon DEF Mail, Alive
    <3> QED BY <3>1, Zenon DEF MailFor, Sent
  <2> QED BY <2>1, Zenon DEF Mail
<1>2. Answered'
  BY Zenon DEF Answered, Over, Alive
<1>3. Rest' /\ Shape'
  BY Zenon DEF Rest, Locks, Discards, Ending, Alive, Shape, TaskShape, WorkShape
<1> QED BY <1>1, <1>2, <1>3, Zenon DEF IInv

(* Every step keeps the invariant. *)
LEMMA IInvStep == IInv /\ [Next]_vars => IInv'
<1> SUFFICES ASSUME IInv, [Next]_vars PROVE IInv'
  BY Zenon
<1>1. Shape /\ Mail /\ Answered /\ Rest
  BY Zenon DEF IInv
<1>2. ASSUME NEW c \in Calls, NEW op \in Ops, NEW w \in Names, Begin(c, op, w) PROVE IInv'
  <2>1. c \in Callers /\ c # Closer /\ shutdown' = shutdown
    BY <1>2, CallIsCaller, Zenon DEF Begin, lifecycle
  <2> QED BY <1>1, <1>2, <2>1, BeginQuiet, QuietStep, Zenon
<1>3. ASSUME NEW c \in Calls, CallStep(c) \/ Drop(c) PROVE IInv'
  BY <1>1, <1>3, CallStepOK, DropShape, DropStep, Zenon DEF IInv
<1>4. ASSUME NEW k \in Workers, WorkerStep(k) PROVE IInv'
  BY <1>1, <1>4, WorkerPublishesStep, ReceiveStep, StartStep, BootStep, FailingStep, AppliedStep,
     RunStep, CloseStep, Zenon DEF WorkerStep
<1>5. ASSUME NEW k \in Workers, Reap(k) PROVE IInv'
  BY <1>1, <1>5, ReapStep, Zenon
<1>6. CASE WatcherStep \/ Shutdown \/ CloserStep
  BY <1>1, <1>6, WatcherStepOK, ShutdownStep, CloserStepOK, Zenon
<1>7. ASSUME NEW w \in Names, Edit(w) PROVE IInv'
  <2>1. image' \in SUBSET Names /\ changed' \in BOOLEAN
    BY <1>1, <1>7, Zenon DEF Edit, Shape, RestOK
  <2>2. RestOK'
    BY <1>1, <1>7, <2>1, Zenon DEF Edit, Shape, RestOK, lifecycle, shown, boots
  <2> QED BY <1>1, <1>7, <2>2, SameStep, Zenon DEF Edit, lifecycle, boots
<1>8. CASE UNCHANGED vars
  <2>1. RestOK'
    BY <1>1, <1>8, Zenon DEF vars, Shape, RestOK
  <2> QED BY <1>1, <1>8, <2>1, SameStep, Zenon DEF vars
<1> QED BY <1>2, <1>3, <1>4, <1>5, <1>6, <1>7, <1>8, Zenon DEF Next

(* It holds always. *)
LEMMA Invariance == Spec => []IInv
BY InitIInv, IInvStep, PTL DEF Spec

(* A worker with a VM holds vm.lock of its state directory, and is neither *)
(* gone nor past the stop it answers.                                      *)
LEMMA LiveWorker ==
    ASSUME IInv, NEW k \in Live
    PROVE  k \in Workers /\ work[k].lock # 0 /\ ~Over(k)
<1>1. k \in Workers /\ work[k].vm \in {"booting", "up"}
  BY Zenon DEF Live
<1>2. WorkerOK(work[k])
  BY <1>1, WorkAt, Zenon DEF IInv
<1> QED BY <1>1, <1>2, Zenon DEF WorkerOK, Over, Alive

(* Two VMs never use one state partition: start_managed_workspace takes    *)
(* vm.lock before it boots the VM, and ActiveWorkspace::shutdown and       *)
(* finish_failed_workspace_start give it up after the VM has stopped, for  *)
(* any number of workers that the watcher has left without a map entry.    *)
THEOREM VmsHaveTheirPartition == Spec => []OneVmPerPartition
<1>1. IInv => OneVmPerPartition
  BY LiveWorker, Zenon DEF IInv, Rest, Locks, OneVmPerPartition
<1> QED BY <1>1, Invariance, PTL

(* Once shutdown has returned there is no worker and no VM, whatever calls *)
(* were under way: worker_sender looks at the flag under the lock of the   *)
(* map, so that a worker spawned before is among the tasks awaited.        *)
THEOREM ShutdownLeavesNothing == Spec => []ShutdownIsComplete
<1>1. ASSUME IInv, task[Closer].pc = "returned" PROVE Live = {} /\ \A k \in Workers : ~Alive(k)
  <2>1. \A k \in Workers : ~Alive(k)
    BY <1>1, Zenon DEF IInv, Rest, Ending
  <2>2. Live = {}
    BY <1>1, <2>1, LiveWorker, Zenon DEF Over
  <2> QED BY <2>1, <2>2, Zenon
<1>2. IInv => ShutdownIsComplete
  BY <1>1, Zenon DEF ShutdownIsComplete
<1> QED BY <1>2, Invariance, PTL

(* A stop or destroy that has its answer finds the worker it took out of   *)
(* the map without a VM, whether the worker answered, had its queue        *)
(* dropped, or was gone when the command was sent.                         *)
THEOREM StopLeavesNoVm == Spec => []StopMeansStopped
<1>1. ASSUME IInv, NEW c \in Calls, task[c].pc = "end", task[c].ok, task[c].peer # None
      PROVE  task[c].peer \notin Live
  BY <1>1, LiveWorker, CallIsCaller, Zenon DEF IInv, Answered
<1>2. IInv => StopMeansStopped
  BY <1>1, Zenon DEF StopMeansStopped
<1> QED BY <1>2, Invariance, PTL

(* A state disk is discarded at most once: worker_sender hands the request *)
(* to one worker, and that worker asks for a fresh disk at its first start *)
(* only.                                                                   *)
THEOREM DiskResetOnce == Spec => []ResetOnce
<1>1. IInv => ResetOnce
  BY Zenon DEF IInv, Rest, Discards, ResetOnce
<1> QED BY <1>1, Invariance, PTL

=============================================================================
