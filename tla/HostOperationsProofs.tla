------------------------ MODULE HostOperationsProofs ------------------------
(***************************************************************************)
(* Proofs about host operations, for every number of operations, inputs,   *)
(* calls and uploads, with storage failing and the daemon killed at any    *)
(* step: a process is started once and after an audited approval, captured *)
(* inputs stay, a finished operation has no process, and a durable end is  *)
(* final.                                                                  *)
(*                                                                         *)
(* A task relies on what it has seen before its last await. The inductive  *)
(* invariant says what: CallOK, UploadOK and RunOK for the three kinds of  *)
(* task, OpOK for an operation, and that no two tasks own the same input   *)
(* or the same new operation. TaskStep reduces a step to what the others   *)
(* may rely on (Kept): the transition lock, the audit log, which only      *)
(* grows, the record, which advances and loses a pending input only to the *)
(* upload that owns it, the directories and the process.                   *)
(***************************************************************************)
EXTENDS HostOperations, TLAPS

\* Pcs of append_audit and of what follows it.
Live == {"auditing", "append", "audited", "unaudited"}
\* States of an operation that was approved.
Late == Active \cup Terminal
AuditKinds == Kinds \cup {"none", "Exited"}

\* A line of the audit log, and a task.
Entry == [seq : Nat, kind : AuditKinds]

Pcs ==
    {"idle", "insert", "detached", "start", "spawned", "wait", "drain", "finish", "fail",
     "admitted", "copy", "commit", "auditing", "append", "audited", "unaudited"}

TaskRecord ==
    [pc : Pcs,
     op : Ops \cup {"free"}, input : Inputs \cup {"none"}, kind : AuditKinds, seq : Nat]

TypeInv ==
    /\ daemon \in {"up", "down", "opening"}
    /\ disk \in [Ops -> Records] /\ mem \in [Ops -> Records]
    /\ transitions \in Tasks \cup {"free"}
    /\ task \in [Tasks -> TaskRecord]
    /\ audit \in [Ops -> Seq(Entry)]
    /\ dirs \in [Ops -> SUBSET Inputs]
    /\ child \in [Ops -> {"none", "alive", "exited", "gone"}]
    /\ spawns \in [Ops -> Nat]
    /\ recovering \in Ops \cup {"free"}

\* What a control-plane call relies on: request has written the record and not yet shown it; an
\* approval is being audited with the transition lock held and before its run begins.
CallOK(c) ==
    LET o == task[c].op IN
    /\ task[c].pc \in {"idle", "insert", "detached"} \cup Live
    /\ task[c].pc # "idle" => o \in Ops
    /\ task[c].pc = "insert" => disk[o] = Created(o) /\ mem[o] = NoRecord
    /\ task[c].pc \in Live /\ task[c].kind # "Requested" => transitions = c
    /\ task[c].pc \in Live /\ task[c].kind = "Approved" =>
          mem[o].state = "Starting" /\ spawns[o] = 0 /\ task[o].pc = "idle"
    /\ task[c].pc = "audited" /\ task[c].kind = "Approved" => "Approved" \in kinds(o)

\* An upload that has claimed its input: it has created the directory and is not done with it.
Owner(u) ==
    \/ task[u].pc \in {"copy", "commit", "fail"}
    \/ task[u].pc \in Live /\ task[u].kind = "Failed"

\* What an upload relies on: a claimed input is pending, and nobody removes its directory.
UploadOK(u) ==
    LET o == task[u].op IN
    /\ task[u].pc \in {"idle", "admitted", "copy", "commit", "fail"} \cup Live
    /\ task[u].pc # "idle" =>
          o \in Ops /\ task[u].input \in Declared[o] /\ mem[o].state # "none"
    /\ task[u].pc \in Live => transitions = u
    /\ Owner(u) => task[u].input \in dirs[o] /\ task[u].input \in mem[o].pending

\* The supervisor is responsible for the process.
Attended(o) == task[o].pc \in {"spawned", "wait"} \/ (task[o].pc \in Live /\ task[o].kind = "Started")

\* What the supervisor relies on: its operation was approved and audited, a process is started once,
\* and a process that lives is attended.
RunOK(o) ==
    /\ task[o].pc \in {"idle", "start", "spawned", "wait", "drain", "finish", "fail"} \cup Live
    /\ task[o].pc # "idle" =>
          task[o].op = o /\ mem[o].state \in Late /\ "Approved" \in kinds(o)
    /\ task[o].pc = "start" => spawns[o] = 0
    /\ task[o].pc \in Live \cup {"spawned"} => transitions = o
    /\ task[o].pc = "spawned" => mem[o].state = "Starting"
    /\ task[o].pc \in {"wait", "drain", "finish"} => mem[o].state = "Running"
    /\ task[o].pc \in Live /\ task[o].kind = "Started" => mem[o].state = "Running"
    /\ task[o].pc \in {"drain", "finish"} => task[o].kind \in {"Exited", "Canceled", "TimedOut"}
    /\ child[o] = "alive" /\ task[o].pc # "idle" => Attended(o)

\* What holds of an operation: a record that is shown is the durable one, what is approved has all its
\* inputs, and a process nobody attends belongs to an operation that was interrupted.
OpOK(o) ==
    /\ mem[o] \in {NoRecord, disk[o]}
    /\ disk[o].state = "none" => disk[o] = NoRecord
    /\ disk[o].pending \subseteq Declared[o]
    /\ disk[o].state \in {"AwaitingApproval"} \cup Active => disk[o].pending = {}
    /\ disk[o].state \notin Late => spawns[o] = 0 /\ task[o].pc = "idle"
    /\ disk[o].state # "none" => Declared[o] \ disk[o].pending \subseteq dirs[o]
    /\ spawns[o] <= 1 /\ (spawns[o] = 1 => "Approved" \in kinds(o))
    /\ child[o] = "alive" /\ task[o].pc = "idle" =>
          \/ disk[o].state = "Interrupted"
          \/ daemon # "up" /\ disk[o].state \in Active

\* No two uploads claim the same input, and no two requests the same operation.
OwnInputs ==
    \A u, v \in Uploads : u # v /\ Owner(u) /\ Owner(v) /\ task[u].op = task[v].op
        => task[u].input # task[v].input

OwnInserts ==
    \A c, d \in Calls : c # d /\ task[c].pc = "insert" /\ task[d].pc = "insert"
        => task[c].op # task[d].op

\* A daemon that is not up has no tasks and shows no records.
DownInv == daemon # "up" => \A t \in Tasks : task[t].pc = "idle"
RestInv == daemon # "up" => \A o \in Ops : mem[o] = NoRecord

\* The inductive invariant.
IInv ==
    /\ TypeInv
    /\ \A c \in Calls : CallOK(c)
    /\ \A u \in Uploads : UploadOK(u)
    /\ \A o \in Ops : RunOK(o) /\ OpOK(o)
    /\ OwnInputs /\ OwnInserts /\ DownInv /\ RestInv

-----------------------------------------------------------------------------
\* What a step of task t may do to the rest.
TasksKept(t) == \A s \in Tasks : s # t => task'[s] = task[s]
LockKept(t) == transitions \notin {"free", t} => transitions' = transitions
AuditGrows == \A p \in Ops : kinds(p) \subseteq kinds(p)'
Yields(t, p, i) == t \in Uploads /\ Owner(t) /\ task[t].op = p /\ task[t].input = i
MemKept(t) ==
    \A p \in Ops :
        /\ mem[p].state # "none" => mem'[p].state # "none"
        /\ mem[p].state \in Late => mem'[p].state \in Late
        /\ mem[p].state = "Running" /\ p # t => mem'[p] = mem[p]
        /\ mem[p].state # "none" /\ transitions \notin {"free", t} => mem'[p] = mem[p]
        /\ \A i \in mem[p].pending : i \in mem'[p].pending \/ Yields(t, p, i)
InsertKept(t) ==
    \A p \in Ops : disk[p] = Created(p) /\ mem[p] = NoRecord =>
        \/ disk'[p] = disk[p] /\ mem'[p] = mem[p]
        \/ task[t].pc = "insert" /\ task[t].op = p
DirsKept(t) == \A p \in Ops : \A i \in dirs[p] : i \in dirs'[p] \/ Yields(t, p, i)
ProcessKept(t) ==
    \A p \in Ops : p # t => spawns'[p] = spawns[p] /\ (child'[p] = "alive" => child[p] = "alive")

Kept(t) ==
    /\ TasksKept(t) /\ LockKept(t) /\ AuditGrows /\ MemKept(t) /\ InsertKept(t)
    /\ DirsKept(t) /\ ProcessKept(t)

\* The three kinds of task are apart.
LEMMA TasksApart ==
    /\ \A c \in Calls : c \in Tasks /\ c \notin Ops /\ c \notin Uploads /\ c # "free"
    /\ \A u \in Uploads : u \in Tasks /\ u \notin Ops /\ u \notin Calls /\ u # "free"
    /\ \A o \in Ops : o \in Tasks /\ o \notin Calls /\ o \notin Uploads /\ o # "free"
  BY HostOperationsAssumption, Zenon DEF Tasks

\* Another call keeps what it relies on.
LEMMA OtherCall ==
    ASSUME IInv, NEW t \in Tasks, Kept(t), NEW c \in Calls, c # t,
           t \in Ops => task[t].pc # "idle"
    PROVE  CallOK(c)'
<1> DEFINE o == task[c].op
<1>1. CallOK(c) /\ c \in Tasks /\ c # "free" BY TasksApart, Zenon DEF IInv
<1>2. task'[c] = task[c] BY <1>1, Zenon DEF Kept, TasksKept
<1>3. task[c].pc = "idle" \/ o \in Ops BY <1>1, Zenon DEF CallOK
<1>4. ASSUME task[c].pc = "insert" PROVE disk'[o] = Created(o) /\ mem'[o] = NoRecord
  <2>1. disk[o] = Created(o) /\ mem[o] = NoRecord /\ o \in Ops BY <1>1, <1>3, <1>4, Zenon DEF CallOK
  <2>2. ~(task[t].pc = "insert" /\ task[t].op = o)
    <3>1. CASE t \in Calls BY <1>4, <3>1, Zenon DEF IInv, OwnInserts
    <3>2. CASE t \in Uploads BY <3>2, Zenon DEF IInv, UploadOK, Live
    <3>3. CASE t \in Ops BY <3>3, Zenon DEF IInv, RunOK, Live
    <3> QED BY <3>1, <3>2, <3>3, Zenon DEF Tasks
  <2> QED BY <2>1, <2>2, Zenon DEF Kept, InsertKept
<1>5. ASSUME task[c].pc \in Live, task[c].kind # "Requested" PROVE transitions' = c
  BY <1>1, <1>5, Zenon DEF Kept, LockKept, CallOK
<1>6. ASSUME task[c].pc \in Live, task[c].kind = "Approved"
      PROVE  mem'[o].state = "Starting" /\ spawns'[o] = 0 /\ task'[o].pc = "idle"
  <2>1. /\ mem[o].state = "Starting" /\ spawns[o] = 0 /\ task[o].pc = "idle" /\ o \in Ops
        /\ transitions = c
    BY <1>1, <1>3, <1>6, Zenon DEF CallOK, Live
  <2>2. o # t /\ o \in Tasks BY <2>1, TasksApart, Zenon
  <2>3. mem'[o] = mem[o] BY <1>1, <2>1, Zenon DEF Kept, MemKept
  <2>4. spawns'[o] = spawns[o] BY <2>1, <2>2, Zenon DEF Kept, ProcessKept
  <2>5. task'[o] = task[o] BY <2>2, Zenon DEF Kept, TasksKept
  <2> QED BY <2>1, <2>3, <2>4, <2>5, Zenon
<1>7. ASSUME task[c].pc = "audited", task[c].kind = "Approved" PROVE "Approved" \in kinds(o)'
  <2>1. o \in Ops /\ "Approved" \in kinds(o) BY <1>1, <1>3, <1>7, Zenon DEF CallOK
  <2>2. \A q \in Ops : q = o => kinds(q) \subseteq kinds(q)' BY Zenon DEF Kept, AuditGrows
  <2> QED BY <1>2, <2>1, <2>2, Zenon DEF kinds
<1> QED BY <1>1, <1>2, <1>4, <1>5, <1>6, <1>7, Zenon DEF CallOK, kinds

\* Another upload keeps its directory and its claim on the input.
LEMMA OtherUpload ==
    ASSUME IInv, NEW t \in Tasks, Kept(t), NEW u \in Uploads, u # t
    PROVE  UploadOK(u)' /\ Owner(u)' = Owner(u)
<1> DEFINE o == task[u].op
<1>1. UploadOK(u) /\ u \in Tasks /\ u # "free" BY TasksApart, Zenon DEF IInv
<1>2. task'[u] = task[u] BY <1>1, Zenon DEF Kept, TasksKept
<1>3. Owner(u)' = Owner(u) BY <1>2, Zenon DEF Owner
<1>4. ASSUME task[u].pc # "idle" PROVE o \in Ops /\ mem'[o].state # "none"
  BY <1>1, <1>4, Zenon DEF UploadOK, Kept, MemKept
<1>5. ASSUME task[u].pc \in Live PROVE transitions' = u
  BY <1>1, <1>5, Zenon DEF Kept, LockKept, UploadOK
<1>6. ASSUME Owner(u) PROVE task[u].input \in dirs'[o] /\ task[u].input \in mem'[o].pending
  <2>1. o \in Ops /\ task[u].input \in dirs[o] /\ task[u].input \in mem[o].pending
    BY <1>1, <1>6, Zenon DEF UploadOK, Owner, Live
  <2>2. ~Yields(t, o, task[u].input) BY <1>6, Zenon DEF IInv, OwnInputs, Yields
  <2> QED BY <2>1, <2>2, Zenon DEF Kept, MemKept, DirsKept
<1> QED BY <1>1, <1>2, <1>3, <1>4, <1>5, <1>6, Zenon DEF UploadOK

\* Another supervisor keeps its record and its process.
LEMMA OtherRun ==
    ASSUME IInv, NEW t \in Tasks, Kept(t), NEW o \in Ops, o # t
    PROVE  RunOK(o)'
<1>1. RunOK(o) /\ o \in Tasks /\ o # "free" BY TasksApart, Zenon DEF IInv
<1>2. task'[o] = task[o] BY <1>1, Zenon DEF Kept, TasksKept
<1>3. spawns'[o] = spawns[o] /\ (child'[o] = "alive" => child[o] = "alive") BY Zenon DEF Kept, ProcessKept
<1>4. kinds(o) \subseteq kinds(o)' BY Zenon DEF Kept, AuditGrows
<1>5. mem[o].state \in Late => mem'[o].state \in Late BY Zenon DEF Kept, MemKept
<1>6. mem[o].state = "Running" => mem'[o] = mem[o] BY Zenon DEF Kept, MemKept
<1>7. transitions = o => transitions' = o BY <1>1, Zenon DEF Kept, LockKept
<1>8. transitions = o /\ mem[o].state = "Starting" => mem'[o] = mem[o]
  BY <1>1, Zenon DEF Kept, MemKept
<1>9. Attended(o)' = Attended(o) BY <1>2, Zenon DEF Attended
<1> QED BY <1>1, <1>2, <1>3, <1>4, <1>5, <1>6, <1>7, <1>8, <1>9, Zenon DEF RunOK

-----------------------------------------------------------------------------
\* An operation whose record the step leaves alone.
LEMMA QuietOp ==
    ASSUME IInv, NEW t \in Tasks, Kept(t), NEW p \in Ops, daemon' = daemon,
           disk'[p] = disk[p], mem'[p] \in {mem[p], disk[p]}, spawns'[p] = spawns[p],
           child'[p] = "alive" => child[p] = "alive",
           disk[p].state \notin Late => task'[p].pc = "idle",
           child'[p] = "alive" /\ task'[p].pc = "idle" => task[p].pc = "idle"
    PROVE  OpOK(p)'
<1>1. OpOK(p) /\ disk[p] \in Records BY Zenon DEF IInv, TypeInv
<1>2. kinds(p) \subseteq kinds(p)' BY Zenon DEF Kept, AuditGrows
<1>3. ASSUME disk[p].state # "none" PROVE Declared[p] \ disk[p].pending \subseteq dirs'[p]
  <2>1. \A i \in dirs[p] : i \in dirs'[p] \/ Yields(t, p, i) BY Zenon DEF Kept, DirsKept
  <2>2. ASSUME NEW i, Yields(t, p, i) PROVE i \in disk[p].pending
    <3>1. i \in mem[p].pending BY <2>2, Zenon DEF IInv, UploadOK, Yields
    <3>2. mem[p] # NoRecord BY <3>1 DEF NoRecord
    <3> QED BY <1>1, <3>1, <3>2, Zenon DEF OpOK
  <2> QED BY <1>1, <1>3, <2>1, <2>2, Zenon DEF OpOK
<1>4. mem'[p] \in {NoRecord, disk[p]} BY <1>1, Zenon DEF OpOK
<1> QED BY <1>1, <1>2, <1>3, <1>4, Zenon DEF OpOK

\* What the task that steps must show of itself.
OwnsAlone(t) ==
    t \in Uploads /\ Owner(t)' =>
        \A v \in Uploads : v # t /\ Owner(v) /\ task[v].op = task'[t].op
            => task[v].input # task'[t].input
InsertsAlone(t) ==
    t \in Calls /\ task'[t].pc = "insert" =>
        \A d \in Calls : d # t /\ task[d].pc = "insert" => task[d].op # task'[t].op

OwnOK(t) ==
    /\ t \in Calls => CallOK(t)'
    /\ t \in Uploads => UploadOK(t)'
    /\ t \in Ops => RunOK(t)'

\* A step of one task keeps the invariant if it keeps what the others rely on.
LEMMA TaskStep ==
    ASSUME IInv, NEW t \in Tasks, Kept(t), TypeInv', daemon = "up", daemon' = daemon,
           t \in Ops => task[t].pc # "idle", OwnOK(t), OwnsAlone(t), InsertsAlone(t),
           \A p \in Ops : OpOK(p)'
    PROVE  IInv'
<1>1. \A c \in Calls : CallOK(c)' BY OtherCall, Zenon DEF OwnOK
<1>2. \A u \in Uploads : UploadOK(u)' BY OtherUpload, Zenon DEF OwnOK
<1>3. \A o \in Ops : RunOK(o)' BY OtherRun, Zenon DEF OwnOK
<1>4. OwnInputs'
  <2>1. \A s \in Uploads : s # t => (Owner(s)' = Owner(s)) /\ task'[s] = task[s]
    BY OtherUpload, TasksApart, Zenon DEF Kept, TasksKept
  <2> QED BY <2>1 DEF OwnInputs, IInv, OwnsAlone
<1>5. OwnInserts'
  <2>1. \A s \in Calls : s # t => task'[s] = task[s] BY TasksApart, Zenon DEF Kept, TasksKept
  <2> QED BY <2>1 DEF OwnInserts, IInv, InsertsAlone
<1>6. DownInv' /\ RestInv' BY Zenon DEF DownInv, RestInv
<1> QED BY <1>1, <1>2, <1>3, <1>4, <1>5, <1>6, Zenon DEF IInv

\* A task that is not idle runs in a daemon that is up.
LEMMA BusyIsUp == ASSUME IInv, NEW t \in Tasks, task[t].pc # "idle" PROVE daemon = "up"
  BY Zenon DEF IInv, DownInv

-----------------------------------------------------------------------------
\* The idle task, and what the ways to move a task do to its fields.
LEMMA IdleIs ==
    /\ Idle \in TaskRecord
    /\ Idle.pc = "idle" /\ Idle.op = "free" /\ Idle.kind = "none"
  BY Zenon DEF Idle, TaskRecord, Pcs, AuditKinds

\* Task t moves to pc with an audit entry of that kind to write, and keeps the rest.
Moves(t, pc, kind) ==
    /\ TasksKept(t)
    /\ task'[t].pc = pc /\ task'[t].kind = kind
    /\ task'[t].op = task[t].op /\ task'[t].input = task[t].input

LEMMA GotoMoves ==
    ASSUME TypeInv, NEW t \in Tasks, NEW pc \in Pcs, Goto(t, pc)
    PROVE  Moves(t, pc, task[t].kind) /\ task' \in [Tasks -> TaskRecord]
<1>1. task[t] \in TaskRecord BY Zenon DEF TypeInv
<1>2. [task[t] EXCEPT !.pc = pc] \in TaskRecord BY <1>1, Zenon DEF TaskRecord
<1>3. task' = [task EXCEPT ![t] = [task[t] EXCEPT !.pc = pc]] BY Zenon DEF Goto
<1>4. task'[t] = [task[t] EXCEPT !.pc = pc] /\ TasksKept(t) BY <1>3, Zenon DEF TypeInv, TasksKept
<1>5. task' \in [Tasks -> TaskRecord] BY <1>2, <1>3, Zenon DEF TypeInv
<1>6. /\ task'[t].pc = pc /\ task'[t].kind = task[t].kind
      /\ task'[t].op = task[t].op /\ task'[t].input = task[t].input
  BY <1>1, <1>4, Zenon DEF TaskRecord
<1> QED BY <1>4, <1>5, <1>6, Zenon DEF Moves

\* Both the place and the kind of entry.
LEMMA MoveKind ==
    ASSUME TypeInv, NEW t \in Tasks, NEW pc \in Pcs, NEW kind \in AuditKinds,
           task' = [task EXCEPT ![t].pc = pc, ![t].kind = kind]
    PROVE  Moves(t, pc, kind) /\ task' \in [Tasks -> TaskRecord]
<1>1. task[t] \in TaskRecord BY Zenon DEF TypeInv
<1> DEFINE r == [[task[t] EXCEPT !.pc = pc] EXCEPT !.kind = kind]
<1>2. r \in TaskRecord BY <1>1, Zenon DEF TaskRecord
<1>3. task' = [task EXCEPT ![t] = r]  BY Zenon DEF TypeInv
<1>4. r.pc = pc /\ r.kind = kind /\ r.op = task[t].op /\ r.input = task[t].input
  BY <1>1, Zenon DEF TaskRecord
<1> HIDE DEF r
<1>5. task'[t] = r /\ TasksKept(t) BY <1>3, Zenon DEF TypeInv, TasksKept
<1>6. task' \in [Tasks -> TaskRecord] BY <1>2, <1>3, Zenon DEF TypeInv
<1> QED BY <1>4, <1>5, <1>6, Zenon DEF Moves

\* append_audit begins.
LEMMA LogMoves ==
    ASSUME TypeInv, NEW t \in Tasks, NEW kind \in Kinds, Log(t, kind)
    PROVE  Moves(t, "auditing", kind) /\ task' \in [Tasks -> TaskRecord]
<1>1. "auditing" \in Pcs /\ kind \in AuditKinds BY Zenon DEF Pcs, AuditKinds
<1> QED BY <1>1, MoveKind, Zenon DEF Log

\* The task ends.
LEMMA ReturnEnds ==
    ASSUME TypeInv, NEW t \in Tasks, Return(t)
    PROVE  TasksKept(t) /\ task'[t] = Idle /\ task' \in [Tasks -> TaskRecord]
  BY IdleIs, Zenon DEF Return, TypeInv, TasksKept

\* A call or an upload begins.
LEMMA Begins ==
    ASSUME TypeInv, NEW t \in Tasks, NEW r \in TaskRecord, task' = [task EXCEPT ![t] = r]
    PROVE  TasksKept(t) /\ task'[t] = r /\ task' \in [Tasks -> TaskRecord]
  BY Zenon DEF TypeInv, TasksKept

\* A control-plane call changed a record and begins to audit it.
LEMMA LogCallBegins ==
    ASSUME TypeInv, NEW c \in Tasks, NEW o \in Ops, NEW kind \in Kinds, LogCall(c, o, kind)
    PROVE  /\ TasksKept(c) /\ task' \in [Tasks -> TaskRecord]
           /\ task'[c].pc = "auditing" /\ task'[c].op = o /\ task'[c].kind = kind
<1> DEFINE r == [Idle EXCEPT !.pc = "auditing", !.op = o, !.kind = kind]
<1>1. "auditing" \in Pcs /\ kind \in AuditKinds BY Zenon DEF Pcs, AuditKinds
<1>2. r \in TaskRecord BY <1>1, IdleIs, Zenon DEF TaskRecord
<1>3. r.pc = "auditing" /\ r.op = o /\ r.kind = kind BY IdleIs, Zenon DEF TaskRecord
<1>4. task' = [task EXCEPT ![c] = r] BY Zenon DEF LogCall
<1> HIDE DEF r
<1> QED BY <1>2, <1>3, <1>4, Begins, Zenon

\* write_record and the map entry.
LEMMA StoreIs ==
    ASSUME TypeInv, NEW o \in Ops, NEW r \in Records, Store(o, r)
    PROVE  /\ disk'[o] = r /\ mem'[o] = r
           /\ \A p \in Ops : p # o => disk'[p] = disk[p] /\ mem'[p] = mem[p]
           /\ disk' \in [Ops -> Records] /\ mem' \in [Ops -> Records]
  BY Zenon DEF TypeInv, Store

\* A record in another state.
LEMMA AtIs ==
    ASSUME NEW r \in Records, NEW s \in States
    PROVE  At(r, s) \in Records /\ At(r, s).state = s /\ At(r, s).pending = r.pending
  BY Zenon DEF At, Records

\* What a step leaves alone it keeps.
LEMMA SameStore ==
    ASSUME NEW t \in Tasks, UNCHANGED store PROVE MemKept(t) /\ InsertKept(t)
  BY Zenon DEF store, MemKept, InsertKept
LEMMA SameDirs == ASSUME NEW t \in Tasks, UNCHANGED dirs PROVE DirsKept(t)
  BY Zenon DEF DirsKept
LEMMA SameProcess == ASSUME NEW t \in Tasks, UNCHANGED process PROVE ProcessKept(t)
  BY Zenon DEF process, ProcessKept
LEMMA SameAudit == ASSUME UNCHANGED audit PROVE AuditGrows /\ \A p \in Ops : kinds(p)' = kinds(p)
  BY Zenon DEF kinds, AuditGrows

\* An entry joins the kinds of its operation; none is lost.
LEMMA AppendGrows ==
    ASSUME TypeInv, NEW o \in Ops, NEW e \in Entry,
           audit' = [audit EXCEPT ![o] = Append(@, e)]
    PROVE  AuditGrows /\ e.kind \in kinds(o)' /\ audit' \in [Ops -> Seq(Entry)]
<1>1. \A p \in Ops : audit[p] \in Seq(Entry) BY Zenon DEF TypeInv
<1>2. /\ audit'[o] = Append(audit[o], e)
      /\ \A p \in Ops : p # o => audit'[p] = audit[p]
  BY Zenon DEF TypeInv
<1>3. /\ Len(audit'[o]) = Len(audit[o]) + 1 /\ Len(audit[o]) \in Nat
      /\ \A i \in 1 .. Len(audit[o]) : audit'[o][i] = audit[o][i]
      /\ audit'[o][Len(audit[o]) + 1] = e
  BY <1>1, <1>2
<1>4. audit' \in [Ops -> Seq(Entry)] BY <1>1 DEF TypeInv
<1>5. kinds(o) \subseteq kinds(o)'
  <2>1. ASSUME NEW i \in 1 .. Len(audit[o]) PROVE audit[o][i].kind \in kinds(o)'
    <3>1. i \in 1 .. Len(audit'[o]) BY <1>3
    <3> QED BY <1>3, <3>1, Zenon DEF kinds
  <2> QED BY <2>1, Zenon DEF kinds
<1>6. e.kind \in kinds(o)'
  <2>1. Len(audit[o]) + 1 \in 1 .. Len(audit'[o]) BY <1>3
  <2> QED BY <1>3, <2>1, Zenon DEF kinds
<1>7. \A p \in Ops : p # o => kinds(p)' = kinds(p) BY <1>2, Zenon DEF kinds
<1> QED BY <1>4, <1>5, <1>6, <1>7, Zenon DEF AuditGrows

\* A record that is shown is the durable one.
LEMMA ShownRecord ==
    ASSUME IInv, NEW o \in Ops, mem[o].state # "none"
    PROVE  /\ mem[o] = disk[o] /\ mem[o] \in Records
           /\ mem[o].pending \subseteq Declared[o]
           /\ mem[o].state \in {"AwaitingApproval"} \cup Active => mem[o].pending = {}
           /\ mem[o].state \notin Late => spawns[o] = 0 /\ task[o].pc = "idle"
           /\ Declared[o] \ mem[o].pending \subseteq dirs[o]
           /\ child[o] = "alive" /\ task[o].pc = "idle" /\ daemon = "up" => mem[o].state = "Interrupted"
<1>1. mem[o] # NoRecord BY DEF NoRecord
<1>2. OpOK(o) /\ mem[o] \in Records BY Zenon DEF IInv, TypeInv
<1>3. mem[o] = disk[o] BY <1>1, <1>2, Zenon DEF OpOK
<1> QED BY <1>2, <1>3 DEF OpOK

\* A record that is shown is replaced, by a task that may.
LEMMA StoreKept ==
    ASSUME IInv, NEW t \in Tasks, NEW o \in Ops, NEW r \in Records, Store(o, r),
           mem[o].state # "none", r.state # "none",
           mem[o].state \in Late => r.state \in Late,
           mem[o].state = "Running" => o = t,
           transitions \in {"free", t},
           \A i \in mem[o].pending : i \in r.pending \/ Yields(t, o, i)
    PROVE  MemKept(t) /\ InsertKept(t)
<1>1. /\ disk'[o] = r /\ mem'[o] = r
      /\ \A p \in Ops : p # o => disk'[p] = disk[p] /\ mem'[p] = mem[p]
  BY StoreIs, Zenon DEF IInv
<1>2. MemKept(t) BY <1>1, Zenon DEF MemKept
<1>3. mem[o] # NoRecord BY DEF NoRecord
<1> QED BY <1>1, <1>2, <1>3, Zenon DEF InsertKept

\* The operation whose record is replaced.
LEMMA StoredOp ==
    ASSUME IInv, NEW t \in Tasks, Kept(t), NEW o \in Ops, NEW r \in Records, Store(o, r),
           r.state # "none", r.pending \subseteq Declared[o],
           r.state \in {"AwaitingApproval"} \cup Active => r.pending = {},
           r.state \notin Late => spawns[o] = 0 /\ task'[o].pc = "idle",
           Declared[o] \ r.pending \subseteq dirs'[o],
           spawns'[o] = spawns[o],
           child'[o] = "alive" => task'[o].pc # "idle"
    PROVE  OpOK(o)'
<1>1. disk'[o] = r /\ mem'[o] = r BY StoreIs, Zenon DEF IInv
<1>2. OpOK(o) /\ kinds(o) \subseteq kinds(o)' BY Zenon DEF IInv, Kept, AuditGrows
<1> QED BY <1>1, <1>2, Zenon DEF OpOK

\* The operations that a step is not about.
LEMMA OtherOps ==
    ASSUME IInv, NEW t \in Tasks, Kept(t), daemon' = daemon, NEW o \in Ops,
           \A p \in Ops : p # o => disk'[p] = disk[p] /\ mem'[p] = mem[p],
           t \in Ops => t = o,
           OpOK(o)'
    PROVE  \A p \in Ops : OpOK(p)'
<1>1. ASSUME NEW p \in Ops, p # o PROVE OpOK(p)'
  <2>1. p # t /\ p \in Tasks BY <1>1, TasksApart, Zenon
  <2>2. task'[p] = task[p] /\ spawns'[p] = spawns[p] /\ (child'[p] = "alive" => child[p] = "alive")
    BY <2>1, Zenon DEF Kept, TasksKept, ProcessKept
  <2>3. disk[p].state \notin Late => task[p].pc = "idle" BY Zenon DEF IInv, OpOK
  <2> QED BY <1>1, <2>2, <2>3, QuietOp, Zenon
<1> QED BY <1>1, Zenon

\* A step of a call or an upload that leaves every record alone.
LEMMA QuietOps ==
    ASSUME IInv, NEW t \in Tasks, t \notin Ops, Kept(t), daemon' = daemon, UNCHANGED store
    PROVE  \A p \in Ops : OpOK(p)'
<1>1. ASSUME NEW p \in Ops PROVE OpOK(p)'
  <2>1. p # t /\ p \in Tasks BY TasksApart, Zenon
  <2>2. task'[p] = task[p] /\ spawns'[p] = spawns[p] /\ (child'[p] = "alive" => child[p] = "alive")
    BY <2>1, Zenon DEF Kept, TasksKept, ProcessKept
  <2>3. disk[p].state \notin Late => task[p].pc = "idle" BY Zenon DEF IInv, OpOK
  <2> QED BY <2>2, <2>3, QuietOp, Zenon DEF store
<1> QED BY <1>1, Zenon

\* A step of a supervisor that leaves every record alone.
LEMMA QuietRun ==
    ASSUME IInv, NEW o \in Ops, Kept(o), daemon' = daemon, UNCHANGED store,
           task[o].pc # "idle", spawns'[o] = spawns[o],
           child'[o] = "alive" => child[o] = "alive" /\ task'[o].pc # "idle"
    PROVE  \A p \in Ops : OpOK(p)'
<1>1. o \in Tasks BY TasksApart, Zenon
<1>2. mem[o].state \in Late BY Zenon DEF IInv, RunOK
<1>3. disk[o].state \in Late BY <1>2, ShownRecord, Zenon DEF Late, Active, Terminal
<1>4. OpOK(o)' BY <1>1, <1>3, QuietOp, Zenon DEF store
<1> QED BY <1>1, <1>4, OtherOps, Zenon DEF store

-----------------------------------------------------------------------------
(* Control-plane calls.                                                    *)

\* request writes the record of a fresh operation.
LEMMA RequestStep == ASSUME IInv, NEW c \in Calls, NEW o \in Ops, Request(c, o) PROVE IInv'
<1> DEFINE r == [Idle EXCEPT !.pc = "insert", !.op = o]
<1>1. c \in Tasks /\ c \notin Ops /\ c \notin Uploads /\ TypeInv BY TasksApart, Zenon DEF IInv
<1>2. "insert" \in Pcs BY Zenon DEF Pcs
<1>3. r \in TaskRecord /\ r.pc = "insert" /\ r.op = o BY <1>2, IdleIs, Zenon DEF TaskRecord
<1>4. task' = [task EXCEPT ![c] = r] BY Zenon DEF Request
<1> HIDE DEF r
<1>5. TasksKept(c) /\ task'[c] = r /\ task' \in [Tasks -> TaskRecord]
  BY <1>1, <1>3, <1>4, Begins, Zenon
<1>6. /\ Created(o) \in Records /\ Created(o).state \in {"AwaitingApproval", "Preparing"}
      /\ Created(o).pending = Declared[o]
      /\ Created(o).state = "AwaitingApproval" => Declared[o] = {}
  BY HostOperationsAssumption, Zenon DEF Created, Records, States
<1>7. daemon = "up" /\ disk[o] = NoRecord /\ disk' = [disk EXCEPT ![o] = Created(o)]
  BY Zenon DEF Request, Ready
<1>8. /\ disk'[o] = Created(o) /\ disk' \in [Ops -> Records]
      /\ \A p \in Ops : p # o => disk'[p] = disk[p]
  BY <1>1, <1>6, <1>7, Zenon DEF TypeInv
<1>9. NoRecord.state = "none" BY Zenon DEF NoRecord
<1>10. mem[o] = NoRecord BY <1>7, Zenon DEF IInv, OpOK
<1>11. Kept(c)
  <2>1. LockKept(c) /\ MemKept(c) BY Zenon DEF Request, LockKept, MemKept
  <2>2. InsertKept(c) BY <1>6, <1>7, <1>8, <1>9, Zenon DEF Request, InsertKept
  <2>3. DirsKept(c) /\ ProcessKept(c) /\ AuditGrows
    BY <1>1, SameDirs, SameProcess, SameAudit, Zenon DEF Request
  <2> QED BY <1>5, <2>1, <2>2, <2>3, Zenon DEF Kept
<1>12. TypeInv' BY <1>1, <1>5, <1>8, Zenon DEF Request, process, TypeInv
<1>13. OwnOK(c)
  <2>1. CallOK(c)' BY <1>3, <1>5, <1>8, <1>10, Zenon DEF CallOK, Request, Live, Created
  <2> QED BY <1>1, <2>1, Zenon DEF OwnOK
<1>14. InsertsAlone(c)
  <2>1. \A d \in Calls : task[d].pc = "insert" => disk[task[d].op] = Created(task[d].op)
    BY Zenon DEF IInv, CallOK
  <2> QED BY <1>3, <1>5, <1>6, <1>7, <1>9, <2>1, Zenon DEF InsertsAlone
<1>15. OpOK(o)'
  <2>1. OpOK(o) BY Zenon DEF IInv
  <2>2. disk[o].state \notin Late BY <1>7, <1>9, Zenon DEF Late, Active, Terminal
  <2>3. spawns[o] = 0 /\ task[o].pc = "idle" BY <2>1, <2>2, Zenon DEF OpOK
  <2>4. /\ task'[o] = task[o] /\ spawns'[o] = spawns[o] /\ child'[o] = child[o]
        /\ mem'[o] = mem[o] /\ daemon' = daemon /\ dirs' = dirs
    BY <1>1, <1>5, TasksApart, Zenon DEF Request, TasksKept, process
  <2>5. child[o] # "alive" BY <1>7, <1>9, <2>1, <2>3, Zenon DEF OpOK
  <2>6. /\ mem'[o] = NoRecord /\ spawns'[o] = 0 /\ task'[o].pc = "idle" /\ child'[o] # "alive"
        /\ disk'[o].state \in {"AwaitingApproval", "Preparing"} /\ disk'[o].pending = Declared[o]
        /\ disk'[o].state = "AwaitingApproval" => Declared[o] = {}
    BY <1>6, <1>8, <1>10, <2>3, <2>4, <2>5, Zenon
  <2>7. disk'[o].state \notin Active /\ disk'[o].state # "none" BY <2>6, Zenon DEF Active
  <2>8. disk'[o].state \in {"AwaitingApproval"} \cup Active => disk'[o].pending = {}
    BY <2>6, <2>7, Zenon
  <2> QED BY <2>6, <2>7, <2>8 DEF OpOK
<1>16. \A p \in Ops : OpOK(p)' BY <1>1, <1>8, <1>11, <1>15, OtherOps, Zenon DEF Request
<1>17. OwnsAlone(c) BY <1>1, Zenon DEF OwnsAlone
<1> QED BY <1>1, <1>7, <1>11, <1>12, <1>13, <1>14, <1>16, <1>17, TaskStep, Zenon DEF Request

\* request shows the record.
LEMMA RequestInsertStep == ASSUME IInv, NEW c \in Calls, RequestInsert(c) PROVE IInv'
<1>1. c \in Tasks /\ c \notin Ops /\ c \notin Uploads /\ TypeInv BY TasksApart, Zenon DEF IInv
<1>2. task[c].pc = "insert" BY Zenon DEF RequestInsert
<1>3. PICK o \in Ops : o = task[c].op /\ disk[o] = Created(o) /\ mem[o] = NoRecord
  BY <1>2, Zenon DEF IInv, CallOK
<1>4. mem' = [mem EXCEPT ![o] = Created(o)] /\ Log(c, "Requested") BY <1>3, Zenon DEF RequestInsert
<1>5. Moves(c, "auditing", "Requested") /\ task' \in [Tasks -> TaskRecord]
  BY <1>1, <1>4, LogMoves, Zenon DEF Kinds
<1>6. /\ mem'[o] = disk[o] /\ mem' \in [Ops -> Records]
      /\ \A p \in Ops : p # o => mem'[p] = mem[p]
  BY <1>1, <1>3, <1>4, Zenon DEF TypeInv
<1>7. daemon = "up" BY <1>1, <1>2, BusyIsUp, Zenon
<1>8. NoRecord.state = "none" /\ NoRecord.pending = {} BY Zenon DEF NoRecord
<1>9. disk' = disk BY Zenon DEF RequestInsert
<1>10. Kept(c)
  <2>1. LockKept(c) BY Zenon DEF RequestInsert, LockKept
  <2>2. MemKept(c) BY <1>3, <1>6, <1>8, Zenon DEF MemKept, Late, Active, Terminal
  <2>3. InsertKept(c) BY <1>2, <1>3, <1>6, <1>9, Zenon DEF InsertKept
  <2>4. DirsKept(c) /\ ProcessKept(c) /\ AuditGrows
    BY <1>1, SameDirs, SameProcess, SameAudit, Zenon DEF RequestInsert
  <2> QED BY <1>5, <2>1, <2>2, <2>3, <2>4, Zenon DEF Kept, Moves
<1>11. TypeInv' BY <1>1, <1>5, <1>6, Zenon DEF RequestInsert, process, TypeInv
<1>12. OwnOK(c)
  <2>1. CallOK(c)' BY <1>3, <1>5, Zenon DEF CallOK, Moves, Live
  <2> QED BY <1>1, <2>1, Zenon DEF OwnOK
<1>13. InsertsAlone(c) /\ OwnsAlone(c) BY <1>1, <1>5, Zenon DEF InsertsAlone, OwnsAlone, Moves
<1>14. OpOK(o)'
  <2>1. /\ task'[o] = task[o] /\ spawns'[o] = spawns[o] /\ child'[o] = child[o] /\ daemon' = daemon
    BY <1>1, <1>3, <1>5, TasksApart, Zenon DEF RequestInsert, Moves, TasksKept, process
  <2>2. disk[o].state \notin Late => task[o].pc = "idle" BY <1>3, Zenon DEF IInv, OpOK
  <2> QED BY <1>1, <1>3, <1>6, <1>9, <1>10, <2>1, <2>2, QuietOp, Zenon
<1>15. \A p \in Ops : OpOK(p)'
  BY <1>1, <1>3, <1>6, <1>9, <1>10, <1>14, OtherOps, Zenon DEF RequestInsert
<1> QED BY <1>1, <1>7, <1>10, <1>11, <1>12, <1>13, <1>15, TaskStep, Zenon DEF RequestInsert

\* A call that takes the lock, replaces the record of o and begins to audit it.
LEMMA CallStores ==
    ASSUME IInv, NEW c \in Calls, NEW o \in Ops, NEW r \in Records, NEW kind \in Kinds,
           daemon = "up", transitions = "free", transitions' = c,
           mem[o].state # "none", mem[o].state # "Running", r.state # "none",
           mem[o].state \in Late => r.state \in Late,
           r.state \in {"AwaitingApproval"} \cup Active => r.pending = {},
           r.state \notin Late => mem[o].state \notin Late,
           r.pending = mem[o].pending,
           mem[o].state # "Interrupted",
           kind = "Approved" => mem[o].state \notin Late /\ r.state = "Starting",
           Store(o, r), LogCall(c, o, kind),
           UNCHANGED <<daemon, audit, dirs, process, recovering>>
    PROVE  IInv'
<1>1. c \in Tasks /\ c \notin Ops /\ c \notin Uploads /\ TypeInv BY TasksApart, Zenon DEF IInv
<1>2. /\ TasksKept(c) /\ task' \in [Tasks -> TaskRecord]
      /\ task'[c].pc = "auditing" /\ task'[c].op = o /\ task'[c].kind = kind
  BY <1>1, LogCallBegins, Zenon
<1>3. /\ disk'[o] = r /\ mem'[o] = r /\ disk' \in [Ops -> Records] /\ mem' \in [Ops -> Records]
      /\ \A p \in Ops : p # o => disk'[p] = disk[p] /\ mem'[p] = mem[p]
  BY <1>1, StoreIs, Zenon
<1>4. Kept(c)
  <2>1. MemKept(c) /\ InsertKept(c) BY <1>1, StoreKept, Zenon
  <2>2. LockKept(c) BY Zenon DEF LockKept
  <2>3. DirsKept(c) /\ ProcessKept(c) /\ AuditGrows BY <1>1, SameDirs, SameProcess, SameAudit, Zenon
  <2> QED BY <1>2, <2>1, <2>2, <2>3, Zenon DEF Kept
<1>5. TypeInv' BY <1>1, <1>2, <1>3, Zenon DEF process, TypeInv
<1>6. /\ task'[o] = task[o] /\ spawns'[o] = spawns[o] /\ child'[o] = child[o]
  BY <1>1, <1>2, TasksApart, Zenon DEF TasksKept, process
<1>7. OwnOK(c)
  <2>1. kind = "Approved" => spawns[o] = 0 /\ task[o].pc = "idle" BY ShownRecord, Zenon
  <2>2. CallOK(c)' BY <1>2, <1>3, <1>6, <2>1, Zenon DEF CallOK, Live
  <2> QED BY <1>1, <2>2, Zenon DEF OwnOK
<1>8. InsertsAlone(c) /\ OwnsAlone(c) BY <1>1, <1>2, Zenon DEF InsertsAlone, OwnsAlone
<1>9. OpOK(o)'
  <2>1. r.state \notin Late => spawns[o] = 0 /\ task'[o].pc = "idle" BY <1>6, ShownRecord, Zenon
  <2>2. Declared[o] \ r.pending \subseteq dirs'[o] /\ r.pending \subseteq Declared[o] BY ShownRecord, Zenon
  <2>3. child'[o] = "alive" => task'[o].pc # "idle" BY <1>6, ShownRecord, Zenon
  <2> QED BY <1>1, <1>4, <1>6, <2>1, <2>2, <2>3, StoredOp, Zenon
<1>10. \A p \in Ops : OpOK(p)' BY <1>1, <1>3, <1>4, <1>9, OtherOps, Zenon
<1> QED BY <1>1, <1>4, <1>5, <1>7, <1>8, <1>10, TaskStep, Zenon

\* resolve: postpone, reject or approve.
LEMMA ResolveStep ==
    ASSUME IInv, NEW c \in Calls, NEW o \in Ops,
           NEW kind \in {"Postponed", "Rejected", "Approved"}, Resolve(c, o, kind)
    PROVE  IInv'
<1>1. /\ daemon = "up" /\ transitions = "free" /\ mem[o].state = "AwaitingApproval"
      /\ Store(o, Decided(mem[o], kind)) /\ transitions' = c /\ LogCall(c, o, kind)
      /\ UNCHANGED <<daemon, audit, dirs, process, recovering>>
  BY Zenon DEF Resolve, Ready
<1>2. kind \in Kinds BY Zenon DEF Kinds
<1>3. mem[o] \in Records /\ mem[o].pending = {} BY <1>1, ShownRecord, Zenon
<1>4. "Rejected" \in States /\ "Starting" \in States BY Zenon DEF States, Active, Terminal
<1>5. CASE kind = "Postponed"
  <2> DEFINE r == [mem[o] EXCEPT !.postponed = TRUE]
  <2>1. Decided(mem[o], kind) = r BY <1>5, Zenon DEF Decided
  <2>2. r \in Records /\ r.state = "AwaitingApproval" /\ r.pending = mem[o].pending
    BY <1>1, <1>3, Zenon DEF Records
  <2> HIDE DEF r
  <2> QED BY <1>1, <1>2, <1>3, <1>5, <2>1, <2>2, CallStores, Zenon DEF Late, Active, Terminal
<1>6. CASE kind = "Rejected"
  <2> DEFINE r == At(mem[o], "Rejected")
  <2>1. Decided(mem[o], kind) = r BY <1>6, Zenon DEF Decided
  <2>2. r \in Records /\ r.state = "Rejected" /\ r.pending = mem[o].pending BY <1>3, <1>4, AtIs, Zenon
  <2> HIDE DEF r
  <2> QED BY <1>1, <1>2, <1>3, <1>6, <2>1, <2>2, CallStores, Zenon DEF Late, Active, Terminal
<1>7. CASE kind = "Approved"
  <2> DEFINE r == At(mem[o], "Starting")
  <2>1. Decided(mem[o], kind) = r BY <1>7, Zenon DEF Decided
  <2>2. r \in Records /\ r.state = "Starting" /\ r.pending = mem[o].pending BY <1>3, <1>4, AtIs, Zenon
  <2> HIDE DEF r
  <2> QED BY <1>1, <1>2, <1>3, <1>7, <2>1, <2>2, CallStores, Zenon DEF Late, Active, Terminal
<1> QED BY <1>5, <1>6, <1>7, Zenon

\* cancel signals a supervised process and withdraws anything not started.
LEMMA CancelStep == ASSUME IInv, NEW c \in Calls, NEW o \in Ops, Cancel(c, o) PROVE IInv'
<1>1. /\ daemon = "up" /\ transitions = "free" /\ transitions' = c
      /\ UNCHANGED <<daemon, audit, dirs, process, recovering>>
  BY Zenon DEF Cancel, Ready
<1>2. c \in Tasks /\ c \notin Ops /\ c \notin Uploads /\ TypeInv BY TasksApart, Zenon DEF IInv
<1>3. "CancelRequested" \in Kinds /\ "Canceled" \in Kinds BY Zenon DEF Kinds
<1>4. CASE LogCall(c, o, "CancelRequested") /\ UNCHANGED store
  <2>1. /\ TasksKept(c) /\ task' \in [Tasks -> TaskRecord]
        /\ task'[c].pc = "auditing" /\ task'[c].op = o /\ task'[c].kind = "CancelRequested"
    BY <1>2, <1>3, <1>4, LogCallBegins, Zenon
  <2>2. Kept(c)
    <3>1. LockKept(c) BY <1>1, Zenon DEF LockKept
    <3>2. MemKept(c) /\ InsertKept(c) /\ DirsKept(c) /\ ProcessKept(c) /\ AuditGrows
      BY <1>1, <1>2, <1>4, SameStore, SameDirs, SameProcess, SameAudit, Zenon
    <3> QED BY <2>1, <3>1, <3>2, Zenon DEF Kept
  <2>3. TypeInv' BY <1>1, <1>2, <1>4, <2>1, Zenon DEF process, store, TypeInv
  <2>4. CallOK(c)' BY <1>1, <2>1, Zenon DEF CallOK, Live
  <2>5. OwnOK(c) /\ InsertsAlone(c) /\ OwnsAlone(c)
    BY <1>2, <2>1, <2>4, Zenon DEF OwnOK, InsertsAlone, OwnsAlone
  <2>6. \A p \in Ops : OpOK(p)' BY <1>1, <1>2, <1>4, <2>2, QuietOps, Zenon
  <2> QED BY <1>1, <1>2, <2>2, <2>3, <2>5, <2>6, TaskStep, Zenon
<1>5. CASE /\ mem[o].state \in {"Preparing", "AwaitingApproval", "Starting"}
           /\ Store(o, At(mem[o], "Canceled")) /\ LogCall(c, o, "Canceled")
  <2> DEFINE r == At(mem[o], "Canceled")
  <2>1. mem[o] \in Records BY <1>2, Zenon DEF TypeInv
  <2>2. "Canceled" \in States BY Zenon DEF States, Terminal
  <2>3. r \in Records /\ r.state = "Canceled" /\ r.pending = mem[o].pending BY <2>1, <2>2, AtIs, Zenon
  <2> HIDE DEF r
  <2>4. Store(o, r) BY <1>5, Zenon DEF r
  <2> QED BY <1>1, <1>3, <1>5, <2>3, <2>4, CallStores, Zenon DEF Late, Active, Terminal
<1> QED BY <1>4, <1>5, Zenon DEF Cancel

\* A step of a call that only changes its own task, and may free its lock.
LEMMA CallQuiet ==
    ASSUME IInv, NEW c \in Calls, task[c].pc # "idle", TasksKept(c), task'[c] \in TaskRecord,
           task' \in [Tasks -> TaskRecord],
           task'[c].pc = "idle" \/ (task'[c].pc = "detached" /\ task'[c].op = task[c].op),
           transitions' = Release(transitions, c),
           UNCHANGED <<daemon, store, audit, dirs, process, recovering>>
    PROVE  IInv'
<1>1. c \in Tasks /\ c \notin Ops /\ c \notin Uploads /\ TypeInv BY TasksApart, Zenon DEF IInv
<1>2. Kept(c)
  <2>1. LockKept(c) BY Zenon DEF LockKept, Release
  <2>2. MemKept(c) /\ InsertKept(c) /\ DirsKept(c) /\ ProcessKept(c) /\ AuditGrows
    BY <1>1, SameStore, SameDirs, SameProcess, SameAudit, Zenon
  <2> QED BY <2>1, <2>2, Zenon DEF Kept
<1>3. TypeInv' BY <1>1, Zenon DEF process, store, TypeInv, Release
<1>4. CallOK(c)' BY Zenon DEF IInv, CallOK, Live
<1>5. OwnOK(c) /\ InsertsAlone(c) /\ OwnsAlone(c)
  BY <1>1, <1>4, Zenon DEF OwnOK, InsertsAlone, OwnsAlone
<1>6. \A p \in Ops : OpOK(p)' BY <1>1, <1>2, QuietOps, Zenon
<1>7. daemon = "up" BY <1>1, BusyIsUp, Zenon
<1> QED BY <1>1, <1>2, <1>3, <1>5, <1>6, <1>7, TaskStep, Zenon

\* The control plane drops a call.
LEMMA DropStep == ASSUME IInv, NEW c \in Calls, Drop(c) PROVE IInv'
<1>1. c \in Tasks /\ TypeInv /\ task[c] \in TaskRecord BY TasksApart, Zenon DEF IInv, TypeInv
<1> DEFINE r == IF task[c].pc = "append" THEN [task[c] EXCEPT !.pc = "detached"] ELSE Idle
<1>2. "detached" \in Pcs BY Zenon DEF Pcs
<1>3. r \in TaskRecord BY <1>1, <1>2, IdleIs, Zenon DEF TaskRecord
<1>4. r.pc = "idle" \/ (r.pc = "detached" /\ r.op = task[c].op) BY <1>1, IdleIs, Zenon DEF TaskRecord
<1>5. task' = [task EXCEPT ![c] = r] BY <1>1, Zenon DEF Drop, TypeInv
<1> HIDE DEF r
<1>6. TasksKept(c) /\ task'[c] = r /\ task' \in [Tasks -> TaskRecord]
  BY <1>1, <1>3, <1>5, Begins, Zenon
<1> QED BY <1>3, <1>4, <1>6, CallQuiet, Zenon DEF Drop

\* The call ends; an approval that is audited starts the supervisor.
LEMMA CallReturnsStep == ASSUME IInv, NEW c \in Calls, CallReturns(c) PROVE IInv'
<1>1. c \in Tasks /\ c \notin Ops /\ c \notin Uploads /\ TypeInv BY TasksApart, Zenon DEF IInv
<1>2. task[c].pc \in {"audited", "unaudited"} BY Zenon DEF CallReturns
<1>3. PICK o \in Ops : o = task[c].op BY <1>2, Zenon DEF IInv, CallOK
<1>4. o \in Tasks /\ o # c BY <1>1, TasksApart, Zenon
<1>5. /\ transitions' = Release(transitions, c)
      /\ UNCHANGED <<daemon, store, audit, dirs, process, recovering>>
  BY Zenon DEF CallReturns
<1>6. CASE ~(task[c].kind = "Approved" /\ task[c].pc = "audited")
  <2>1. task' = [task EXCEPT ![c] = Idle] BY <1>1, <1>3, <1>4, <1>6, Zenon DEF CallReturns, TypeInv
  <2>2. TasksKept(c) /\ task'[c] = Idle /\ task' \in [Tasks -> TaskRecord]
    BY <1>1, <2>1, IdleIs, Begins, Zenon
  <2> QED BY <1>2, <1>5, <2>2, IdleIs, CallQuiet, Zenon
<1>7. CASE task[c].kind = "Approved" /\ task[c].pc = "audited"
  <2> DEFINE r == [Idle EXCEPT !.pc = "start", !.op = o]
  <2>1. "start" \in Pcs BY Zenon DEF Pcs
  <2>2. r \in TaskRecord /\ r.pc = "start" /\ r.op = o BY <2>1, IdleIs, Zenon DEF TaskRecord
  <2>3. task' = [task EXCEPT ![c] = Idle, ![o] = r]
    BY <1>1, <1>3, <1>4, <1>7, Zenon DEF CallReturns, TypeInv
  <2> HIDE DEF r
  <2>4. /\ task' \in [Tasks -> TaskRecord] /\ task'[c] = Idle /\ task'[o] = r
        /\ \A s \in Tasks : s # c /\ s # o => task'[s] = task[s]
    BY <1>1, <1>4, <2>2, <2>3, IdleIs, Zenon DEF TypeInv
  <2>5. /\ transitions = c /\ mem[o].state = "Starting" /\ spawns[o] = 0 /\ task[o].pc = "idle"
        /\ "Approved" \in kinds(o)
    BY <1>3, <1>7, Zenon DEF IInv, CallOK, Live
  <2>6. \A p \in Ops : kinds(p)' = kinds(p) BY <1>5, SameAudit, Zenon
  <2>7. TypeInv' BY <1>1, <1>5, <2>4, Zenon DEF process, store, TypeInv, Release
  <2>8. ASSUME NEW d \in Calls PROVE CallOK(d)'
    <3>1. CASE d = c BY <2>4, <3>1, IdleIs, Zenon DEF CallOK, Live
    <3>2. CASE d # c
      <4>1. task'[d] = task[d] /\ CallOK(d) BY <1>4, <2>4, <3>2, TasksApart, Zenon DEF IInv
      <4>2. task[d].pc \in Live => task[d].kind = "Requested" BY <2>5, <3>2, <4>1, Zenon DEF CallOK
      <4> QED BY <1>5, <4>1, <4>2, Zenon DEF CallOK, store, Live
    <3> QED BY <3>1, <3>2, Zenon
  <2>9. ASSUME NEW u \in Uploads PROVE UploadOK(u)' /\ Owner(u)' = Owner(u) /\ task'[u] = task[u]
    <3>1. task'[u] = task[u] /\ UploadOK(u) BY <1>1, <1>4, <2>4, TasksApart, Zenon DEF IInv
    <3>2. task[u].pc \notin Live BY <1>1, <2>5, <3>1, Zenon DEF UploadOK
    <3>3. Owner(u)' = Owner(u) BY <3>1, Zenon DEF Owner
    <3>4. mem' = mem /\ dirs' = dirs BY <1>5, Zenon DEF store
    <3>5. UploadOK(u)'
      <4>1. /\ task'[u].pc \in {"idle", "admitted", "copy", "commit", "fail"} \cup Live
            /\ task'[u].pc \notin Live
        BY <3>1, <3>2, Zenon DEF UploadOK
      <4>2. task'[u].pc # "idle" =>
              /\ task'[u].op \in Ops /\ task'[u].input \in Declared[task'[u].op]
              /\ mem'[task'[u].op].state # "none"
        BY <3>1, <3>4, Zenon DEF UploadOK
      <4>3. Owner(u)' => /\ task'[u].input \in dirs'[task'[u].op]
                         /\ task'[u].input \in mem'[task'[u].op].pending
        BY <3>1, <3>3, <3>4, Zenon DEF UploadOK
      <4> QED BY <4>1, <4>2, <4>3, Zenon DEF UploadOK
    <3> QED BY <3>1, <3>3, <3>5, Zenon
  <2>10. ASSUME NEW p \in Ops PROVE RunOK(p)' /\ OpOK(p)'
    <3>1. RunOK(p) /\ OpOK(p) BY Zenon DEF IInv
    <3>2. CASE p = o
      <4>1. daemon = "up" BY <1>1, <1>2, BusyIsUp, Zenon
      <4>2. mem[o].state # "none" BY <2>5, Zenon DEF Late, Active, Terminal
      <4>3. mem[o] = disk[o] BY <4>2, ShownRecord, Zenon
      <4>4. child[o] # "alive" BY <2>5, <4>1, <4>2, ShownRecord, Zenon
      <4>5. RunOK(o)'
        BY <1>5, <2>2, <2>4, <2>5, <2>6, <4>4, Zenon
           DEF RunOK, store, process, Live, Attended, Late, Active
      <4>6. OpOK(o)'
        BY <1>5, <2>4, <2>5, <2>6, <3>1, <3>2, <4>3, <4>4, Zenon DEF OpOK, store, process, Late, Active
      <4> QED BY <3>2, <4>5, <4>6, Zenon
    <3>3. CASE p # o
      <4>1. task'[p] = task[p] BY <1>1, <2>4, <3>3, TasksApart, Zenon
      <4>2. RunOK(p)'
        <5>1. transitions # p BY <1>1, <2>5, Zenon
        <5>2. Attended(p)' = Attended(p) BY <4>1, Zenon DEF Attended
        <5> QED BY <1>5, <2>6, <3>1, <4>1, <5>1, <5>2, Zenon DEF RunOK, store, process
      <4>3. OpOK(p)' BY <1>5, <2>6, <3>1, <4>1, Zenon DEF OpOK, store, process
      <4> QED BY <4>2, <4>3, Zenon
    <3> QED BY <3>2, <3>3, Zenon
  <2>11. OwnInputs' BY <2>9, Zenon DEF IInv, OwnInputs
  <2>12. OwnInserts'
    <3>1. \A d \in Calls : task'[d].pc = "insert" => task'[d] = task[d]
      BY <1>4, <2>4, TasksApart, IdleIs, Zenon
    <3> QED BY <3>1 DEF IInv, OwnInserts
  <2>13. DownInv' /\ RestInv' BY <1>1, <1>2, <1>5, BusyIsUp, Zenon DEF DownInv, RestInv
  <2> QED BY <2>7, <2>8, <2>9, <2>10, <2>11, <2>12, <2>13, Zenon DEF IInv
<1> QED BY <1>6, <1>7, Zenon

-----------------------------------------------------------------------------
(* append_audit, by any task.                                              *)

\* A task that awaits its append goes on with it.
LEMMA AuditMoves ==
    ASSUME IInv, NEW t \in Tasks, task[t].pc \in Live, TasksKept(t),
           task' \in [Tasks -> TaskRecord],
           task'[t].pc \in Live, task'[t].kind = task[t].kind,
           task'[t].op = task[t].op, task'[t].input = task[t].input,
           AuditGrows, audit' \in [Ops -> Seq(Entry)],
           task'[t].pc = "audited" /\ task[t].kind = "Approved" => "Approved" \in kinds(task[t].op)',
           UNCHANGED <<daemon, store, transitions, dirs, process, recovering>>
    PROVE  IInv'
<1>1. TypeInv BY Zenon DEF IInv
<1>2. Kept(t)
  <2>1. LockKept(t) BY Zenon DEF LockKept
  <2>2. MemKept(t) /\ InsertKept(t) /\ DirsKept(t) /\ ProcessKept(t)
    BY SameStore, SameDirs, SameProcess, Zenon
  <2> QED BY <2>1, <2>2, Zenon DEF Kept
<1>3. TypeInv' BY <1>1, Zenon DEF process, store, TypeInv
<1>4. daemon = "up" BY BusyIsUp, Zenon DEF Live
<1>5. (Owner(t)' = Owner(t)) /\ task[t].pc # "idle" /\ task'[t].pc \notin {"idle", "insert", "start"}
  BY Zenon DEF Owner, Live
<1>6. OwnsAlone(t) /\ InsertsAlone(t) BY <1>5, Zenon DEF IInv, OwnsAlone, InsertsAlone, OwnInputs
<1>7. CASE t \in Calls
  <2>1. t \notin Ops /\ t \notin Uploads /\ CallOK(t) BY <1>7, TasksApart, Zenon DEF IInv
  <2>2. task[t].op \in Ops BY <1>5, <2>1, Zenon DEF CallOK
  <2>3. t # task[t].op /\ task[t].op \in Tasks BY <2>1, <2>2, TasksApart, Zenon
  <2>5. CallOK(t)'
    <3>1. task'[task[t].op] = task[task[t].op] BY <2>3, Zenon DEF TasksKept
    <3>2. task[t].kind = "Approved" => mem[task[t].op].state = "Starting" /\ spawns[task[t].op] = 0
                                       /\ task[task[t].op].pc = "idle"
      BY <2>1, Zenon DEF CallOK
    <3> QED BY <1>5, <2>1, <2>2, <3>1, <3>2, Zenon DEF CallOK, store, process, kinds
  <2>6. \A p \in Ops : OpOK(p)' BY <1>2, <2>1, QuietOps, Zenon
  <2> QED BY <1>2, <1>3, <1>4, <1>6, <2>1, <2>5, <2>6, TaskStep, Zenon DEF OwnOK
<1>8. CASE t \in Uploads
  <2>1. t \notin Ops /\ t \notin Calls /\ UploadOK(t) BY <1>8, TasksApart, Zenon DEF IInv
  <2>2. UploadOK(t)' BY <1>5, <2>1, Zenon DEF UploadOK, store
  <2>3. \A p \in Ops : OpOK(p)' BY <1>2, <2>1, QuietOps, Zenon
  <2> QED BY <1>2, <1>3, <1>4, <1>6, <2>1, <2>2, <2>3, TaskStep, Zenon DEF OwnOK
<1>9. CASE t \in Ops
  <2>1. t \notin Calls /\ t \notin Uploads /\ RunOK(t) BY <1>9, TasksApart, Zenon DEF IInv
  <2>2. kinds(t) \subseteq kinds(t)' BY <1>9, Zenon DEF AuditGrows
  <2>3. Attended(t)' = Attended(t) BY Zenon DEF Attended, Live
  <2>4. RunOK(t)' BY <1>5, <2>1, <2>2, <2>3, Zenon DEF RunOK, store, process, Live
  <2>5. \A p \in Ops : OpOK(p)' BY <1>2, <1>5, <1>9, QuietRun, Zenon DEF process
  <2> QED BY <1>2, <1>3, <1>4, <1>5, <1>6, <2>1, <2>4, <2>5, TaskStep, Zenon DEF OwnOK
<1> QED BY <1>7, <1>8, <1>9, Zenon DEF Tasks

\* The append takes audit_writes.
LEMMA AuditLockStep == ASSUME IInv, NEW t \in Tasks, AuditLock(t) PROVE IInv'
<1>1. TypeInv /\ "append" \in Pcs BY Zenon DEF IInv, Pcs
<1>2. Moves(t, "append", task[t].kind) /\ task' \in [Tasks -> TaskRecord]
  BY <1>1, GotoMoves, Zenon DEF AuditLock
<1>3. AuditGrows /\ audit' \in [Ops -> Seq(Entry)] BY <1>1, SameAudit, Zenon DEF AuditLock, TypeInv
<1> QED BY <1>2, <1>3, AuditMoves, Zenon DEF AuditLock, Moves, Live

\* A task of which only the sequence number changes.
LEMMA SeqMoves ==
    ASSUME TypeInv, NEW t \in Tasks, NEW n \in Nat, task' = [task EXCEPT ![t].seq = n]
    PROVE  /\ task' \in [Tasks -> TaskRecord] /\ TasksKept(t)
           /\ task'[t].pc = task[t].pc /\ task'[t].kind = task[t].kind
           /\ task'[t].op = task[t].op /\ task'[t].input = task[t].input
<1>1. task[t] \in TaskRecord BY Zenon DEF TypeInv
<1> DEFINE r == [task[t] EXCEPT !.seq = n]
<1>2. r \in TaskRecord BY <1>1, Zenon DEF TaskRecord
<1>3. r.pc = task[t].pc /\ r.kind = task[t].kind /\ r.op = task[t].op /\ r.input = task[t].input
  BY <1>1, Zenon DEF TaskRecord
<1>4. task' = [task EXCEPT ![t] = r] BY Zenon
<1> HIDE DEF r
<1> QED BY <1>2, <1>3, <1>4, Begins, Zenon

\* A call that was dropped while its entry is appended: only that entry is left of it.
LEMMA Detached ==
    ASSUME IInv, NEW t \in Tasks, task[t].pc = "detached"
    PROVE  t \in Calls /\ t \notin Ops /\ t \notin Uploads /\ task[t].op \in Ops
<1>1. t \in Calls
  <2>1. CASE t \in Uploads BY <2>1, Zenon DEF IInv, UploadOK, Live
  <2>2. CASE t \in Ops BY <2>2, Zenon DEF IInv, RunOK, Live
  <2> QED BY <2>1, <2>2, Zenon DEF Tasks
<1> QED BY <1>1, TasksApart, Zenon DEF IInv, CallOK

\* A detached append goes on or ends.
LEMMA DetachedMoves ==
    ASSUME IInv, NEW t \in Tasks, task[t].pc = "detached", TasksKept(t),
           task' \in [Tasks -> TaskRecord],
           task'[t].pc = "idle" \/ (task'[t].pc = "detached" /\ task'[t].op = task[t].op),
           AuditGrows, audit' \in [Ops -> Seq(Entry)],
           UNCHANGED <<daemon, store, transitions, dirs, process, recovering>>
    PROVE  IInv'
<1>1. TypeInv /\ t \in Calls /\ t \notin Ops /\ t \notin Uploads /\ task[t].op \in Ops
  BY Detached, Zenon DEF IInv
<1>2. Kept(t)
  <2>1. LockKept(t) BY Zenon DEF LockKept
  <2>2. MemKept(t) /\ InsertKept(t) /\ DirsKept(t) /\ ProcessKept(t)
    BY SameStore, SameDirs, SameProcess, Zenon
  <2> QED BY <2>1, <2>2, Zenon DEF Kept
<1>3. TypeInv' BY <1>1, Zenon DEF process, store, TypeInv
<1>4. daemon = "up" BY BusyIsUp, Zenon
<1>5. CallOK(t)' BY <1>1, Zenon DEF CallOK, Live
<1>6. OwnOK(t) /\ InsertsAlone(t) /\ OwnsAlone(t)
  BY <1>1, <1>5, Zenon DEF OwnOK, InsertsAlone, OwnsAlone
<1>7. \A p \in Ops : OpOK(p)' BY <1>1, <1>2, QuietOps, Zenon
<1> QED BY <1>1, <1>2, <1>3, <1>4, <1>6, <1>7, TaskStep, Zenon

\* A task that appends has an operation.
LEMMA LiveHasOp ==
    ASSUME IInv, NEW t \in Tasks, task[t].pc \in Live \cup {"detached"} PROVE task[t].op \in Ops
<1>1. CASE t \in Calls BY <1>1, Zenon DEF IInv, CallOK, Live
<1>2. CASE t \in Uploads BY <1>2, Zenon DEF IInv, UploadOK, Live
<1>3. CASE t \in Ops BY <1>3 DEF IInv, RunOK, Live
<1> QED BY <1>1, <1>2, <1>3, Zenon DEF Tasks

\* The append reads the last sequence number.
LEMMA AuditReadStep == ASSUME IInv, NEW t \in Tasks, AuditRead(t) PROVE IInv'
<1>1. TypeInv /\ task[t].pc \in {"append", "detached"} BY Zenon DEF IInv, AuditRead
<1>2. task[t].op \in Ops BY <1>1, LiveHasOp, Zenon DEF Live
<1>3. next_audit_sequence(task[t].op) \in Nat
  <2>1. audit[task[t].op] \in Seq(Entry) BY <1>1, <1>2, Zenon DEF TypeInv
  <2>2. CASE audit[task[t].op] = << >> BY <2>2, Zenon DEF next_audit_sequence
  <2>3. CASE audit[task[t].op] # << >>
    <3>1. Len(audit[task[t].op]) \in 1 .. Len(audit[task[t].op]) BY <2>1, <2>3
    <3>2. audit[task[t].op][Len(audit[task[t].op])] \in Entry BY <2>1, <3>1
    <3> QED BY <2>3, <3>2 DEF next_audit_sequence, Entry
  <2> QED BY <2>2, <2>3, Zenon
<1>4. /\ task' \in [Tasks -> TaskRecord] /\ TasksKept(t)
      /\ task'[t].pc = task[t].pc /\ task'[t].kind = task[t].kind
      /\ task'[t].op = task[t].op /\ task'[t].input = task[t].input
  BY <1>1, <1>3, SeqMoves, Zenon DEF AuditRead
<1>5. AuditGrows /\ audit' \in [Ops -> Seq(Entry)] BY <1>1, SameAudit, Zenon DEF AuditRead, TypeInv
<1>6. CASE task[t].pc = "append" BY <1>4, <1>5, <1>6, AuditMoves, Zenon DEF AuditRead, Live
<1>7. CASE task[t].pc = "detached" BY <1>4, <1>5, <1>7, DetachedMoves, Zenon DEF AuditRead
<1> QED BY <1>1, <1>6, <1>7, Zenon

\* The append writes its entry, or fails.
LEMMA AuditAppendStep == ASSUME IInv, NEW t \in Tasks, AuditAppend(t) PROVE IInv'
<1>1. TypeInv /\ task[t].pc \in {"append", "detached"} /\ task[t] \in TaskRecord
  BY Zenon DEF IInv, AuditAppend, TypeInv
<1>2. PICK o \in Ops : o = task[t].op BY <1>1, LiveHasOp, Zenon DEF Live
<1> DEFINE e == [seq |-> task[t].seq, kind |-> task[t].kind]
<1>3. e \in Entry /\ e.kind = task[t].kind BY <1>1, Zenon DEF Entry, TaskRecord
<1>4. UNCHANGED <<daemon, store, transitions, dirs, process, recovering>> BY Zenon DEF AuditAppend
<1>5. PICK ok \in BOOLEAN :
        /\ audit' = IF ok THEN [audit EXCEPT ![o] = Append(@, e)] ELSE audit
        /\ task' = [task EXCEPT ![t] =
                       IF @.pc = "detached" THEN Idle
                       ELSE [@ EXCEPT !.pc = IF ok THEN "audited" ELSE "unaudited", !.seq = 0]]
  BY <1>2, Zenon DEF AuditAppend
<1> HIDE DEF e
<1>6. AuditGrows /\ audit' \in [Ops -> Seq(Entry)] /\ (ok => task[t].kind \in kinds(o)')
  <2>1. CASE ok BY <1>1, <1>3, <1>5, <2>1, AppendGrows, Zenon
  <2>2. CASE ~ok
    <3>1. UNCHANGED audit BY <1>5, <2>2, Zenon
    <3> QED BY <1>1, <2>2, <3>1, SameAudit, Zenon DEF TypeInv
  <2> QED BY <2>1, <2>2, Zenon
<1>7. CASE task[t].pc = "detached"
  <2>1. task' = [task EXCEPT ![t] = Idle] BY <1>1, <1>5, <1>7, Zenon DEF TypeInv
  <2>2. TasksKept(t) /\ task'[t] = Idle /\ task' \in [Tasks -> TaskRecord]
    BY <1>1, <2>1, IdleIs, Begins, Zenon
  <2> QED BY <1>4, <1>6, <1>7, <2>2, IdleIs, DetachedMoves, Zenon
<1>8. CASE task[t].pc = "append"
  <2>1. PICK pc \in {"audited", "unaudited"} :
          /\ pc = IF ok THEN "audited" ELSE "unaudited"
          /\ task' = [task EXCEPT ![t] = [task[t] EXCEPT !.pc = pc, !.seq = 0]]
    <3>1. CASE ok
      <4>1. task' = [task EXCEPT ![t] = [task[t] EXCEPT !.pc = "audited", !.seq = 0]]
        BY <1>1, <1>5, <1>8, <3>1, Zenon DEF TypeInv
      <4> QED BY <3>1, <4>1, Zenon
    <3>2. CASE ~ok
      <4>1. task' = [task EXCEPT ![t] = [task[t] EXCEPT !.pc = "unaudited", !.seq = 0]]
        BY <1>1, <1>5, <1>8, <3>2, Zenon DEF TypeInv
      <4> QED BY <3>2, <4>1, Zenon
    <3> QED BY <3>1, <3>2, Zenon
  <2> DEFINE r == [task[t] EXCEPT !.pc = pc, !.seq = 0]
  <2>2. pc \in Pcs /\ pc \in Live BY Zenon DEF Pcs, Live
  <2>3. r \in TaskRecord BY <1>1, <2>2, Zenon DEF TaskRecord
  <2>4. r.pc = pc /\ r.kind = task[t].kind /\ r.op = task[t].op /\ r.input = task[t].input
    BY <1>1, Zenon DEF TaskRecord
  <2>5. task' = [task EXCEPT ![t] = r] BY <2>1, Zenon
  <2> HIDE DEF r
  <2>6. TasksKept(t) /\ task'[t] = r /\ task' \in [Tasks -> TaskRecord]
    BY <1>1, <2>3, <2>5, Begins, Zenon
  <2>7. pc = "audited" => ok BY <2>1, Zenon
  <2>8. ASSUME task'[t].pc = "audited", task[t].kind = "Approved"
        PROVE  "Approved" \in kinds(task[t].op)'
    <3>1. "Approved" \in kinds(o)' BY <1>6, <2>4, <2>6, <2>7, <2>8, Zenon
    <3>2. task'[t].op = o BY <1>2, <2>4, <2>6, Zenon
    <3> QED BY <3>1, <3>2, Zenon DEF kinds
  <2> QED BY <1>4, <1>6, <1>8, <2>2, <2>4, <2>6, <2>8, AuditMoves, Zenon DEF Live
<1> QED BY <1>1, <1>7, <1>8, Zenon

-----------------------------------------------------------------------------
(* run_operation, by the supervisor of an approved operation.              *)

\* A step of a supervisor that leaves every record alone.
LEMMA RunQuiet ==
    ASSUME IInv, NEW o \in Ops, task[o].pc # "idle", TasksKept(o),
           task' \in [Tasks -> TaskRecord], transitions' \in Tasks \cup {"free"}, LockKept(o),
           DirsKept(o), dirs' \in [Ops -> SUBSET Inputs],
           child' \in [Ops -> {"none", "alive", "exited", "gone"}], spawns' = spawns,
           \A p \in Ops : child'[p] = "alive" => child[p] = "alive",
           RunOK(o)', child'[o] = "alive" => task'[o].pc # "idle",
           UNCHANGED <<daemon, store, audit, recovering>>
    PROVE  IInv'
<1>1. o \in Tasks /\ o \notin Calls /\ o \notin Uploads /\ TypeInv BY TasksApart, Zenon DEF IInv
<1>2. Kept(o)
  <2>1. ProcessKept(o) BY Zenon DEF ProcessKept
  <2>2. MemKept(o) /\ InsertKept(o) /\ AuditGrows BY <1>1, SameStore, SameAudit, Zenon
  <2> QED BY <2>1, <2>2, Zenon DEF Kept
<1>3. TypeInv' BY <1>1, Zenon DEF store, TypeInv
<1>4. daemon = "up" BY <1>1, BusyIsUp, Zenon
<1>5. OwnOK(o) /\ InsertsAlone(o) /\ OwnsAlone(o)
  BY <1>1, Zenon DEF OwnOK, InsertsAlone, OwnsAlone
<1>6. \A p \in Ops : OpOK(p)' BY <1>2, QuietRun, Zenon
<1> QED BY <1>1, <1>2, <1>3, <1>4, <1>5, <1>6, TaskStep, Zenon

\* A step of a supervisor that replaces its record and begins to audit it.
LEMMA RunStores ==
    ASSUME IInv, NEW o \in Ops, NEW r \in Records, NEW kind \in Kinds,
           task[o].pc # "idle", transitions \in {"free", o}, transitions' = o,
           r.state \in Late, r.pending = mem[o].pending,
           r.state \in Active => mem[o].state \in Active,
           kind = "Started" => r.state = "Running",
           kind # "Started" => child[o] # "alive",
           Store(o, r), Log(o, kind),
           UNCHANGED <<daemon, audit, dirs, process, recovering>>
    PROVE  IInv'
<1>1. o \in Tasks /\ o \notin Calls /\ o \notin Uploads /\ TypeInv BY TasksApart, Zenon DEF IInv
<1>2. /\ TasksKept(o) /\ task' \in [Tasks -> TaskRecord] /\ task'[o].pc = "auditing"
      /\ task'[o].kind = kind /\ task'[o].op = task[o].op
  BY <1>1, LogMoves, Zenon DEF Moves
<1>3. /\ disk'[o] = r /\ mem'[o] = r /\ disk' \in [Ops -> Records] /\ mem' \in [Ops -> Records]
      /\ \A p \in Ops : p # o => disk'[p] = disk[p] /\ mem'[p] = mem[p]
  BY <1>1, StoreIs, Zenon
<1>4. RunOK(o) BY Zenon DEF IInv
<1>5. mem[o].state \in Late /\ mem[o].state # "none" /\ r.state # "none"
  BY <1>4, Zenon DEF RunOK, Late, Active, Terminal
<1>6. Kept(o)
  <2>1. MemKept(o) /\ InsertKept(o) BY <1>1, <1>5, StoreKept, Zenon
  <2>2. LockKept(o) BY Zenon DEF LockKept
  <2>3. DirsKept(o) /\ ProcessKept(o) /\ AuditGrows BY <1>1, SameDirs, SameProcess, SameAudit, Zenon
  <2> QED BY <1>2, <2>1, <2>2, <2>3, Zenon DEF Kept
<1>7. TypeInv' BY <1>1, <1>2, <1>3, Zenon DEF process, TypeInv
<1>8. kinds(o)' = kinds(o) /\ child'[o] = child[o] /\ spawns'[o] = spawns[o]
  BY SameAudit, Zenon DEF process
<1>9. RunOK(o)'
  <2>1. child'[o] = "alive" => Attended(o)' BY <1>2, <1>8, Zenon DEF Attended, Live
  <2> QED BY <1>2, <1>3, <1>4, <1>8, <2>1, Zenon DEF RunOK, Live
<1>10. OwnOK(o) /\ InsertsAlone(o) /\ OwnsAlone(o)
  BY <1>1, <1>9, Zenon DEF OwnOK, InsertsAlone, OwnsAlone
<1>11. OpOK(o)'
  <2>1. r.state \in {"AwaitingApproval"} \cup Active => r.pending = {}
    BY <1>5, ShownRecord, Zenon DEF Late, Active, Terminal
  <2>2. Declared[o] \ r.pending \subseteq dirs'[o] /\ r.pending \subseteq Declared[o]
    BY <1>5, ShownRecord, Zenon
  <2> QED BY <1>1, <1>2, <1>5, <1>6, <1>8, <2>1, <2>2, StoredOp, Zenon
<1>12. \A p \in Ops : OpOK(p)' BY <1>1, <1>3, <1>6, <1>11, OtherOps, Zenon
<1>13. daemon = "up" BY <1>1, BusyIsUp, Zenon
<1> QED BY <1>1, <1>6, <1>7, <1>10, <1>12, <1>13, TaskStep, Zenon

\* SIGTERM and SIGKILL leave no process that is alive.
LEMMA KillEnds ==
    ASSUME TypeInv, NEW o \in Ops, Kill(o)
    PROVE  /\ child' \in [Ops -> {"none", "alive", "exited", "gone"}] /\ child'[o] # "alive"
           /\ \A p \in Ops : child'[p] = "alive" => child[p] = "alive"
  BY Zenon DEF Kill, TypeInv

\* The process starts.
LEMMA RunStartStep == ASSUME IInv, NEW o \in Ops, RunStart(o) PROVE IInv'
<1>1. o \in Tasks /\ o \notin Calls /\ o \notin Uploads /\ TypeInv /\ o # "free"
  BY TasksApart, Zenon DEF IInv
<1>2. /\ task[o].pc = "start" /\ transitions = "free"
      /\ UNCHANGED <<daemon, store, audit, dirs, recovering>>
  BY Zenon DEF RunStart
<1>3. RunOK(o) BY Zenon DEF IInv
<1>4. "fail" \in Pcs /\ "spawned" \in Pcs BY Zenon DEF Pcs
<1>5. \A p \in Ops : kinds(p)' = kinds(p) BY <1>2, SameAudit, Zenon
<1>6. CASE Goto(o, "fail") /\ UNCHANGED <<transitions, process>>
  <2>1. Moves(o, "fail", task[o].kind) /\ task' \in [Tasks -> TaskRecord]
    BY <1>1, <1>4, <1>6, GotoMoves, Zenon
  <2>2. child[o] # "alive" BY <1>2, <1>3, Zenon DEF RunOK, Attended, Live
  <2>3. RunOK(o)'
    BY <1>2, <1>3, <1>5, <1>6, <2>1, <2>2, Zenon DEF RunOK, Moves, store, process, Live
  <2>4. LockKept(o) /\ DirsKept(o) BY <1>2, Zenon DEF LockKept, DirsKept
  <2> QED BY <1>1, <1>2, <1>6, <2>1, <2>2, <2>3, <2>4, RunQuiet, Zenon DEF Moves, process, TypeInv
<1>7. CASE /\ mem[o].state = "Starting" /\ Goto(o, "spawned")
           /\ child' = [child EXCEPT ![o] = "alive"] /\ spawns' = [spawns EXCEPT ![o] = @ + 1]
           /\ transitions' = o
  <2>1. Moves(o, "spawned", task[o].kind) /\ task' \in [Tasks -> TaskRecord]
    BY <1>1, <1>4, <1>7, GotoMoves, Zenon
  <2>2. spawns[o] = 0 /\ "Approved" \in kinds(o) /\ task[o].op = o BY <1>2, <1>3, Zenon DEF RunOK
  <2>3. /\ child' \in [Ops -> {"none", "alive", "exited", "gone"}] /\ child'[o] = "alive"
        /\ spawns' \in [Ops -> Nat] /\ spawns'[o] = 1
        /\ \A p \in Ops : p # o => child'[p] = child[p] /\ spawns'[p] = spawns[p]
    BY <1>1, <1>7, <2>2 DEF TypeInv
  <2>4. Kept(o)
    <3>1. ProcessKept(o) /\ LockKept(o) BY <1>2, <2>3, Zenon DEF ProcessKept, LockKept
    <3>2. MemKept(o) /\ InsertKept(o) /\ AuditGrows /\ DirsKept(o)
      BY <1>1, <1>2, SameStore, SameAudit, SameDirs, Zenon
    <3> QED BY <2>1, <3>1, <3>2, Zenon DEF Kept, Moves
  <2>5. TypeInv' BY <1>1, <1>2, <1>7, <2>1, <2>3, Zenon DEF TypeInv, store
  <2>6. RunOK(o)'
    <3>1. Attended(o)' BY <2>1, Zenon DEF Attended, Moves
    <3> QED BY <1>2, <1>5, <1>7, <2>1, <2>2, <3>1, Zenon DEF RunOK, Moves, store, Live, Late, Active
  <2>7. OwnOK(o) /\ InsertsAlone(o) /\ OwnsAlone(o)
    BY <1>1, <2>6, Zenon DEF OwnOK, InsertsAlone, OwnsAlone
  <2>8. OpOK(o)'
    <3>1. OpOK(o) /\ mem[o] = disk[o] BY <1>7, ShownRecord, Zenon DEF IInv
    <3>2. disk[o].state = "Starting" /\ task'[o].pc # "idle" BY <1>7, <2>1, <3>1, Zenon DEF Moves
    <3>3. disk'[o] = disk[o] /\ mem'[o] = mem[o] /\ dirs'[o] = dirs[o] BY <1>2, Zenon DEF store
    <3>4. spawns'[o] <= 1 BY <2>3
    <3>5. disk[o].state \in Late /\ "Approved" \in kinds(o)' BY <1>5, <2>2, <3>2, Zenon DEF Late, Active
    <3> QED BY <3>1, <3>2, <3>3, <3>4, <3>5, Zenon DEF OpOK
  <2>9. \A p \in Ops : OpOK(p)' BY <1>1, <1>2, <2>4, <2>8, OtherOps, Zenon DEF store
  <2>10. daemon = "up" BY <1>1, <1>2, BusyIsUp, Zenon
  <2> QED BY <1>1, <1>2, <2>4, <2>5, <2>7, <2>9, <2>10, TaskStep, Zenon
<1> QED BY <1>6, <1>7, Zenon DEF RunStart

\* The record says Running, or the child is dropped.
LEMMA RunRecordStep == ASSUME IInv, NEW o \in Ops, RunRecord(o) PROVE IInv'
<1>1. o \in Tasks /\ TypeInv /\ o # "free" BY TasksApart, Zenon DEF IInv
<1>2. task[o].pc = "spawned" /\ UNCHANGED <<daemon, audit, dirs, spawns, recovering>>
  BY Zenon DEF RunRecord
<1>3. RunOK(o) BY Zenon DEF IInv
<1>4. transitions = o /\ mem[o].state = "Starting" BY <1>2, <1>3, Zenon DEF RunOK
<1>5. CASE Store(o, At(mem[o], "Running")) /\ Log(o, "Started") /\ UNCHANGED <<transitions, child>>
  <2> DEFINE r == At(mem[o], "Running")
  <2>1. mem[o] \in Records /\ "Running" \in States BY <1>1, Zenon DEF TypeInv, States, Active
  <2>2. r \in Records /\ r.state = "Running" /\ r.pending = mem[o].pending BY <2>1, AtIs, Zenon
  <2>3. Store(o, r) BY <1>5, Zenon
  <2>4. "Started" \in Kinds BY Zenon DEF Kinds
  <2> HIDE DEF r
  <2>5. UNCHANGED process BY <1>2, <1>5, Zenon DEF process
  <2> QED BY <1>2, <1>4, <1>5, <2>2, <2>3, <2>4, <2>5, RunStores, Zenon DEF Late, Active
<1>6. CASE Goto(o, "fail") /\ transitions' = "free" /\ Kill(o) /\ UNCHANGED store
  <2>1. Moves(o, "fail", task[o].kind) /\ task' \in [Tasks -> TaskRecord]
    BY <1>1, <1>6, GotoMoves, Zenon DEF Pcs
  <2>2. /\ child' \in [Ops -> {"none", "alive", "exited", "gone"}] /\ child'[o] # "alive"
        /\ \A p \in Ops : child'[p] = "alive" => child[p] = "alive"
    BY <1>1, <1>6, KillEnds, Zenon
  <2>3. kinds(o)' = kinds(o) BY <1>2, SameAudit, Zenon
  <2>4. RunOK(o)' BY <1>2, <1>3, <1>6, <2>1, <2>2, <2>3, Zenon DEF RunOK, Moves, store, Live
  <2>5. LockKept(o) /\ DirsKept(o) BY <1>2, <1>4, Zenon DEF LockKept, DirsKept
  <2> QED BY <1>1, <1>2, <1>6, <2>1, <2>2, <2>4, <2>5, RunQuiet, Zenon DEF Moves, TypeInv
<1> QED BY <1>5, <1>6, Zenon DEF RunRecord

\* The start is audited and the supervisor waits, or the child is dropped.
LEMMA RunStartedStep == ASSUME IInv, NEW o \in Ops, RunStarted(o) PROVE IInv'
<1>1. o \in Tasks /\ TypeInv /\ o # "free" BY TasksApart, Zenon DEF IInv
<1>2. /\ task[o].pc \in {"audited", "unaudited"} /\ task[o].kind = "Started" /\ transitions' = "free"
      /\ UNCHANGED <<daemon, store, audit, dirs, spawns, recovering>>
  BY Zenon DEF RunStarted
<1>3. RunOK(o) BY Zenon DEF IInv
<1>4. transitions = o /\ mem[o].state = "Running" BY <1>2, <1>3, Zenon DEF RunOK, Live
<1>5. kinds(o)' = kinds(o) BY <1>2, SameAudit, Zenon
<1>6. LockKept(o) /\ DirsKept(o) BY <1>2, <1>4, Zenon DEF LockKept, DirsKept
<1>7. CASE Goto(o, "wait") /\ UNCHANGED child
  <2>1. Moves(o, "wait", task[o].kind) /\ task' \in [Tasks -> TaskRecord]
    BY <1>1, <1>7, GotoMoves, Zenon DEF Pcs
  <2>2. Attended(o)' BY <2>1, Zenon DEF Moves, Attended
  <2>3. RunOK(o)' BY <1>2, <1>3, <1>4, <1>5, <2>1, <2>2, Zenon DEF RunOK, Moves, store, Live
  <2> QED BY <1>1, <1>2, <1>6, <1>7, <2>1, <2>3, RunQuiet, Zenon DEF Moves, TypeInv
<1>8. CASE Goto(o, "fail") /\ Kill(o)
  <2>1. Moves(o, "fail", task[o].kind) /\ task' \in [Tasks -> TaskRecord]
    BY <1>1, <1>8, GotoMoves, Zenon DEF Pcs
  <2>2. /\ child' \in [Ops -> {"none", "alive", "exited", "gone"}] /\ child'[o] # "alive"
        /\ \A p \in Ops : child'[p] = "alive" => child[p] = "alive"
    BY <1>1, <1>8, KillEnds, Zenon
  <2>3. RunOK(o)' BY <1>2, <1>3, <1>5, <2>1, <2>2, Zenon DEF RunOK, Moves, store, Live
  <2> QED BY <1>1, <1>2, <1>6, <2>1, <2>2, <2>3, RunQuiet, Zenon DEF Moves, TypeInv
<1> QED BY <1>7, <1>8, Zenon DEF RunStarted

\* The select over exit, cancellation and timeout.
LEMMA RunWaitStep == ASSUME IInv, NEW o \in Ops, RunWait(o) PROVE IInv'
<1>1. o \in Tasks /\ TypeInv /\ o # "free" BY TasksApart, Zenon DEF IInv
<1>2. /\ task[o].pc = "wait"
      /\ UNCHANGED <<daemon, store, transitions, audit, dirs, spawns, recovering>>
  BY Zenon DEF RunWait
<1>3. RunOK(o) BY Zenon DEF IInv
<1>4. kinds(o)' = kinds(o) BY <1>2, SameAudit, Zenon
<1>5. LockKept(o) /\ DirsKept(o) BY <1>2, Zenon DEF LockKept, DirsKept
<1>6. PICK kind \in {"Exited", "Canceled", "TimedOut"} :
        /\ task' = [task EXCEPT ![o].pc = "drain", ![o].kind = kind]
        /\ (child[o] # "alive" /\ UNCHANGED child) \/ Kill(o)
  BY Zenon DEF RunWait
<1>7. Moves(o, "drain", kind) /\ task' \in [Tasks -> TaskRecord]
  <2>1. "drain" \in Pcs /\ kind \in AuditKinds BY Zenon DEF Pcs, AuditKinds, Kinds
  <2> QED BY <1>1, <1>6, <2>1, MoveKind, Zenon
<1>8. /\ child' \in [Ops -> {"none", "alive", "exited", "gone"}] /\ child'[o] # "alive"
      /\ \A p \in Ops : child'[p] = "alive" => child[p] = "alive"
  BY <1>1, <1>6, KillEnds, Zenon DEF TypeInv
<1>9. RunOK(o)' BY <1>2, <1>3, <1>4, <1>7, <1>8, Zenon DEF RunOK, Moves, store, Live
<1> QED BY <1>1, <1>2, <1>5, <1>7, <1>8, <1>9, RunQuiet, Zenon DEF Moves, TypeInv

\* Both readers reach the end of their pipe, or fail.
LEMMA RunDrainStep == ASSUME IInv, NEW o \in Ops, RunDrain(o) PROVE IInv'
<1>1. o \in Tasks /\ TypeInv /\ o # "free" BY TasksApart, Zenon DEF IInv
<1>2. /\ task[o].pc = "drain"
      /\ UNCHANGED <<daemon, store, transitions, audit, dirs, process, recovering>>
  BY Zenon DEF RunDrain
<1>3. RunOK(o) BY Zenon DEF IInv
<1>4. kinds(o)' = kinds(o) BY <1>2, SameAudit, Zenon
<1>5. LockKept(o) /\ DirsKept(o) BY <1>2, Zenon DEF LockKept, DirsKept
<1>6. PICK pc \in {"finish", "fail"} : Goto(o, pc) BY Zenon DEF RunDrain
<1>7. Moves(o, pc, task[o].kind) /\ task' \in [Tasks -> TaskRecord]
  <2>1. pc \in Pcs BY Zenon DEF Pcs
  <2> QED BY <1>1, <1>6, <2>1, GotoMoves, Zenon
<1>8. child[o] # "alive" BY <1>2, <1>3, Zenon DEF RunOK, Attended, Live
<1>9. RunOK(o)' BY <1>2, <1>3, <1>4, <1>7, <1>8, Zenon DEF RunOK, Moves, store, process, Live
<1> QED BY <1>1, <1>2, <1>5, <1>7, <1>8, <1>9, RunQuiet, Zenon DEF Moves, TypeInv, process

\* The outcome is recorded, or the record could not be written.
LEMMA RunFinishStep == ASSUME IInv, NEW o \in Ops, RunFinish(o) PROVE IInv'
<1>1. o \in Tasks /\ TypeInv /\ o # "free" BY TasksApart, Zenon DEF IInv
<1>2. /\ task[o].pc = "finish" /\ transitions = "free"
      /\ UNCHANGED <<daemon, audit, dirs, process, recovering>>
  BY Zenon DEF RunFinish
<1>3. RunOK(o) BY Zenon DEF IInv
<1>4. child[o] # "alive" BY <1>2, <1>3, Zenon DEF RunOK, Attended, Live
<1>5. ASSUME NEW out \in Outcomes(task[o].kind), Store(o, At(mem[o], out[1])), Log(o, out[2]),
             transitions' = o
      PROVE  IInv'
  <2>1. task[o].kind \in {"Exited", "Canceled", "TimedOut"} BY <1>2, <1>3, Zenon DEF RunOK
  <2>2. out \in {<<"Succeeded", "Succeeded">>, <<"Failed", "Failed">>, <<"Canceled", "Canceled">>,
                 <<"Failed", "TimedOut">>}
    BY <1>5, <2>1, Zenon DEF Outcomes
  <2>3. PICK s \in {"Succeeded", "Failed", "Canceled"}, k \in {"Succeeded", "Failed", "Canceled", "TimedOut"} :
          out[1] = s /\ out[2] = k
    BY <2>2
  <2> DEFINE r == At(mem[o], s)
  <2>4. mem[o] \in Records /\ s \in States BY <1>1, Zenon DEF TypeInv, States, Terminal
  <2>5. r \in Records /\ r.state = s /\ r.pending = mem[o].pending BY <2>4, AtIs, Zenon
  <2>6. Store(o, r) /\ Log(o, k) BY <1>5, <2>3, Zenon
  <2>7. k \in Kinds /\ k # "Started" BY Zenon DEF Kinds
  <2> HIDE DEF r
  <2> QED BY <1>2, <1>4, <1>5, <2>5, <2>6, <2>7, RunStores, Zenon DEF Late, Active, Terminal
<1>6. CASE Goto(o, "fail") /\ UNCHANGED <<store, transitions>>
  <2>1. Moves(o, "fail", task[o].kind) /\ task' \in [Tasks -> TaskRecord]
    BY <1>1, <1>6, GotoMoves, Zenon DEF Pcs
  <2>2. kinds(o)' = kinds(o) BY <1>2, SameAudit, Zenon
  <2>3. RunOK(o)'
    BY <1>2, <1>3, <1>4, <1>6, <2>1, <2>2, Zenon DEF RunOK, Moves, store, process, Live
  <2>4. LockKept(o) /\ DirsKept(o) BY <1>2, Zenon DEF LockKept, DirsKept
  <2> QED BY <1>1, <1>2, <1>4, <1>6, <2>1, <2>3, <2>4, RunQuiet, Zenon DEF Moves, TypeInv, process
<1> QED BY <1>5, <1>6, Zenon DEF RunFinish

\* A supervisor whose process is not alive ends without another record.
LEMMA RunReturns ==
    ASSUME IInv, NEW o \in Ops, task[o].pc # "idle", child[o] # "alive", Return(o),
           transitions' \in {"free", transitions}, transitions' = "free" => transitions \in {"free", o},
           DirsKept(o), dirs' \in [Ops -> SUBSET Inputs],
           UNCHANGED <<daemon, store, audit, process, recovering>>
    PROVE  IInv'
<1>1. o \in Tasks /\ TypeInv BY TasksApart, Zenon DEF IInv
<1>2. TasksKept(o) /\ task'[o] = Idle /\ task' \in [Tasks -> TaskRecord] BY <1>1, ReturnEnds, Zenon
<1>3. RunOK(o)' BY <1>2, IdleIs, Zenon DEF RunOK, Live
<1>4. LockKept(o) BY Zenon DEF LockKept
<1> QED BY <1>1, <1>2, <1>3, <1>4, RunQuiet, Zenon DEF process, TypeInv

\* The outcome is audited, or the append failed.
LEMMA RunEndsStep == ASSUME IInv, NEW o \in Ops, RunEnds(o) PROVE IInv'
<1>1. RunOK(o) /\ TypeInv BY Zenon DEF IInv
<1>2. task[o].pc \in {"audited", "unaudited"} /\ task[o].kind # "Started" BY Zenon DEF RunEnds
<1>3. transitions = o /\ child[o] # "alive" BY <1>1, <1>2, Zenon DEF RunOK, Attended, Live
<1>4. DirsKept(o) BY Zenon DEF RunEnds, DirsKept
<1> QED BY <1>1, <1>2, <1>3, <1>4, RunReturns, Zenon DEF RunEnds, TypeInv

\* fail_operation by a supervisor.
LEMMA RunFailsStep == ASSUME IInv, NEW o \in Ops, FailOperation(o) PROVE IInv'
<1>1. o \in Tasks /\ TypeInv /\ o \notin Uploads BY TasksApart, Zenon DEF IInv
<1>2. task[o].pc = "fail" /\ transitions = "free" BY Zenon DEF FailOperation
<1>3. RunOK(o) BY Zenon DEF IInv
<1>4. task[o].op = o /\ child[o] # "alive" /\ mem[o].state \in Late
  BY <1>2, <1>3, Zenon DEF RunOK, Attended, Live
<1>5. UNCHANGED <<daemon, audit, process, recovering>> BY Zenon DEF FailOperation
<1>6. CASE Return(o) /\ dirs' = [dirs EXCEPT ![o] = @ \ {}] /\ UNCHANGED <<store, transitions>>
  <2>1. dirs' \in [Ops -> SUBSET Inputs] /\ DirsKept(o) BY <1>1, <1>6, Zenon DEF TypeInv, DirsKept
  <2> QED BY <1>2, <1>4, <1>5, <1>6, <2>1, RunReturns, Zenon
<1>7. CASE Store(o, At(mem[o], "Failed")) /\ Log(o, "Failed") /\ transitions' = o /\ UNCHANGED dirs
  <2> DEFINE r == At(mem[o], "Failed")
  <2>1. mem[o] \in Records /\ "Failed" \in States BY <1>1, Zenon DEF TypeInv, States, Terminal
  <2>2. r \in Records /\ r.state = "Failed" /\ r.pending = mem[o].pending BY <2>1, AtIs, Zenon
  <2>3. Store(o, r) BY <1>7, Zenon
  <2>4. "Failed" \in Kinds BY Zenon DEF Kinds
  <2> HIDE DEF r
  <2> QED BY <1>2, <1>4, <1>5, <1>7, <2>2, <2>3, <2>4, RunStores, Zenon DEF Late, Active, Terminal
<1> QED BY <1>1, <1>4, <1>6, <1>7, Zenon DEF FailOperation

-----------------------------------------------------------------------------
(* serve_input, by an upload.                                              *)

\* A step of an upload that leaves every record alone.
LEMMA UploadQuiet ==
    ASSUME IInv, NEW u \in Uploads, daemon = "up", TasksKept(u),
           task' \in [Tasks -> TaskRecord], transitions' \in Tasks \cup {"free"}, LockKept(u),
           DirsKept(u), dirs' \in [Ops -> SUBSET Inputs], UploadOK(u)', OwnsAlone(u),
           UNCHANGED <<daemon, store, audit, process, recovering>>
    PROVE  IInv'
<1>1. u \in Tasks /\ u \notin Calls /\ u \notin Ops /\ TypeInv BY TasksApart, Zenon DEF IInv
<1>2. Kept(u)
  <2>1. MemKept(u) /\ InsertKept(u) /\ AuditGrows /\ ProcessKept(u)
    BY <1>1, SameStore, SameAudit, SameProcess, Zenon
  <2> QED BY <2>1, Zenon DEF Kept
<1>3. TypeInv' BY <1>1, Zenon DEF store, process, TypeInv
<1>4. OwnOK(u) /\ InsertsAlone(u) BY <1>1, Zenon DEF OwnOK, InsertsAlone
<1>5. \A p \in Ops : OpOK(p)' BY <1>1, <1>2, QuietOps, Zenon
<1> QED BY <1>1, <1>2, <1>3, <1>4, <1>5, TaskStep, Zenon

\* An upload ends; the directory goes with it if it still owned it.
LEMMA UploadEnds ==
    ASSUME IInv, NEW u \in Uploads, task[u].pc # "idle", Return(u),
           \/ UNCHANGED dirs
           \/ Owner(u) /\ dirs' = [dirs EXCEPT ![task[u].op] = @ \ {task[u].input}],
           transitions' \in {"free", transitions}, transitions' = "free" => transitions \in {"free", u},
           UNCHANGED <<daemon, store, audit, process, recovering>>
    PROVE  IInv'
<1>1. u \in Tasks /\ TypeInv BY TasksApart, Zenon DEF IInv
<1>2. TasksKept(u) /\ task'[u] = Idle /\ task' \in [Tasks -> TaskRecord] BY <1>1, ReturnEnds, Zenon
<1>3. task[u].op \in Ops BY Zenon DEF IInv, UploadOK
<1>4. dirs' \in [Ops -> SUBSET Inputs] /\ DirsKept(u)
  BY <1>1, <1>3, Zenon DEF TypeInv, DirsKept, Yields
<1>5. ~Owner(u)' /\ UploadOK(u)' BY <1>2, IdleIs, Zenon DEF UploadOK, Owner, Live
<1>6. OwnsAlone(u) BY <1>5, Zenon DEF OwnsAlone
<1>7. LockKept(u) BY Zenon DEF LockKept
<1>8. daemon = "up" BY <1>1, BusyIsUp, Zenon
<1> QED BY <1>1, <1>2, <1>4, <1>5, <1>6, <1>7, <1>8, UploadQuiet, Zenon DEF TypeInv

\* The upload is admitted.
LEMMA UploadAdmitStep ==
    ASSUME IInv, NEW u \in Uploads, NEW o \in Ops, NEW i \in Inputs, UploadAdmit(u, o, i)
    PROVE  IInv'
<1> DEFINE r == [Idle EXCEPT !.pc = "admitted", !.op = o, !.input = i]
<1>1. u \in Tasks /\ TypeInv BY TasksApart, Zenon DEF IInv
<1>2. "admitted" \in Pcs BY Zenon DEF Pcs
<1>3. r \in TaskRecord /\ r.pc = "admitted" /\ r.op = o /\ r.input = i
  BY <1>2, IdleIs, Zenon DEF TaskRecord
<1>4. task' = [task EXCEPT ![u] = r] BY Zenon DEF UploadAdmit
<1> HIDE DEF r
<1>5. TasksKept(u) /\ task'[u] = r /\ task' \in [Tasks -> TaskRecord]
  BY <1>1, <1>3, <1>4, Begins, Zenon
<1>6. /\ daemon = "up" /\ mem[o].state = "Preparing" /\ i \in mem[o].pending
      /\ UNCHANGED <<daemon, store, transitions, audit, dirs, process, recovering>>
  BY Zenon DEF UploadAdmit, Ready
<1>7. i \in Declared[o] BY <1>6, ShownRecord, Zenon
<1>8. ~Owner(u)' BY <1>3, <1>5, Zenon DEF Owner, Live
<1>9. UploadOK(u)' BY <1>3, <1>5, <1>6, <1>7, <1>8, Zenon DEF UploadOK, Live, store
<1>10. OwnsAlone(u) /\ LockKept(u) /\ DirsKept(u)
  BY <1>6, <1>8, Zenon DEF OwnsAlone, LockKept, DirsKept
<1> QED BY <1>1, <1>5, <1>6, <1>9, <1>10, UploadQuiet, Zenon DEF TypeInv

\* The upload creates its directory, or finds that it exists.
LEMMA UploadPrepareStep == ASSUME IInv, NEW u \in Uploads, UploadPrepare(u) PROVE IInv'
<1>1. u \in Tasks /\ TypeInv BY TasksApart, Zenon DEF IInv
<1>2. /\ task[u].pc = "admitted"
      /\ UNCHANGED <<daemon, store, transitions, audit, process, recovering>>
  BY Zenon DEF UploadPrepare
<1>3. PICK o \in Ops, i \in Inputs :
        o = task[u].op /\ i = task[u].input /\ mem[o].state # "none" /\ i \in Declared[o]
  BY <1>2, HostOperationsAssumption, Zenon DEF IInv, UploadOK
<1>4. i \in Inputs BY Zenon
<1>5. CASE i \notin dirs[o] /\ dirs' = [dirs EXCEPT ![o] = @ \cup {i}] /\ Goto(u, "copy")
  <2>1. Moves(u, "copy", task[u].kind) /\ task' \in [Tasks -> TaskRecord]
    BY <1>1, <1>5, GotoMoves, Zenon DEF Pcs
  <2>2. i \in mem[o].pending BY <1>3, <1>5, ShownRecord, Zenon
  <2>3. dirs' \in [Ops -> SUBSET Inputs] /\ DirsKept(u) /\ i \in dirs'[o]
    BY <1>1, <1>4, <1>5, Zenon DEF TypeInv, DirsKept
  <2>4. UploadOK(u)' BY <1>2, <1>3, <2>1, <2>2, <2>3, Zenon DEF UploadOK, Moves, Live, store
  <2>5. OwnsAlone(u)
    <3>1. \A v \in Uploads : Owner(v) => task[v].input \in dirs[task[v].op] BY Zenon DEF IInv, UploadOK
    <3> QED BY <1>3, <1>5, <2>1, <3>1, Zenon DEF OwnsAlone, Moves
  <2>6. LockKept(u) BY <1>2, Zenon DEF LockKept
  <2>7. daemon = "up" BY <1>1, <1>2, BusyIsUp, Zenon
  <2> QED BY <1>1, <1>2, <2>1, <2>3, <2>4, <2>5, <2>6, <2>7, UploadQuiet, Zenon DEF Moves, TypeInv
<1>6. CASE Return(u) /\ UNCHANGED dirs BY <1>2, <1>6, UploadEnds, Zenon
<1> QED BY <1>3, <1>5, <1>6, Zenon DEF UploadPrepare

\* The transfer ends early, is refused or succeeds.
LEMMA UploadCopyStep == ASSUME IInv, NEW u \in Uploads, UploadCopy(u) PROVE IInv'
<1>1. u \in Tasks /\ TypeInv BY TasksApart, Zenon DEF IInv
<1>2. /\ task[u].pc = "copy"
      /\ UNCHANGED <<daemon, store, transitions, audit, process, recovering>>
  BY Zenon DEF UploadCopy
<1>3. Owner(u) BY <1>2, Zenon DEF Owner
<1>4. CASE Abandon(u) BY <1>2, <1>3, <1>4, UploadEnds, Zenon DEF Abandon
<1>5. ASSUME NEW pc \in {"fail", "commit"}, Goto(u, pc), UNCHANGED dirs PROVE IInv'
  <2>1. pc \in Pcs BY Zenon DEF Pcs
  <2>2. Moves(u, pc, task[u].kind) /\ task' \in [Tasks -> TaskRecord] BY <1>1, <1>5, <2>1, GotoMoves, Zenon
  <2>3. UploadOK(u) BY Zenon DEF IInv
  <2>4. UploadOK(u)' BY <1>2, <1>3, <1>5, <2>2, <2>3, Zenon DEF UploadOK, Moves, Live, store
  <2>5. OwnsAlone(u) BY <1>3, <2>2, Zenon DEF IInv, OwnInputs, OwnsAlone, Moves
  <2>6. LockKept(u) /\ DirsKept(u) BY <1>2, <1>5, Zenon DEF LockKept, DirsKept
  <2>7. daemon = "up" BY <1>1, <1>2, BusyIsUp, Zenon
  <2> QED BY <1>1, <1>2, <1>5, <2>2, <2>4, <2>5, <2>6, <2>7, UploadQuiet, Zenon DEF Moves, TypeInv
<1> QED BY <1>4, <1>5, Zenon DEF UploadCopy

\* An upload that takes the lock, replaces the record and begins to audit it.
LEMMA UploadStores ==
    ASSUME IInv, NEW u \in Uploads, NEW o \in Ops, o = task[u].op, NEW r \in Records,
           NEW kind \in {"InputCaptured", "Failed"}, Owner(u), transitions = "free",
           transitions' = u, mem[o].state \notin Terminal,
           \/ kind = "Failed" /\ r.state = "Failed" /\ r.pending = mem[o].pending
           \/ /\ kind = "InputCaptured" /\ r.pending = mem[o].pending \ {task[u].input}
              /\ r.state \in {"Preparing", "AwaitingApproval"}
              /\ r.state = "AwaitingApproval" => r.pending = {},
           Store(o, r), Log(u, kind),
           UNCHANGED <<daemon, audit, dirs, process, recovering>>
    PROVE  IInv'
<1>1. u \in Tasks /\ u \notin Ops /\ u \notin Calls /\ TypeInv BY TasksApart, Zenon DEF IInv
<1>2. UploadOK(u) /\ task[u].pc # "idle" BY Zenon DEF IInv, Owner, Live
<1>3. /\ mem[o].state # "none" /\ task[u].input \in Declared[o]
      /\ task[u].input \in mem[o].pending /\ task[u].input \in dirs[o]
  BY <1>2, Zenon DEF UploadOK
<1>4. mem[o].state \notin Late BY <1>3, ShownRecord, Zenon DEF Late
<1>5. kind \in Kinds BY Zenon DEF Kinds
<1>6. Moves(u, "auditing", kind) /\ task' \in [Tasks -> TaskRecord] BY <1>1, <1>5, LogMoves, Zenon
<1>7. /\ disk'[o] = r /\ mem'[o] = r /\ disk' \in [Ops -> Records] /\ mem' \in [Ops -> Records]
      /\ \A p \in Ops : p # o => disk'[p] = disk[p] /\ mem'[p] = mem[p]
  BY <1>1, StoreIs, Zenon
<1>8. Kept(u)
  <2>1. mem[o].state # "Running" /\ r.state # "none" BY <1>4, Zenon DEF Late, Active
  <2>2. \A i \in mem[o].pending : i \in r.pending \/ Yields(u, o, i) BY Zenon DEF Yields
  <2>3. MemKept(u) /\ InsertKept(u) BY <1>1, <1>3, <1>4, <2>1, <2>2, StoreKept, Zenon
  <2>4. LockKept(u) BY Zenon DEF LockKept
  <2>5. DirsKept(u) /\ ProcessKept(u) /\ AuditGrows BY <1>1, SameDirs, SameProcess, SameAudit, Zenon
  <2> QED BY <1>6, <2>3, <2>4, <2>5, Zenon DEF Kept, Moves
<1>9. TypeInv' BY <1>1, <1>6, <1>7, Zenon DEF process, TypeInv
<1>10. UploadOK(u)'
  BY <1>2, <1>3, <1>6, <1>7, Zenon DEF UploadOK, Moves, Live, Owner
<1>11. OwnOK(u) /\ InsertsAlone(u) BY <1>1, <1>10, Zenon DEF OwnOK, InsertsAlone
<1>12. OwnsAlone(u) BY <1>6, Zenon DEF IInv, OwnInputs, OwnsAlone, Moves
<1>13. daemon = "up" BY <1>1, <1>2, BusyIsUp, Zenon
<1>14. OpOK(o)'
  <2>1. task'[o] = task[o] /\ spawns'[o] = spawns[o] /\ child'[o] = child[o]
    BY <1>1, <1>6, TasksApart, Zenon DEF Moves, TasksKept, process
  <2>2. spawns[o] = 0 /\ task[o].pc = "idle" BY <1>3, <1>4, ShownRecord, Zenon
  <2>3. child[o] # "alive" BY <1>3, <1>4, <1>13, <2>2, ShownRecord, Zenon DEF Late, Terminal
  <2>4. Declared[o] \ r.pending \subseteq dirs'[o] /\ r.pending \subseteq Declared[o]
    BY <1>3, ShownRecord, Zenon
  <2>5. r.state # "none" /\ (r.state \in {"AwaitingApproval"} \cup Active => r.pending = {})
    BY Zenon DEF Active
  <2> QED BY <1>1, <1>8, <2>1, <2>2, <2>3, <2>4, <2>5, StoredOp, Zenon
<1>15. \A p \in Ops : OpOK(p)' BY <1>1, <1>7, <1>8, <1>14, OtherOps, Zenon
<1> QED BY <1>1, <1>8, <1>9, <1>11, <1>12, <1>13, <1>15, TaskStep, Zenon

\* The input is captured, or is no longer wanted.
LEMMA UploadCommitStep == ASSUME IInv, NEW u \in Uploads, UploadCommit(u) PROVE IInv'
<1>1. u \in Tasks /\ TypeInv BY TasksApart, Zenon DEF IInv
<1>2. /\ task[u].pc = "commit" /\ transitions = "free"
      /\ UNCHANGED <<daemon, audit, process, recovering>>
  BY Zenon DEF UploadCommit
<1>3. PICK o \in Ops : o = task[u].op BY <1>2, Zenon DEF IInv, UploadOK
<1>4. Owner(u) BY <1>2, Zenon DEF Owner
<1>5. CASE /\ mem[o].state = "Preparing" /\ Store(o, Captured(mem[o], task[u].input))
           /\ Log(u, "InputCaptured") /\ transitions' = u /\ UNCHANGED dirs
  <2> DEFINE r == Captured(mem[o], task[u].input)
  <2>1. mem[o] \in Records BY <1>1, Zenon DEF TypeInv
  <2>2. /\ r \in Records /\ r.pending = mem[o].pending \ {task[u].input}
        /\ r.state = IF r.pending = {} THEN "AwaitingApproval" ELSE mem[o].state
    BY <2>1, Zenon DEF Captured, Records, States
  <2>3. Store(o, r) BY <1>5, Zenon
  <2> HIDE DEF r
  <2> QED BY <1>2, <1>3, <1>4, <1>5, <2>2, <2>3, UploadStores, Zenon DEF Terminal
<1>6. CASE Abandon(u) /\ UNCHANGED <<store, transitions>>
  BY <1>2, <1>4, <1>6, UploadEnds, Zenon DEF Abandon
<1> QED BY <1>3, <1>5, <1>6, Zenon DEF UploadCommit

\* The capture or the failure is audited.
LEMMA UploadReturnsStep == ASSUME IInv, NEW u \in Uploads, UploadReturns(u) PROVE IInv'
<1>1. /\ task[u].pc \in {"audited", "unaudited"} /\ transitions' = "free"
      /\ UNCHANGED <<daemon, store, audit, process, recovering>>
  BY Zenon DEF UploadReturns
<1>2. transitions = u BY <1>1, Zenon DEF IInv, UploadOK, Live
<1>3. CASE task[u].kind = "Failed" /\ Abandon(u)
  <2>1. Owner(u) BY <1>1, <1>3, Zenon DEF Owner, Live
  <2> QED BY <1>1, <1>2, <1>3, <2>1, UploadEnds, Zenon DEF Abandon
<1>4. CASE Return(u) /\ UNCHANGED dirs BY <1>1, <1>2, <1>4, UploadEnds, Zenon
<1> QED BY <1>3, <1>4, Zenon DEF UploadReturns

\* fail_operation by an upload.
LEMMA UploadFailsStep == ASSUME IInv, NEW u \in Uploads, FailOperation(u) PROVE IInv'
<1>1. u \in Tasks /\ TypeInv BY TasksApart, Zenon DEF IInv
<1>2. /\ task[u].pc = "fail" /\ transitions = "free"
      /\ UNCHANGED <<daemon, audit, process, recovering>>
  BY Zenon DEF FailOperation
<1>3. PICK o \in Ops : o = task[u].op BY <1>2, Zenon DEF IInv, UploadOK
<1>4. Owner(u) BY <1>2, Zenon DEF Owner
<1>5. CASE Return(u) /\ dirs' = [dirs EXCEPT ![o] = @ \ {task[u].input}] /\ UNCHANGED <<store, transitions>>
  BY <1>2, <1>3, <1>4, <1>5, UploadEnds, Zenon
<1>6. CASE /\ mem[o].state \notin Terminal /\ Store(o, At(mem[o], "Failed")) /\ Log(u, "Failed")
           /\ transitions' = u /\ UNCHANGED dirs
  <2> DEFINE r == At(mem[o], "Failed")
  <2>1. mem[o] \in Records /\ "Failed" \in States BY <1>1, Zenon DEF TypeInv, States, Terminal
  <2>2. r \in Records /\ r.state = "Failed" /\ r.pending = mem[o].pending BY <2>1, AtIs, Zenon
  <2>3. Store(o, r) BY <1>6, Zenon
  <2> HIDE DEF r
  <2> QED BY <1>2, <1>3, <1>4, <1>6, <2>2, <2>3, UploadStores, Zenon
<1> QED BY <1>3, <1>5, <1>6, Zenon DEF FailOperation

-----------------------------------------------------------------------------
(* The host process, the end of the daemon, and HostOperationService::open. *)

\* A process that ends, or whose pipes close, changes nothing else.
LEMMA ChildStep ==
    ASSUME IInv, NEW o \in Ops, Exit(o) \/ PipesClose(o) PROVE IInv'
<1>1. /\ TypeInv
      /\ UNCHANGED <<daemon, store, transitions, task, audit, dirs, spawns, recovering>>
  BY Zenon DEF IInv, Exit, PipesClose
<1>2. /\ child' \in [Ops -> {"none", "alive", "exited", "gone"}]
      /\ \A p \in Ops : child'[p] = "alive" => child[p] = "alive"
  BY <1>1, KillEnds, Zenon DEF Exit, PipesClose, TypeInv
<1>3. TypeInv' BY <1>1, <1>2, Zenon DEF TypeInv, store
<1>4. \A p \in Ops : kinds(p)' = kinds(p) BY <1>1, SameAudit, Zenon
<1>5. ASSUME NEW c \in Calls PROVE CallOK(c)'
  <2>1. CallOK(c) BY Zenon DEF IInv
  <2>2. task[c].pc = "audited" => task[c].op \in Ops BY <2>1, Zenon DEF CallOK
  <2> QED BY <1>1, <2>1, <2>2, Zenon DEF CallOK, store, kinds
<1>6. ASSUME NEW u \in Uploads PROVE UploadOK(u)'
  <2>1. UploadOK(u) /\ Owner(u)' = Owner(u) BY <1>1, Zenon DEF IInv, Owner
  <2> QED BY <1>1, <2>1, Zenon DEF UploadOK, store
<1>7. ASSUME NEW p \in Ops PROVE RunOK(p)' /\ OpOK(p)'
  <2>1. RunOK(p) /\ OpOK(p) /\ Attended(p)' = Attended(p) BY <1>1, Zenon DEF IInv, Attended
  <2>2. RunOK(p)' BY <1>1, <1>2, <1>4, <2>1, Zenon DEF RunOK, store
  <2>3. OpOK(p)' BY <1>1, <1>2, <1>4, <2>1, Zenon DEF OpOK, store
  <2> QED BY <2>2, <2>3, Zenon
<1>8. OwnInputs' /\ OwnInserts' BY <1>1, Zenon DEF IInv, OwnInputs, OwnInserts, Owner
<1>9. DownInv' /\ RestInv' BY <1>1, Zenon DEF IInv, DownInv, RestInv, store
<1> QED BY <1>3, <1>5, <1>6, <1>7, <1>8, <1>9, Zenon DEF IInv

\* With no task, only the records, the directories and the processes matter.
LEMMA AtRest ==
    ASSUME TypeInv', \A t \in Tasks : task'[t].pc = "idle", \A p \in Ops : OpOK(p)', RestInv'
    PROVE  IInv'
<1>1. \A c \in Calls : CallOK(c)' BY TasksApart, Zenon DEF CallOK, Live
<1>2. \A u \in Uploads : UploadOK(u)' BY TasksApart, Zenon DEF UploadOK, Owner, Live
<1>3. \A o \in Ops : RunOK(o)' BY TasksApart, Zenon DEF RunOK, Live
<1>4. OwnInputs' /\ OwnInserts' BY TasksApart, Zenon DEF OwnInputs, OwnInserts, Owner, Live
<1>5. DownInv' BY Zenon DEF DownInv
<1> QED BY <1>1, <1>2, <1>3, <1>4, <1>5, Zenon DEF IInv

\* The daemon dies: what it showed is gone, what it stored and started is not.
LEMMA CrashStep == ASSUME IInv, Crash PROVE IInv'
<1>1. /\ TypeInv /\ daemon' = "down" /\ recovering' = "free" /\ transitions' = "free"
      /\ mem' = [o \in Ops |-> NoRecord] /\ task' = [t \in Tasks |-> Idle]
      /\ UNCHANGED <<disk, audit, dirs, process>>
  BY Zenon DEF IInv, Crash
<1>2. NoRecord \in Records BY Zenon DEF NoRecord, Records, States
<1>3. TypeInv' BY <1>1, <1>2, IdleIs, Zenon DEF TypeInv, process
<1>4. \A t \in Tasks : task'[t].pc = "idle" BY <1>1, IdleIs, Zenon
<1>5. ASSUME NEW p \in Ops PROVE OpOK(p)'
  <2>1. OpOK(p) /\ RunOK(p) /\ p \in Tasks BY TasksApart, Zenon DEF IInv
  <2>2. kinds(p)' = kinds(p) BY <1>1, SameAudit, Zenon
  <2>3. ASSUME child[p] = "alive" PROVE disk[p].state = "Interrupted" \/ disk[p].state \in Active
    <3>1. CASE task[p].pc = "idle" BY <2>1, <2>3, <3>1, Zenon DEF OpOK
    <3>2. CASE task[p].pc # "idle"
      <4>1. mem[p].state \in Active BY <2>1, <2>3, <3>2, Zenon DEF RunOK, Attended, Active
      <4>2. mem[p] = disk[p] BY <4>1, ShownRecord, Zenon DEF Active
      <4> QED BY <4>1, <4>2, Zenon
    <3> QED BY <3>1, <3>2, Zenon
  <2> QED BY <1>1, <1>4, <2>1, <2>2, <2>3, Zenon DEF OpOK, process
<1>6. RestInv' BY <1>1, Zenon DEF RestInv
<1> QED BY <1>3, <1>4, <1>5, <1>6, AtRest, Zenon

\* Recovery begins.
LEMMA OpenStep == ASSUME IInv, Open PROVE IInv'
<1>1. /\ TypeInv /\ daemon = "down" /\ daemon' = "opening"
      /\ UNCHANGED <<store, transitions, task, audit, dirs, process, recovering>>
  BY Zenon DEF IInv, Open
<1>2. TypeInv' BY <1>1, Zenon DEF TypeInv, store, process
<1>3. \A t \in Tasks : task'[t].pc = "idle" BY <1>1, Zenon DEF IInv, DownInv
<1>4. ASSUME NEW p \in Ops PROVE OpOK(p)'
  <2>1. OpOK(p) /\ kinds(p)' = kinds(p) BY <1>1, SameAudit, Zenon DEF IInv
  <2> QED BY <1>1, <2>1, Zenon DEF OpOK, store, process
<1>5. RestInv' BY <1>1, Zenon DEF IInv, RestInv, store
<1> QED BY <1>2, <1>3, <1>4, <1>5, AtRest, Zenon

\* An operation that was starting or running is interrupted.
LEMMA OpenInterruptStep == ASSUME IInv, NEW o \in Ops, OpenInterrupt(o) PROVE IInv'
<1> DEFINE r == At(disk[o], "Interrupted")
<1>1. /\ TypeInv /\ daemon = "opening" /\ disk[o].state \in Active
      /\ disk' = [disk EXCEPT ![o] = r] /\ recovering' = o
      /\ UNCHANGED <<daemon, mem, transitions, task, audit, dirs, process>>
  BY Zenon DEF IInv, OpenInterrupt
<1>2. disk[o] \in Records /\ "Interrupted" \in States BY <1>1, Zenon DEF TypeInv, States, Terminal
<1>3. r \in Records /\ r.state = "Interrupted" /\ r.pending = disk[o].pending BY <1>2, AtIs, Zenon
<1> HIDE DEF r
<1>4. disk' \in [Ops -> Records] /\ disk'[o] = r /\ \A p \in Ops : p # o => disk'[p] = disk[p]
  BY <1>1, <1>3, Zenon DEF TypeInv
<1>5. TypeInv' BY <1>1, <1>4, Zenon DEF TypeInv, process
<1>6. \A t \in Tasks : task'[t].pc = "idle" BY <1>1, Zenon DEF IInv, DownInv
<1>7. \A p \in Ops : mem[p] = NoRecord BY <1>1, Zenon DEF IInv, RestInv
<1>8. ASSUME NEW p \in Ops PROVE OpOK(p)'
  <2>1. OpOK(p) /\ kinds(p)' = kinds(p) BY <1>1, SameAudit, Zenon DEF IInv
  <2>2. CASE p = o
    BY <1>1, <1>3, <1>4, <1>7, <2>1, <2>2, Zenon DEF OpOK, process, Late, Active, Terminal
  <2>3. CASE p # o BY <1>1, <1>4, <2>1, <2>3, Zenon DEF OpOK, process
  <2> QED BY <2>2, <2>3, Zenon
<1>9. RestInv' BY <1>1, <1>7, Zenon DEF RestInv
<1> QED BY <1>5, <1>6, <1>8, <1>9, AtRest, Zenon

\* The interruption is audited.
LEMMA OpenAuditStep == ASSUME IInv, OpenAudit PROVE IInv'
<1>1. /\ TypeInv /\ daemon = "opening" /\ recovering \in Ops /\ recovering' = "free"
      /\ UNCHANGED <<daemon, store, transitions, task, dirs, process>>
  BY Zenon DEF IInv, OpenAudit, TypeInv
<1>2. PICK o \in Ops : o = recovering BY <1>1, Zenon
<1> DEFINE e == [seq |-> next_audit_sequence(o), kind |-> "Interrupted"]
<1>3. next_audit_sequence(o) \in Nat
  <2>1. audit[o] \in Seq(Entry) BY <1>1, Zenon DEF TypeInv
  <2>2. CASE audit[o] = << >> BY <2>2, Zenon DEF next_audit_sequence
  <2>3. CASE audit[o] # << >>
    <3>1. Len(audit[o]) \in 1 .. Len(audit[o]) BY <2>1, <2>3
    <3>2. audit[o][Len(audit[o])] \in Entry BY <2>1, <3>1
    <3> QED BY <2>3, <3>2 DEF next_audit_sequence, Entry
  <2> QED BY <2>2, <2>3, Zenon
<1>4. e \in Entry BY <1>3, Zenon DEF Entry, AuditKinds, Kinds
<1>5. audit' = [audit EXCEPT ![o] = Append(@, e)] BY <1>2, Zenon DEF OpenAudit
<1> HIDE DEF e
<1>6. AuditGrows /\ audit' \in [Ops -> Seq(Entry)] BY <1>1, <1>4, <1>5, AppendGrows, Zenon
<1>7. TypeInv' BY <1>1, <1>6, Zenon DEF TypeInv, store, process
<1>8. \A t \in Tasks : task'[t].pc = "idle" BY <1>1, Zenon DEF IInv, DownInv
<1>9. ASSUME NEW p \in Ops PROVE OpOK(p)'
  <2>1. OpOK(p) /\ kinds(p) \subseteq kinds(p)' BY <1>6, Zenon DEF IInv, AuditGrows
  <2> QED BY <1>1, <2>1, Zenon DEF OpOK, store, process
<1>10. RestInv' BY <1>1, Zenon DEF IInv, RestInv, store
<1> QED BY <1>7, <1>8, <1>9, <1>10, AtRest, Zenon

\* The records are shown and the daemon serves.
LEMMA OpenDoneStep == ASSUME IInv, OpenDone PROVE IInv'
<1>1. /\ TypeInv /\ daemon = "opening" /\ daemon' = "up" /\ mem' = disk
      /\ \A o \in Ops : disk[o].state \notin Active
      /\ UNCHANGED <<disk, transitions, task, audit, dirs, process, recovering>>
  BY Zenon DEF IInv, OpenDone
<1>2. TypeInv' BY <1>1, Zenon DEF TypeInv, process
<1>3. \A t \in Tasks : task'[t].pc = "idle" BY <1>1, Zenon DEF IInv, DownInv
<1>4. ASSUME NEW p \in Ops PROVE OpOK(p)'
  <2>1. OpOK(p) /\ kinds(p)' = kinds(p) BY <1>1, SameAudit, Zenon DEF IInv
  <2> QED BY <1>1, <2>1, Zenon DEF OpOK, process
<1>5. RestInv' BY <1>1, Zenon DEF RestInv
<1> QED BY <1>2, <1>3, <1>4, <1>5, AtRest, Zenon

-----------------------------------------------------------------------------
\* A new daemon has no records and no tasks.
LEMMA InitInv == ASSUME Init PROVE IInv
<1>1. NoRecord \in Records /\ NoRecord.state = "none" /\ NoRecord.pending = {}
  BY Zenon DEF NoRecord, Records, States
<1>2. \A t \in Tasks : task[t] = Idle BY Zenon DEF Init
<1>3. \A o \in Ops : disk[o] = NoRecord /\ mem[o] = NoRecord /\ spawns[o] = 0 /\ child[o] = "none"
  BY Zenon DEF Init
<1>4. TypeInv
  <2>1. << >> \in Seq(Entry) OBVIOUS
  <2> QED BY <1>1, <2>1, IdleIs, Zenon DEF Init, TypeInv
<1>5. \A c \in Calls : CallOK(c) BY <1>2, IdleIs, TasksApart, Zenon DEF CallOK, Live
<1>6. \A u \in Uploads : UploadOK(u) BY <1>2, IdleIs, TasksApart, Zenon DEF UploadOK, Owner, Live
<1>7. \A o \in Ops : RunOK(o) BY <1>2, IdleIs, TasksApart, Zenon DEF RunOK, Live
<1>8. ASSUME NEW o \in Ops PROVE OpOK(o)
  <2>1. disk[o] = NoRecord /\ mem[o] = NoRecord /\ child[o] = "none" /\ task[o].pc = "idle"
    BY <1>2, <1>3, IdleIs, TasksApart, Zenon
  <2>2. spawns[o] <= 1 /\ spawns[o] # 1 /\ spawns[o] = 0 /\ child[o] # "alive" BY <1>3
  <2>3. NoRecord.state \notin {"AwaitingApproval"} \cup Active BY <1>1, Zenon DEF Active
  <2> QED BY <1>1, <2>1, <2>2, <2>3, Zenon DEF OpOK
<1>9. OwnInputs /\ OwnInserts
  BY <1>2, IdleIs, TasksApart, Zenon DEF OwnInputs, OwnInserts, Owner, Live
<1>10. DownInv /\ RestInv BY Zenon DEF Init, DownInv, RestInv
<1> QED BY <1>4, <1>5, <1>6, <1>7, <1>8, <1>9, <1>10, Zenon DEF IInv

\* Every step keeps the invariant.
LEMMA NextInv == ASSUME IInv, Next PROVE IInv'
<1>1. ASSUME NEW c \in Calls, CallStep(c) \/ CallProgress(c) \/ Drop(c) PROVE IInv'
  BY <1>1, RequestStep, CancelStep, ResolveStep, RequestInsertStep, CallReturnsStep, DropStep, Zenon
  DEF CallStep, CallProgress
<1>2. ASSUME NEW u \in Uploads, UploadStep(u) \/ UploadProgress(u) PROVE IInv'
  BY <1>2, UploadAdmitStep, UploadPrepareStep, UploadCopyStep, UploadCommitStep,
     UploadReturnsStep, UploadFailsStep, Zenon DEF UploadStep, UploadProgress
<1>3. ASSUME NEW o \in Ops, RunProgress(o) \/ Exit(o) \/ PipesClose(o) PROVE IInv'
  BY <1>3, RunStartStep, RunRecordStep, RunStartedStep, RunWaitStep, RunDrainStep,
     RunFinishStep, RunEndsStep, RunFailsStep, ChildStep, Zenon DEF RunProgress
<1>4. ASSUME NEW t \in Tasks, AuditProgress(t) PROVE IInv'
  BY <1>4, AuditLockStep, AuditReadStep, AuditAppendStep, Zenon DEF AuditProgress
<1>5. CASE Recovery \/ Crash
  BY <1>5, OpenStep, OpenAuditStep, OpenDoneStep, OpenInterruptStep, CrashStep, Zenon DEF Recovery
<1> QED BY <1>1, <1>2, <1>3, <1>4, <1>5, Zenon DEF Next

\* A step that changes no variable keeps the invariant.
LEMMA StutterInv == ASSUME IInv, UNCHANGED vars PROVE IInv'
<1>1. UNCHANGED <<daemon, disk, mem, transitions, task, audit, dirs, child, spawns, recovering>>
  BY Zenon DEF vars
<1>2. TypeInv' /\ OwnInputs' /\ OwnInserts' /\ DownInv' /\ RestInv'
  BY <1>1, Zenon DEF IInv, TypeInv, OwnInputs, OwnInserts, DownInv, RestInv, Owner
<1>3. \A c \in Calls : CallOK(c)' BY <1>1, Zenon DEF IInv, CallOK, kinds
<1>4. \A u \in Uploads : UploadOK(u)' BY <1>1, Zenon DEF IInv, UploadOK, Owner
<1>5. ASSUME NEW o \in Ops PROVE RunOK(o)' /\ OpOK(o)'
  <2>1. RunOK(o) /\ OpOK(o) /\ kinds(o)' = kinds(o) BY <1>1, Zenon DEF IInv, kinds
  <2>2. RunOK(o)' BY <1>1, <2>1, Zenon DEF RunOK, Attended
  <2>3. OpOK(o)' BY <1>1, <2>1, Zenon DEF OpOK
  <2> QED BY <2>2, <2>3, Zenon
<1> QED BY <1>2, <1>3, <1>4, <1>5, Zenon DEF IInv

\* The invariant holds of every execution: with any number of operations, inputs, calls and uploads,
\* in any order, with the daemon killed at any step.
THEOREM HostOperationsInvariant == Spec => []IInv
<1>1. IInv /\ [Next]_vars => IInv' BY NextInv, StutterInv, Zenon
<1> QED BY <1>1, InitInv, PTL DEF Spec

\* Every host process was started once, for an operation whose approval is in the audit log:
\* run_operation is spawned by resolve only, after append_audit.
THEOREM HostOperationsApproved == Spec => []RunsOnceApproved
<1>1. IInv => RunsOnceApproved BY Zenon DEF IInv, OpOK, RunsOnceApproved
<1> QED BY <1>1, HostOperationsInvariant, PTL

\* An input that counts as captured has its directory: serve_input removes only what it created and
\* did not commit.
THEOREM HostOperationsInputs == Spec => []CapturedInputsKept
<1>1. ASSUME IInv PROVE CapturedInputsKept BY <1>1, Zenon DEF IInv, OpOK, CapturedInputsKept
<1> QED BY <1>1, HostOperationsInvariant, PTL

\* An operation that is shown as finished has no process, unless it was interrupted:
\* run_operation kills or reaps the child before it records the outcome.
THEOREM HostOperationsFinished == Spec => []FinishedHasNoProcess
<1>1. ASSUME IInv, NEW o \in Ops, mem[o].state \in Terminal \ {"Interrupted"}, child[o] = "alive"
      PROVE  FALSE
  <2>1. RunOK(o) /\ mem[o].state # "none" BY <1>1, Zenon DEF IInv, Terminal
  <2>2. mem[o] = disk[o] /\ (task[o].pc = "idle" => daemon # "up")
    BY <1>1, <2>1, ShownRecord, Zenon
  <2>3. CASE task[o].pc = "idle"
    <3>1. mem[o] = NoRecord BY <1>1, <2>2, <2>3, Zenon DEF IInv, RestInv
    <3> QED BY <2>1, <3>1 DEF NoRecord
  <2>4. CASE task[o].pc # "idle"
    BY <1>1, <2>1, <2>4, Zenon DEF RunOK, Attended, Terminal
  <2> QED BY <2>3, <2>4, Zenon
<1>2. IInv => FinishedHasNoProcess BY <1>1, Zenon DEF FinishedHasNoProcess
<1> QED BY <1>2, HostOperationsInvariant, PTL

-----------------------------------------------------------------------------
(* Action properties.                                                      *)

\* No terminal record is overwritten.
Final == \A o \in Ops : disk[o].state \in Terminal => disk'[o] = disk[o]

\* Replacing a record that is shown and not terminal overwrites no terminal one.
LEMMA StoreSpares ==
    ASSUME IInv, NEW p \in Ops, NEW r, Store(p, r), mem[p].state # "none", mem[p].state \notin Terminal
    PROVE  Final
<1>1. mem[p] = disk[p] BY ShownRecord, Zenon
<1>2. disk' = [disk EXCEPT ![p] = r] /\ disk \in [Ops -> Records] BY Zenon DEF Store, IInv, TypeInv
<1> QED BY <1>1, <1>2, Zenon DEF Final

\* No step overwrites a terminal record.
LEMMA NextFinal == ASSUME IInv, Next PROVE Final
<1>1. UNCHANGED disk => Final BY Zenon DEF Final
<1>2. disk \in [Ops -> Records] BY Zenon DEF IInv, TypeInv
<1>3. ASSUME NEW c \in Calls, CallStep(c) \/ CallProgress(c) \/ Drop(c) PROVE Final
  <2>1. ASSUME NEW o \in Ops, Request(c, o) PROVE Final
    <3>1. disk[o].state \notin Terminal BY <2>1 DEF Request, NoRecord, Terminal
    <3>2. disk' = [disk EXCEPT ![o] = Created(o)] BY <2>1, Zenon DEF Request
    <3> QED BY <1>2, <3>1, <3>2, Zenon DEF Final
  <2>2. ASSUME NEW o \in Ops, Cancel(c, o) PROVE Final
    <3>1. CASE UNCHANGED store BY <1>1, <3>1, Zenon DEF store
    <3>2. CASE /\ mem[o].state \in {"Preparing", "AwaitingApproval", "Starting"}
               /\ Store(o, At(mem[o], "Canceled"))
      BY <3>2, StoreSpares, Zenon DEF Terminal
    <3> QED BY <2>2, <3>1, <3>2, Zenon DEF Cancel
  <2>3. ASSUME NEW o \in Ops, NEW kind, Resolve(c, o, kind) PROVE Final
    BY <2>3, StoreSpares, Zenon DEF Resolve, Terminal
  <2>4. CASE CallProgress(c) \/ Drop(c)
    BY <1>1, <2>4, Zenon DEF CallProgress, RequestInsert, CallReturns, Drop, store
  <2> QED BY <1>3, <2>1, <2>2, <2>3, <2>4, Zenon DEF CallStep
<1>4. ASSUME NEW t \in Uploads \cup Ops, FailOperation(t) PROVE Final
  <2>1. task[t].pc = "fail" BY <1>4, Zenon DEF FailOperation
  <2>2. task[t].op \in Ops /\ mem[task[t].op].state # "none"
    BY <2>1, Zenon DEF IInv, UploadOK, RunOK, Late, Active, Terminal
  <2>3. CASE UNCHANGED store BY <1>1, <2>3, Zenon DEF store
  <2>4. CASE mem[task[t].op].state \notin Terminal /\ Store(task[t].op, At(mem[task[t].op], "Failed"))
    BY <2>2, <2>4, StoreSpares, Zenon
  <2> QED BY <1>4, <2>3, <2>4, Zenon DEF FailOperation
<1>5. ASSUME NEW u \in Uploads, UploadStep(u) \/ UploadProgress(u) PROVE Final
  <2>1. CASE UploadCommit(u)
    <3>1. task[u].op \in Ops BY <2>1, Zenon DEF IInv, UploadOK, UploadCommit
    <3>2. CASE UNCHANGED store BY <1>1, <3>2, Zenon DEF store
    <3>3. CASE /\ mem[task[u].op].state = "Preparing"
               /\ Store(task[u].op, Captured(mem[task[u].op], task[u].input))
      BY <3>1, <3>3, StoreSpares, Zenon DEF Terminal
    <3> QED BY <2>1, <3>2, <3>3, Zenon DEF UploadCommit
  <2>2. CASE UploadStep(u) \/ UploadPrepare(u) \/ UploadCopy(u) \/ UploadReturns(u)
    BY <1>1, <2>2, Zenon DEF UploadStep, UploadAdmit, UploadPrepare, UploadCopy, UploadReturns,
       store
  <2> QED BY <1>4, <1>5, <2>1, <2>2, Zenon DEF UploadProgress
<1>6. ASSUME NEW o \in Ops, RunProgress(o) \/ Exit(o) \/ PipesClose(o) PROVE Final
  <2>1. CASE RunRecord(o)
    <3>1. mem[o].state = "Starting" BY <2>1, Zenon DEF IInv, RunOK, RunRecord
    <3>2. CASE UNCHANGED store BY <1>1, <3>2, Zenon DEF store
    <3>3. CASE Store(o, At(mem[o], "Running")) BY <3>1, <3>3, StoreSpares, Zenon DEF Terminal
    <3> QED BY <2>1, <3>2, <3>3, Zenon DEF RunRecord
  <2>2. CASE RunFinish(o)
    <3>1. mem[o].state = "Running" BY <2>2, Zenon DEF IInv, RunOK, RunFinish
    <3>2. CASE UNCHANGED store BY <1>1, <3>2, Zenon DEF store
    <3>3. ASSUME NEW s, Store(o, At(mem[o], s)) PROVE Final BY <3>1, <3>3, StoreSpares, Zenon DEF Terminal
    <3> QED BY <2>2, <3>2, <3>3, Zenon DEF RunFinish
  <2>3. CASE \/ RunStart(o) \/ RunStarted(o) \/ RunWait(o) \/ RunDrain(o) \/ RunEnds(o)
             \/ Exit(o) \/ PipesClose(o)
    BY <1>1, <2>3, Zenon DEF RunStart, RunStarted, RunWait, RunDrain, RunEnds, Exit, PipesClose, store
  <2> QED BY <1>4, <1>6, <2>1, <2>2, <2>3, Zenon DEF RunProgress
<1>7. ASSUME NEW t \in Tasks, AuditProgress(t) PROVE Final
  BY <1>1, <1>7, Zenon DEF AuditProgress, AuditLock, AuditRead, AuditAppend, store
<1>8. CASE Recovery \/ Crash
  <2>1. ASSUME NEW o \in Ops, OpenInterrupt(o) PROVE Final
    BY <1>2, <2>1, Zenon DEF OpenInterrupt, Final, Active, Terminal
  <2>2. CASE Open \/ OpenAudit \/ OpenDone \/ Crash
    BY <1>1, <2>2, Zenon DEF Open, OpenAudit, OpenDone, Crash, store
  <2> QED BY <1>8, <2>1, <2>2, Zenon DEF Recovery
<1> QED BY <1>3, <1>5, <1>6, <1>7, <1>8, Zenon DEF Next

\* A process is started for an operation that is Starting only.
Starts == \A o \in Ops : spawns'[o] # spawns[o] => disk[o].state = "Starting"

\* Only run_operation starts a process, for an operation that is Starting.
LEMMA NextStarts == ASSUME IInv, Next PROVE Starts
<1>1. UNCHANGED spawns => Starts BY Zenon DEF Starts
<1>2. ASSUME NEW o \in Ops, RunStart(o) PROVE Starts
  <2>1. CASE UNCHANGED process BY <1>1, <2>1, Zenon DEF process
  <2>2. CASE mem[o].state = "Starting" /\ spawns' = [spawns EXCEPT ![o] = @ + 1]
    <3>1. disk[o].state = "Starting" BY <2>2, ShownRecord, Zenon
    <3> QED BY <2>2, <3>1, Zenon DEF Starts, IInv, TypeInv
  <2> QED BY <1>2, <2>1, <2>2, Zenon DEF RunStart
<1>3. ASSUME NEW c \in Calls, CallStep(c) \/ CallProgress(c) \/ Drop(c) PROVE UNCHANGED spawns
  BY <1>3, Zenon DEF CallStep, Request, Cancel, Resolve, CallProgress, RequestInsert, CallReturns,
     Drop, process
<1>4. ASSUME NEW u \in Uploads, UploadStep(u) \/ UploadProgress(u) PROVE UNCHANGED spawns
  BY <1>4, Zenon DEF UploadStep, UploadAdmit, UploadProgress, UploadPrepare, UploadCopy,
     UploadCommit,
     UploadReturns, FailOperation, process
<1>5. ASSUME NEW o \in Ops,
             \/ RunRecord(o) \/ RunStarted(o) \/ RunWait(o) \/ RunDrain(o) \/ RunFinish(o)
             \/ RunEnds(o) \/ FailOperation(o) \/ Exit(o) \/ PipesClose(o)
      PROVE  UNCHANGED spawns
  BY <1>5, Zenon DEF RunRecord, RunStarted, RunWait, RunDrain, RunFinish, RunEnds, FailOperation, Exit,
     PipesClose, process
<1>6. ASSUME NEW t \in Tasks, AuditProgress(t) PROVE UNCHANGED spawns
  BY <1>6, Zenon DEF AuditProgress, AuditLock, AuditRead, AuditAppend, process
<1>7. CASE Recovery \/ Crash
  <2>1. UNCHANGED spawns
    BY <1>7, Zenon DEF Recovery, OpenInterrupt, Open, OpenAudit, OpenDone, Crash, process
  <2> QED BY <1>1, <2>1, Zenon
<1> QED BY <1>1, <1>2, <1>3, <1>4, <1>5, <1>6, <1>7, Zenon DEF Next, RunProgress

\* A durable terminal state is never overwritten, by no interleaving of cancel, run_operation,
\* fail_operation and the recovery in open.
THEOREM HostOperationsFinal == Spec => TerminalIsFinal
<1>1. IInv /\ [Next]_vars => [Final]_vars BY NextFinal, Zenon
<1> QED BY <1>1, HostOperationsInvariant, PTL DEF Spec, TerminalIsFinal, Final

\* A process is started from Starting only: a cancellation that was recorded first prevents it.
THEOREM HostOperationsStarts == Spec => StartsFromStarting
<1>1. IInv /\ [Next]_vars => [Starts]_vars BY NextStarts, Zenon
<1> QED BY <1>1, HostOperationsInvariant, PTL DEF Spec, StartsFromStarting, Starts

\* What a client is shown is on disk: every writer saves before it replaces the record it shows.
THEOREM HostOperationsDurable == Spec => []ShownIsDurable
<1>1. IInv => ShownIsDurable BY Zenon DEF IInv, OpOK, ShownIsDurable
<1> QED BY <1>1, HostOperationsInvariant, PTL

=============================================================================
