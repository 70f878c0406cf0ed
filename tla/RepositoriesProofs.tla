------------------------- MODULE RepositoriesProofs -------------------------
(***************************************************************************)
(* Proofs about mediated pushes, for every number of pushes, refs,         *)
(* configurations and handlers: a status Published is true, nothing is     *)
(* pushed without consent, no update of others is lost, and what was       *)
(* rejected stays out.                                                     *)
(*                                                                         *)
(* The invariant has one part per idea: what each handler relies on at its *)
(* step (TaskOK: who holds the lock of the store, that nothing is decided  *)
(* about a push being received, that publication presupposes consent, what *)
(* a publication knows about the upstream), what holds of a push (PushOK), *)
(* that a push being received is in nobody else's hands (Alone), that a    *)
(* rejection removes the refs under the lock before it is recorded, so that*)
(* no publication is between its look at the refs and its push (RejectInv),*)
(* and that the upstream has an object of a push only where it landed      *)
(* (UpstreamInv).                                                          *)
(*                                                                         *)
(* Nearly every step is one of one handler, on its push; TaskStep says when*)
(* such a step keeps the invariant, and each action is shown to be one.    *)
(***************************************************************************)
EXTENDS Repositories, TLAPS

Objects == Pushes \cup Foreign

\* What a status, the flags of a record and what a task has read are made of.
Values == Refs \cup Terminal \cup {"none", "ApprovalRequired", "absent", "failed", "postponed", "refreshed"}

Expected == [Refs -> Objects] \cup {<<>>}

PushRecord == [refs : SUBSET Refs, expected : Expected, retained : BOOLEAN, bases : BOOLEAN,
               status : Values, record : SUBSET Values, claim : BOOLEAN]

Jobs == {"idle", "receive", "approve", "postpone", "reject", "publish", "refresh"}

Pcs == {"done", "lock", "fetch", "version", "served", "stage", "relay", "decide", "retain", "await", "create",
        "undo", "clean", "report", "prefetch", "compare", "push", "observe", "refetch", "reversion", "finish",
        "read", "claim", "write", "refs", "bases", "transition", "check", "remove",
        "unretain", "unbase", "complete", "release", "fail", "mark", "unclaim"}

TaskRecord == [job : Jobs, pc : Pcs, push : Pushes \cup {""}, saw : SUBSET Values]

TypeInv ==
    /\ upstream \in [Refs -> Objects] /\ mirror \in [Refs -> Objects]
    /\ config \in Configs
    /\ push \in [Pushes -> PushRecord]
    /\ task \in [Workers -> TaskRecord]
    /\ lock \in Workers \cup {0}
    /\ resuming \subseteq Pushes
    /\ landed \in [Pushes -> SUBSET Refs]
    /\ consent \in [Pushes -> BOOLEAN]

BeforePush == {"prefetch", "compare", "push", "observe"}
AfterPush == {"refetch", "reversion", "finish"}

\* Pcs of a rejection that has removed the refs.
Removed == {"bases", "transition", "check", "remove"}

\* A task holds the lock of the store.
Holds(w) ==
    \/ task[w].job \in {"receive", "refresh"} /\ task[w].pc # "lock"
    \/ /\ task[w].job = "publish"
       /\ task[w].pc \in BeforePush \cup AfterPush \cup {"unretain", "unbase", "complete", "release"}
    \/ task[w].job = "reject" /\ task[w].pc = "bases"

Undecided == {"lock", "fetch", "version", "stage", "relay", "decide"}

\* A task that may put the push upstream, or has.
NeedsConsent(w) ==
    \/ task[w].job = "publish"
    \/ task[w].job = "approve" /\ task[w].pc = "write"
    \/ task[w].job = "receive" /\ task[w].pc \in BeforePush \cup AfterPush

\* A task works on a push, or has none; publish is called by two kinds of task.
JobOK(w) ==
    /\ task[w].job \in {"receive", "approve", "postpone", "reject", "publish"} => task[w].push \in Pushes
    /\ task[w].job \in {"idle", "refresh"} => task[w].push = ""
    /\ task[w].pc \in BeforePush \cup AfterPush => task[w].job \in {"receive", "publish"}

\* Nobody has recorded or decided anything about a push that is being received.
FreshOK(w) ==
    task[w].job = "receive" =>
        /\ push[task[w].push].record = Absent
        /\ ~push[task[w].push].claim
        /\ push[task[w].push].status \in {"none", "ApprovalRequired"}
        /\ task[w].pc \in Undecided => landed[task[w].push] = {}
        /\ task[w].pc \in {"clean", "report"} => task[w].saw \subseteq {"Published", "Denied", "Failed"}

\* What a publication knows about the upstream.
PublishOK(w) ==
    /\ task[w].pc = "push" =>
           /\ task[w].saw \subseteq push[task[w].push].refs
           /\ push[task[w].push].refs \ task[w].saw \subseteq landed[task[w].push]
    /\ task[w].pc \in AfterPush => push[task[w].push].refs \subseteq landed[task[w].push]
    /\ task[w].job = "receive" /\ task[w].pc \in {"clean", "report"} /\ "Published" \in task[w].saw
           => push[task[w].push].refs \subseteq landed[task[w].push]

TaskOK(w) ==
    /\ JobOK(w)
    /\ Holds(w) => lock = w
    /\ FreshOK(w)
    /\ NeedsConsent(w) => consent[task[w].push]
    /\ PublishOK(w)

PushOK(p) ==
    /\ landed[p] # {} \/ push[p].claim => consent[p]
    /\ landed[p] \subseteq push[p].refs
    /\ push[p].status = "Published" => push[p].refs \subseteq landed[p]

\* A push that is being received is in nobody else's hands.
Alone == \A v, w \in Workers : v # w /\ task[w].job = "receive" => task[v].push # task[w].push

\* The refs of the push are gone, and no publication of it is on the way to its push.
Withdrawn(p) ==
    /\ ~push[p].retained
    /\ \A v \in Workers : task[v].job = "publish" /\ task[v].push = p => task[v].pc \notin BeforePush

Rejecting(w) == task[w].job = "reject" /\ task[w].pc \in Removed

RejectInv ==
    /\ \A p \in Pushes : push[p].status = "Rejected" => Withdrawn(p)
    /\ \A w \in Workers : Rejecting(w) => Withdrawn(task[w].push)

UpstreamInv == \A r \in Refs : upstream[r] \in Pushes => r \in landed[upstream[r]]

IInv ==
    /\ TypeInv
    /\ \A w \in Workers : TaskOK(w)
    /\ \A p \in Pushes : PushOK(p)
    /\ Alone
    /\ RejectInv
    /\ UpstreamInv

-----------------------------------------------------------------------------
\* A step of one task

\* The step of w leaves the other tasks and the other pushes alone, but for a refresh that
\* wakes others and old statuses that are pruned.
Others(w) ==
    /\ \A v \in Workers \ {w} :
          /\ task'[v].job = task[v].job /\ task'[v].pc = task[v].pc /\ task'[v].push = task[v].push
          /\ task[v].job = "refresh" \/ task'[v].saw = task[v].saw
          /\ lock = v => lock' = v
    /\ \A p \in Pushes \ {task[w].push} :
          /\ push'[p].refs = push[p].refs /\ push'[p].retained = push[p].retained
          /\ push'[p].record = push[p].record /\ push'[p].claim = push[p].claim
          /\ push'[p].status \in {push[p].status, "none"}
          /\ landed'[p] = landed[p] /\ consent'[p] = consent[p]

\* The step of w stays with its push.
Stays(w) ==
    /\ task'[w].push \in {task[w].push, ""}
    /\ task'[w].job = "receive" => task[w].job = "receive"
    /\ task'[w].job = "publish" /\ task'[w].pc \in BeforePush
           => \/ task[w].job = "publish" /\ task[w].pc \in BeforePush
              \/ push[task[w].push].retained

\* What the step of w may do to its push, when others may be at work on it too.
Shares(w) ==
    LET p == task[w].push
    IN  /\ landed[p] \subseteq landed'[p]
        /\ task[w].job # "receive" =>
              /\ push'[p].refs = push[p].refs
              /\ push'[p].retained => push[p].retained
              /\ consent[p] => consent'[p]
        /\ push'[p].status = "Rejected" => push[p].status = "Rejected" \/ Rejecting(w)

\* A step of w that stays within these limits keeps the invariant.
LEMMA TaskStep ==
    ASSUME IInv, NEW w \in Workers, TypeInv', Others(w), Stays(w), TaskOK(w)', UpstreamInv',
           \A p \in Pushes : p = task[w].push => Shares(w) /\ PushOK(p)',
           (Rejecting(w) => Withdrawn(task[w].push))'
    PROVE  IInv'
<1> USE DEF IInv
<1>0. /\ \A v \in Workers : task[v].push \in Pushes \cup {""} /\ task'[v].push \in Pushes \cup {""}
      /\ "" \notin Pushes
  BY RepositoriesAssumption, Zenon DEF TypeInv, TaskRecord
<1>1. ASSUME NEW v \in Workers PROVE TaskOK(v)'
  <2>1. CASE v = w BY <2>1, Zenon
  <2>2. CASE v # w
    <3>0. /\ task'[v].job = task[v].job /\ task'[v].pc = task[v].pc /\ task'[v].push = task[v].push
          /\ task[v].job = "refresh" \/ task'[v].saw = task[v].saw
          /\ lock = v => lock' = v
      BY <2>2, Zenon DEF Others
    <3>1. TaskOK(v) BY Zenon
    <3>2. JobOK(v)' BY <3>0, <3>1, Zenon DEF TaskOK, JobOK
    <3>3. (Holds(v) => lock = v)' BY <3>0, <3>1, Zenon DEF TaskOK, Holds
    <3>4. CASE task[v].push \notin Pushes
      BY <3>0, <3>1, <3>2, <3>3, <3>4, Zenon
         DEF TaskOK, JobOK, FreshOK, NeedsConsent, PublishOK, BeforePush, AfterPush
    <3>5. CASE task[v].push \in Pushes \ {task[w].push}
      <4> DEFINE p == task[v].push
      <4>1. /\ push'[p].refs = push[p].refs /\ push'[p].record = push[p].record /\ push'[p].claim = push[p].claim
            /\ push'[p].status \in {push[p].status, "none"} /\ landed'[p] = landed[p] /\ consent'[p] = consent[p]
        BY <3>5, Zenon DEF Others
      <4>2. FreshOK(v)' BY <3>0, <3>1, <4>1, Zenon DEF TaskOK, FreshOK
      <4>3. PublishOK(v)'
        BY <3>0, <3>1, <4>1, ZenonT(40) DEF TaskOK, PublishOK, JobOK, AfterPush, BeforePush
      <4>4. (NeedsConsent(v) => consent[task[v].push])' BY <3>0, <3>1, <4>1, Zenon DEF TaskOK, NeedsConsent
      <4> QED BY <3>2, <3>3, <4>2, <4>3, <4>4, Zenon DEF TaskOK
    <3>6. CASE task[v].push \in Pushes /\ task[v].push = task[w].push
      <4> DEFINE p == task[v].push
      <4>1. task[v].job # "receive" /\ task[w].job # "receive" BY <2>2, <3>6, Zenon DEF Alone
      <4>2. push'[p].refs = push[p].refs /\ landed[p] \subseteq landed'[p] /\ (consent[p] => consent'[p])
        BY <3>6, <4>1, Zenon DEF Shares
      <4>3. FreshOK(v)' BY <3>0, <4>1, Zenon DEF FreshOK
      <4>4. PublishOK(v)'
        BY <3>0, <3>1, <4>1, <4>2, ZenonT(40) DEF TaskOK, PublishOK, JobOK, AfterPush, BeforePush
      <4>5. (NeedsConsent(v) => consent[task[v].push])' BY <3>0, <3>1, <4>2, Zenon DEF TaskOK, NeedsConsent
      <4> QED BY <3>2, <3>3, <4>3, <4>4, <4>5, Zenon DEF TaskOK
    <3> QED BY <3>4, <3>5, <3>6, Zenon
  <2> QED BY <2>1, <2>2, Zenon
<1>2. ASSUME NEW p \in Pushes PROVE PushOK(p)'
  <2>1. CASE p = task[w].push BY <2>1, Zenon
  <2>2. CASE p # task[w].push
    <3>1. PushOK(p) BY Zenon
    <3> QED BY <2>2, <3>1, Zenon DEF Others, PushOK
  <2> QED BY <2>1, <2>2, Zenon
<1>3. Alone'
  <2> SUFFICES ASSUME NEW v \in Workers, NEW u \in Workers, v # u, task'[u].job = "receive"
               PROVE  task'[v].push # task'[u].push
    BY Zenon DEF Alone
  <2>1. task[u].job = "receive" BY Zenon DEF Others, Stays
  <2>2. task[u].push \in Pushes /\ task'[u].push \in Pushes BY <2>1, <1>1, Zenon DEF TaskOK, JobOK
  <2>3. task'[u].push = task[u].push
    <3>1. CASE u = w BY <1>0, <2>2, <3>1, Zenon DEF Stays
    <3>2. CASE u # w BY <3>2, Zenon DEF Others
    <3> QED BY <3>1, <3>2, Zenon
  <2>4. task'[v].push \in {task[v].push, ""} BY Zenon DEF Others, Stays
  <2> QED BY <1>0, <2>1, <2>2, <2>3, <2>4, Zenon DEF Alone
<1>4. ASSUME NEW p \in Pushes, Withdrawn(p), ~(p = task[w].push /\ task[w].job = "receive") PROVE Withdrawn(p)'
  <2>1. ~push'[p].retained BY <1>4, Zenon DEF Others, Shares, Withdrawn
  <2>2. ASSUME NEW v \in Workers, task'[v].job = "publish", task'[v].push = p, task'[v].pc \in BeforePush PROVE FALSE
    <3>1. CASE v = w
      <4>1. task[w].push = p BY <1>0, <2>2, <3>1, Zenon DEF Stays
      <4> QED BY <1>4, <2>2, <3>1, <4>1, Zenon DEF Stays, Withdrawn
    <3>2. CASE v # w BY <1>4, <2>2, <3>2 DEF Others, Withdrawn
    <3> QED BY <3>1, <3>2, Zenon
  <2> QED BY <2>1, <2>2, Zenon DEF Withdrawn
<1>5. ASSUME NEW p \in Pushes, push'[p].status = "Rejected" PROVE Withdrawn(p)'
  <2>1. ~(p = task[w].push /\ task[w].job = "receive")
    <3> SUFFICES ASSUME p = task[w].push, task[w].job = "receive" PROVE FALSE BY Zenon
    <3>1. push[p].status # "Rejected" BY Zenon DEF TaskOK, FreshOK
    <3> QED BY <3>1, <1>5, Zenon DEF Shares, Rejecting
  <2>2. push[p].status = "Rejected" \/ (p = task[w].push /\ Rejecting(w)) BY <1>5, Zenon DEF Others, Shares
  <2>3. Withdrawn(p) BY <2>2, Zenon DEF RejectInv
  <2> QED BY <1>4, <2>1, <2>3, Zenon
<1>6. ASSUME NEW v \in Workers PROVE (Rejecting(v) => Withdrawn(task[v].push))'
  <2> SUFFICES ASSUME Rejecting(v)' PROVE Withdrawn(task[v].push)' BY Zenon
  <2>1. CASE v = w BY <2>1, Zenon
  <2>2. CASE v # w
    <3>1. Rejecting(v) /\ task'[v].push = task[v].push BY <2>2, Zenon DEF Others, Rejecting
    <3>2. Withdrawn(task[v].push) /\ task[v].push \in Pushes
      BY <3>1, Zenon DEF RejectInv, TaskOK, JobOK, Rejecting
    <3>3. ~(task[v].push = task[w].push /\ task[w].job = "receive") BY <2>2, Zenon DEF Alone
    <3> DEFINE p == task[v].push
    <3>4. \A q \in Pushes : q = p => Withdrawn(q)' BY <1>4, <3>2, <3>3, Zenon
    <3>5. task'[v].push \in Pushes /\ task'[v].push = p BY <3>1, <3>2, Zenon
    <3> HIDE DEF p
    <3> QED BY <3>4, <3>5, Zenon
  <2> QED BY <2>1, <2>2, Zenon
<1> QED BY <1>1, <1>2, <1>3, <1>5, <1>6, Zenon DEF RejectInv

-----------------------------------------------------------------------------
\* What the updates of the model change, field by field

\* Task w becomes a task with these fields.
Becomes(w, job, pc, p, saw) ==
    /\ task' \in [Workers -> TaskRecord]
    /\ task'[w].job = job /\ task'[w].pc = pc /\ task'[w].push = p /\ task'[w].saw = saw
    /\ \A v \in Workers \ {w} : task'[v] = task[v]

\* Go changes the pc of one task.
LEMMA GoBecomes ==
    ASSUME TypeInv, NEW w \in Workers, NEW pc \in Pcs, Go(w, pc)
    PROVE  Becomes(w, task[w].job, pc, task[w].push, task[w].saw)
<1> DEFINE t == [task[w] EXCEPT !.pc = pc]
<1>1. task' = [task EXCEPT ![w] = t] BY Zenon DEF TypeInv, Go
<1>2. t \in TaskRecord /\ t.job = task[w].job /\ t.pc = pc /\ t.push = task[w].push /\ t.saw = task[w].saw
  BY Zenon DEF TypeInv, TaskRecord
<1> HIDE DEF t
<1> QED BY <1>1, <1>2, Zenon DEF TypeInv, Becomes

\* GoWith changes the pc and what the task has read.
LEMMA GoWithBecomes ==
    ASSUME TypeInv, NEW w \in Workers, NEW pc \in Pcs, NEW saw \in SUBSET Values, GoWith(w, pc, saw)
    PROVE  Becomes(w, task[w].job, pc, task[w].push, saw)
<1> DEFINE t == [[task[w] EXCEPT !.pc = pc] EXCEPT !.saw = saw]
<1>1. task' = [task EXCEPT ![w] = t] BY Zenon DEF TypeInv, GoWith
<1>2. t \in TaskRecord /\ t.job = task[w].job /\ t.pc = pc /\ t.push = task[w].push /\ t.saw = saw
  BY Zenon DEF TypeInv, TaskRecord
<1> HIDE DEF t
<1> QED BY <1>1, <1>2, Zenon DEF TypeInv, Becomes

\* Spawned puts a new task in the place of one.
LEMMA SpawnedBecomes ==
    ASSUME TypeInv, NEW w \in Workers, NEW job \in Jobs, NEW pc \in Pcs, NEW p \in Pushes \cup {""},
           task' = Spawned(w, job, pc, p)
    PROVE  Becomes(w, job, pc, p, {})
<1> DEFINE t == [job |-> job, pc |-> pc, push |-> p, saw |-> {}]
<1>1. task' = [task EXCEPT ![w] = t] BY Zenon DEF Spawned
<1>2. t \in TaskRecord /\ t.job = job /\ t.pc = pc /\ t.push = p /\ t.saw = {}
  BY Zenon DEF TaskRecord
<1> HIDE DEF t
<1> QED BY <1>1, <1>2, Zenon DEF TypeInv, Becomes

\* End leaves an idle task.
LEMMA EndBecomes ==
    ASSUME TypeInv, NEW w \in Workers, End(w)
    PROVE  Becomes(w, "idle", "done", "", {})
<1>1. task' = Spawned(w, "idle", "done", "") BY Zenon DEF End, Idle, Spawned
<1>2. "idle" \in Jobs /\ "done" \in Pcs BY Zenon DEF Jobs, Pcs
<1>3. "" \in Pushes \cup {""} BY Zenon
<1> QED BY <1>1, <1>2, <1>3, SpawnedBecomes, Zenon

\* Push p becomes a push with these fields.
PushBecomes(p, refs, retained, status, record, claim) ==
    /\ push' \in [Pushes -> PushRecord]
    /\ push'[p].refs = refs /\ push'[p].retained = retained /\ push'[p].status = status
    /\ push'[p].record = record /\ push'[p].claim = claim
    /\ \A q \in Pushes \ {p} : push'[q] = push[q]

\* A push gets a new record.
LEMMA RecordBecomes ==
    ASSUME TypeInv, NEW p \in Pushes, NEW x \in PushRecord, push' = [push EXCEPT ![p] = x]
    PROVE  PushBecomes(p, x.refs, x.retained, x.status, x.record, x.claim)
BY Zenon DEF TypeInv, PushBecomes

\* The refs of the push are known.
LEMMA SetRefs ==
    ASSUME TypeInv, NEW p \in Pushes, NEW refs \in SUBSET Refs, push' = [push EXCEPT ![p].refs = refs]
    PROVE  PushBecomes(p, refs, push[p].retained, push[p].status, push[p].record, push[p].claim)
<1> DEFINE x == [push[p] EXCEPT !.refs = refs]
<1>1. push' = [push EXCEPT ![p] = x] BY Zenon DEF TypeInv
<1>2. x \in PushRecord BY ZenonT(40) DEF TypeInv, PushRecord
<1>3. /\ x.refs = refs /\ x.retained = push[p].retained /\ x.status = push[p].status
      /\ x.record = push[p].record /\ x.claim = push[p].claim
  BY DEF TypeInv, PushRecord
<1> HIDE DEF x
<1> QED BY <1>1, <1>2, <1>3, RecordBecomes, Zenon

\* The refs of the push are removed.
LEMMA ClearRetained ==
    ASSUME TypeInv, NEW p \in Pushes, push' = [push EXCEPT ![p].retained = FALSE]
    PROVE  PushBecomes(p, push[p].refs, FALSE, push[p].status, push[p].record, push[p].claim)
<1> DEFINE x == [push[p] EXCEPT !.retained = FALSE]
<1>1. push' = [push EXCEPT ![p] = x] BY Zenon DEF TypeInv
<1>2. x \in PushRecord BY ZenonT(40) DEF TypeInv, PushRecord
<1>3. /\ x.refs = push[p].refs /\ x.retained = FALSE /\ x.status = push[p].status
      /\ x.record = push[p].record /\ x.claim = push[p].claim
  BY DEF TypeInv, PushRecord
<1> HIDE DEF x
<1> QED BY <1>1, <1>2, <1>3, RecordBecomes, Zenon

\* The bases of the push are retained.
LEMMA SetBases ==
    ASSUME TypeInv, NEW p \in Pushes, push' = [push EXCEPT ![p].bases = TRUE]
    PROVE  PushBecomes(p, push[p].refs, push[p].retained, push[p].status, push[p].record, push[p].claim)
<1> DEFINE x == [push[p] EXCEPT !.bases = TRUE]
<1>1. push' = [push EXCEPT ![p] = x] BY Zenon DEF TypeInv
<1>2. x \in PushRecord BY ZenonT(40) DEF TypeInv, PushRecord
<1>3. /\ x.refs = push[p].refs /\ x.retained = push[p].retained /\ x.status = push[p].status
      /\ x.record = push[p].record /\ x.claim = push[p].claim
  BY DEF TypeInv, PushRecord
<1> HIDE DEF x
<1> QED BY <1>1, <1>2, <1>3, RecordBecomes, Zenon

\* The bases of the push are removed.
LEMMA ClearBases ==
    ASSUME TypeInv, NEW p \in Pushes, push' = [push EXCEPT ![p].bases = FALSE]
    PROVE  PushBecomes(p, push[p].refs, push[p].retained, push[p].status, push[p].record, push[p].claim)
<1> DEFINE x == [push[p] EXCEPT !.bases = FALSE]
<1>1. push' = [push EXCEPT ![p] = x] BY Zenon DEF TypeInv
<1>2. x \in PushRecord BY ZenonT(40) DEF TypeInv, PushRecord
<1>3. /\ x.refs = push[p].refs /\ x.retained = push[p].retained /\ x.status = push[p].status
      /\ x.record = push[p].record /\ x.claim = push[p].claim
  BY DEF TypeInv, PushRecord
<1> HIDE DEF x
<1> QED BY <1>1, <1>2, <1>3, RecordBecomes, Zenon

\* A status is written.
LEMMA SetStatus ==
    ASSUME TypeInv, NEW p \in Pushes, NEW status \in Values, push' = [push EXCEPT ![p].status = status]
    PROVE  PushBecomes(p, push[p].refs, push[p].retained, status, push[p].record, push[p].claim)
<1> DEFINE x == [push[p] EXCEPT !.status = status]
<1>1. push' = [push EXCEPT ![p] = x] BY Zenon DEF TypeInv
<1>2. x \in PushRecord BY ZenonT(40) DEF TypeInv, PushRecord
<1>3. /\ x.refs = push[p].refs /\ x.retained = push[p].retained /\ x.status = status
      /\ x.record = push[p].record /\ x.claim = push[p].claim
  BY DEF TypeInv, PushRecord
<1> HIDE DEF x
<1> QED BY <1>1, <1>2, <1>3, RecordBecomes, Zenon

\* The approval record is written or removed.
LEMMA SetRecord ==
    ASSUME TypeInv, NEW p \in Pushes, NEW record \in SUBSET Values, push' = [push EXCEPT ![p].record = record]
    PROVE  PushBecomes(p, push[p].refs, push[p].retained, push[p].status, record, push[p].claim)
<1> DEFINE x == [push[p] EXCEPT !.record = record]
<1>1. push' = [push EXCEPT ![p] = x] BY Zenon DEF TypeInv
<1>2. x \in PushRecord BY DEF TypeInv, PushRecord
<1>3. /\ x.refs = push[p].refs /\ x.retained = push[p].retained /\ x.status = push[p].status
      /\ x.record = record /\ x.claim = push[p].claim
  BY DEF TypeInv, PushRecord
<1> HIDE DEF x
<1> QED BY <1>1, <1>2, <1>3, RecordBecomes, Zenon

\* The approval is claimed.
LEMMA SetClaim ==
    ASSUME TypeInv, NEW p \in Pushes, push' = [push EXCEPT ![p].claim = TRUE]
    PROVE  PushBecomes(p, push[p].refs, push[p].retained, push[p].status, push[p].record, TRUE)
<1> DEFINE x == [push[p] EXCEPT !.claim = TRUE]
<1>1. push' = [push EXCEPT ![p] = x] BY Zenon DEF TypeInv
<1>2. x \in PushRecord BY ZenonT(40) DEF TypeInv, PushRecord
<1>3. /\ x.refs = push[p].refs /\ x.retained = push[p].retained /\ x.status = push[p].status
      /\ x.record = push[p].record /\ x.claim = TRUE
  BY DEF TypeInv, PushRecord
<1> HIDE DEF x
<1> QED BY <1>1, <1>2, <1>3, RecordBecomes, Zenon

\* The claim is released.
LEMMA ClearClaim ==
    ASSUME TypeInv, NEW p \in Pushes, push' = [push EXCEPT ![p].claim = FALSE]
    PROVE  PushBecomes(p, push[p].refs, push[p].retained, push[p].status, push[p].record, FALSE)
<1> DEFINE x == [push[p] EXCEPT !.claim = FALSE]
<1>1. push' = [push EXCEPT ![p] = x] BY Zenon DEF TypeInv
<1>2. x \in PushRecord BY ZenonT(40) DEF TypeInv, PushRecord
<1>3. /\ x.refs = push[p].refs /\ x.retained = push[p].retained /\ x.status = push[p].status
      /\ x.record = push[p].record /\ x.claim = FALSE
  BY DEF TypeInv, PushRecord
<1> HIDE DEF x
<1> QED BY <1>1, <1>2, <1>3, RecordBecomes, Zenon

\* The namespace of the push is staged.
LEMMA SetStaged ==
    ASSUME TypeInv, NEW p \in Pushes, NEW expected \in Expected,
           push' = [push EXCEPT ![p].retained = TRUE, ![p].expected = expected]
    PROVE  PushBecomes(p, push[p].refs, TRUE, push[p].status, push[p].record, push[p].claim)
<1> DEFINE x == [[push[p] EXCEPT !.retained = TRUE] EXCEPT !.expected = expected]
<1>1. push' = [push EXCEPT ![p] = x] BY Zenon DEF TypeInv
<1>2. x \in PushRecord BY ZenonT(40) DEF TypeInv, PushRecord
<1>3. /\ x.refs = push[p].refs /\ x.retained = TRUE /\ x.status = push[p].status
      /\ x.record = push[p].record /\ x.claim = push[p].claim
  BY DEF TypeInv, PushRecord
<1> HIDE DEF x
<1> QED BY <1>1, <1>2, <1>3, RecordBecomes, Zenon

\* Refs and bases of the push are removed.
LEMMA SetReleased ==
    ASSUME TypeInv, NEW p \in Pushes, push' = [push EXCEPT ![p].bases = FALSE, ![p].retained = FALSE]
    PROVE  PushBecomes(p, push[p].refs, FALSE, push[p].status, push[p].record, push[p].claim)
<1> DEFINE x == [[push[p] EXCEPT !.bases = FALSE] EXCEPT !.retained = FALSE]
<1>1. push' = [push EXCEPT ![p] = x] BY Zenon DEF TypeInv
<1>2. x \in PushRecord BY ZenonT(40) DEF TypeInv, PushRecord
<1>3. /\ x.refs = push[p].refs /\ x.retained = FALSE /\ x.status = push[p].status
      /\ x.record = push[p].record /\ x.claim = push[p].claim
  BY DEF TypeInv, PushRecord
<1> HIDE DEF x
<1> QED BY <1>1, <1>2, <1>3, RecordBecomes, Zenon

-----------------------------------------------------------------------------
\* Steps that change one task, and steps that change one task and its push

\* Nothing happens to the upstream, and the lock is taken or dropped by w if by anyone.
Quiet(w) ==
    /\ UNCHANGED <<upstream, landed, consent>>
    /\ mirror' \in [Refs -> Objects] /\ config' \in Configs /\ resuming' \subseteq Pushes
    /\ \/ lock' = lock
       \/ lock = 0 /\ lock' = w
       \/ lock = w /\ lock' = 0

\* No handler has the number that stands for a free lock.
LEMMA ZeroIsNoWorker == 0 \notin Workers
BY DEF Workers

\* A step of w that leaves all pushes alone.
LEMMA TaskOnlyStep ==
    ASSUME IInv, NEW w \in Workers, NEW job, NEW pc, NEW p, NEW saw, Becomes(w, job, pc, p, saw),
           UNCHANGED push, Quiet(w), Stays(w), TaskOK(w)',
           (Rejecting(w) => Withdrawn(task[w].push))'
    PROVE  IInv'
<1> USE DEF IInv
<1>1. TypeInv' BY Zenon DEF TypeInv, Quiet, Becomes
<1>2. Others(w)
  <2>1. 0 \notin Workers BY ZeroIsNoWorker, Zenon
  <2> QED BY <2>1, Zenon DEF Others, Becomes, Quiet
<1>3. UpstreamInv' BY Zenon DEF UpstreamInv, Quiet
<1>4. ASSUME NEW q \in Pushes, q = task[w].push PROVE Shares(w) /\ PushOK(q)'
  <2>1. PushOK(q) BY Zenon
  <2>2. Shares(w) BY <1>4, Zenon DEF Shares, Quiet
  <2>3. PushOK(q)' BY <2>1, Zenon DEF PushOK, Quiet
  <2> QED BY <2>2, <2>3, Zenon
<1> QED BY <1>1, <1>2, <1>3, <1>4, TaskStep, Zenon

\* A step of w that changes its push.
LEMMA PushStep ==
    ASSUME IInv, NEW w \in Workers, NEW job, NEW pc, NEW p, NEW saw, Becomes(w, job, pc, p, saw),
           NEW refs, NEW retained, NEW status, NEW record, NEW claim, task[w].push \in Pushes,
           PushBecomes(task[w].push, refs, retained, status, record, claim),
           Quiet(w), Stays(w), Shares(w), TaskOK(w)',
           \A q \in Pushes : q = task[w].push => PushOK(q)',
           (Rejecting(w) => Withdrawn(task[w].push))'
    PROVE  IInv'
<1> USE DEF IInv
<1>1. TypeInv' BY Zenon DEF TypeInv, Quiet, Becomes, PushBecomes
<1>2. Others(w)
  <2>1. 0 \notin Workers BY ZeroIsNoWorker, Zenon
  <2> QED BY <2>1, Zenon DEF Others, Becomes, Quiet, PushBecomes
<1>3. UpstreamInv' BY Zenon DEF UpstreamInv, Quiet
<1> QED BY <1>1, <1>2, <1>3, TaskStep, Zenon

-----------------------------------------------------------------------------
\* The actions

\* The publication of w ends with an error.
LEMMA PublishFailsStep ==
    ASSUME IInv, NEW w \in Workers, task[w].pc \in BeforePush, PublishFails(w),
           UNCHANGED <<store, push, rest>>
    PROVE  IInv'
<1>0. TypeInv /\ TaskOK(w) BY Zenon DEF IInv
<1>1. Quiet(w) BY <1>0, Zenon DEF PublishFails, Unlock, Quiet, store, rest, TypeInv
<1>2. CASE task[w].job = "receive"
  <2>1. {"Failed"} \in SUBSET Values BY Zenon DEF Values, Terminal
  <2>2. Becomes(w, task[w].job, "clean", task[w].push, {"Failed"})
    BY <1>0, <1>2, <2>1, GoWithBecomes, Zenon DEF PublishFails, Pcs
  <2>3. TaskOK(w)'
    BY <1>0, <1>1, <1>2, <2>2, Zenon
       DEF PublishFails, Becomes, Quiet, TaskOK, JobOK, Holds, FreshOK, NeedsConsent, PublishOK,
           BeforePush, AfterPush,
           Undecided
  <2>4. Stays(w) /\ ~Rejecting(w)' BY <1>2, <2>2, Zenon DEF Becomes, Stays, Rejecting
  <2> QED BY <1>1, <2>2, <2>3, <2>4, TaskOnlyStep, Zenon DEF rest
<1>3. CASE task[w].job # "receive"
  <2>1. task[w].job = "publish" BY <1>0, <1>3, Zenon DEF TaskOK, JobOK
  <2>2. Becomes(w, task[w].job, "fail", task[w].push, task[w].saw)
    BY <1>0, <1>3, <2>1, GoBecomes, Zenon DEF PublishFails, Pcs
  <2>3. TaskOK(w)'
    BY <1>0, <1>1, <2>1, <2>2, Zenon
       DEF Becomes, Quiet, TaskOK, JobOK, Holds, FreshOK, NeedsConsent, PublishOK, BeforePush,
           AfterPush,
           Undecided
  <2>4. Stays(w) /\ ~Rejecting(w)' BY <2>1, <2>2, Zenon DEF Becomes, Stays, Rejecting, BeforePush
  <2> QED BY <1>1, <2>2, <2>3, <2>4, TaskOnlyStep, Zenon DEF rest
<1> QED BY <1>2, <1>3, Zenon

\* A handler ends.
LEMMA EndStep ==
    ASSUME IInv, NEW w \in Workers, End(w), UNCHANGED push, Quiet(w)
    PROVE  IInv'
<1>1. Becomes(w, "idle", "done", "", {}) BY EndBecomes, Zenon DEF IInv
<1>2. TaskOK(w)'
  BY <1>1, Zenon DEF Becomes, TaskOK, JobOK, Holds, FreshOK, NeedsConsent, PublishOK, BeforePush,
     AfterPush
<1>3. Stays(w) /\ ~Rejecting(w)' BY <1>1, Zenon DEF Becomes, Stays, Rejecting, BeforePush
<1> QED BY <1>1, <1>2, <1>3, TaskOnlyStep, Zenon

\* A handler ends with a change of its push.
LEMMA EndPushStep ==
    ASSUME IInv, NEW w \in Workers, End(w), Quiet(w), Shares(w), task[w].push \in Pushes,
           NEW refs, NEW retained, NEW status, NEW record, NEW claim,
           PushBecomes(task[w].push, refs, retained, status, record, claim),
           \A q \in Pushes : q = task[w].push => PushOK(q)'
    PROVE  IInv'
<1>1. Becomes(w, "idle", "done", "", {}) BY EndBecomes, Zenon DEF IInv
<1>2. TaskOK(w)'
  BY <1>1, Zenon DEF Becomes, TaskOK, JobOK, Holds, FreshOK, NeedsConsent, PublishOK, BeforePush,
     AfterPush
<1>3. Stays(w) /\ ~Rejecting(w)' BY <1>1, Zenon DEF Becomes, Stays, Rejecting, BeforePush
<1> QED BY <1>1, <1>2, <1>3, PushStep, Zenon

\* Taking or dropping the lock.
LEMMA UnlockIsQuiet ==
    ASSUME TypeInv, NEW w \in Workers, Unlock(w) \/ UNCHANGED lock \/ Locks(w),
           UNCHANGED <<upstream, mirror, config, resuming, landed, consent>>
    PROVE  Quiet(w)
BY Zenon DEF TypeInv, Unlock, Locks, Quiet

\* fetch, wherever it is called.
LEMMA FetchStep ==
    ASSUME IInv, NEW w \in Workers, NEW pc, NEW next, fetch(w, pc, next),
           \/ task[w].job \in {"receive", "refresh"} /\ pc = "fetch" /\ next = "version"
           \/ pc = "prefetch" /\ next = "compare"
           \/ pc = "refetch" /\ next = "reversion"
    PROVE  IInv'
<1>0. TypeInv /\ TaskOK(w) /\ next \in Pcs BY Zenon DEF IInv, Pcs
<1>1. Quiet(w) /\ UNCHANGED push BY <1>0, Zenon DEF fetch, rest, Quiet, TypeInv
<1>2. Becomes(w, task[w].job, next, task[w].push, task[w].saw) BY <1>0, GoBecomes, Zenon DEF fetch
<1>3. task[w].pc = pc /\ lock' = lock BY Zenon DEF fetch
<1>4. TaskOK(w)'
  BY <1>0, <1>1, <1>2, <1>3, Zenon
     DEF Becomes, Quiet, TaskOK, JobOK, Holds, FreshOK, NeedsConsent, PublishOK, BeforePush,
         AfterPush, Undecided
<1>5. Stays(w) /\ ~Rejecting(w)' BY <1>2, <1>3, Zenon DEF Becomes, Stays, Rejecting, Removed, BeforePush
<1> QED BY <1>1, <1>2, <1>4, <1>5, TaskOnlyStep, Zenon

\* record_refresh, wherever it is called; it wakes the tasks that wait to refresh.
LEMMA RecordRefreshStep ==
    ASSUME IInv, NEW w \in Workers, NEW pc, NEW next, record_refresh(w, pc, next),
           \/ task[w].job = "refresh" /\ pc = "version" /\ next = "served"
           \/ task[w].job = "receive" /\ pc = "version" /\ next = "stage"
           \/ pc = "reversion" /\ next = "finish"
    PROVE  IInv'
<1> DEFINE wake(t) == [t EXCEPT !.saw = {"refreshed"}]
<1>0. TypeInv /\ TaskOK(w) /\ next \in Pcs /\ {"refreshed"} \in SUBSET Values
  BY Zenon DEF IInv, Pcs, Values
<1>1. \A t \in TaskRecord : /\ wake(t) \in TaskRecord
                            /\ wake(t).job = t.job /\ wake(t).pc = t.pc /\ wake(t).push = t.push
  BY <1>0, Zenon DEF TaskRecord
<1>2. /\ Coalesced \in [Workers -> TaskRecord]
      /\ \A v \in Workers : Coalesced[v] = IF At(v, "refresh", "lock") THEN wake(task[v]) ELSE task[v]
  BY <1>0, <1>1, Zenon DEF Coalesced, TypeInv
<1>3. Coalesced[w] = task[w] BY <1>2, Zenon DEF record_refresh, At
<1> DEFINE t == [task[w] EXCEPT !.pc = next]
<1>4. task' = [Coalesced EXCEPT ![w] = t] BY <1>2, <1>3, Zenon DEF record_refresh
<1>5. t \in TaskRecord /\ t.job = task[w].job /\ t.pc = next /\ t.push = task[w].push /\ t.saw = task[w].saw
  BY <1>0, Zenon DEF TypeInv, TaskRecord
<1> HIDE DEF t
<1>6. /\ task' \in [Workers -> TaskRecord] /\ task'[w] = t
      /\ \A v \in Workers \ {w} : task'[v] = IF At(v, "refresh", "lock") THEN wake(task[v]) ELSE task[v]
  BY <1>2, <1>4, <1>5, Zenon
<1>7. UNCHANGED <<upstream, mirror, config, push, lock, resuming, landed, consent>> /\ task[w].pc = pc
  BY Zenon DEF record_refresh, rest
<1>8. TypeInv' BY <1>0, <1>6, <1>7, Zenon DEF TypeInv
<1>9. Others(w)
  <2> SUFFICES ASSUME NEW v \in Workers \ {w}
               PROVE  /\ task'[v].job = task[v].job /\ task'[v].pc = task[v].pc /\ task'[v].push = task[v].push
                      /\ task[v].job = "refresh" \/ task'[v].saw = task[v].saw
    BY <1>7, Zenon DEF Others
  <2>1. CASE At(v, "refresh", "lock") BY <2>1, <1>0, <1>1, <1>6, Zenon DEF TypeInv, At
  <2>2. CASE ~At(v, "refresh", "lock") BY <2>2, <1>6, Zenon
  <2> QED BY <2>1, <2>2, Zenon
<1>10. TaskOK(w)'
  BY <1>0, <1>5, <1>6, <1>7, Zenon
     DEF TaskOK, JobOK, Holds, FreshOK, NeedsConsent, PublishOK, BeforePush, AfterPush, Undecided
<1>11. Stays(w) /\ ~Rejecting(w)'
  BY <1>5, <1>6, <1>7, Zenon DEF Stays, Rejecting, Removed, BeforePush
<1>12. UpstreamInv' BY <1>7, Zenon DEF IInv, UpstreamInv
<1>13. ASSUME NEW q \in Pushes, q = task[w].push PROVE Shares(w) /\ PushOK(q)'
  <2>1. PushOK(q) BY Zenon DEF IInv
  <2> QED BY <1>7, <1>13, <2>1, Zenon DEF Shares, PushOK
<1> QED BY <1>8, <1>9, <1>10, <1>11, <1>12, <1>13, TaskStep, Zenon

\* refresh_cache.
LEMMA RefreshCacheStep ==
    ASSUME IInv, NEW w \in Workers, refresh_cache(w)
    PROVE  IInv'
<1>0. TypeInv /\ TaskOK(w) BY Zenon DEF IInv
<1>1. CASE At(w, "refresh", "lock") /\ Locks(w) /\ Go(w, "fetch") /\ UNCHANGED <<store, push, rest, used>>
  <2>1. Quiet(w) /\ lock' = w BY <1>0, <1>1, UnlockIsQuiet, Zenon DEF store, rest, Locks
  <2>2. Becomes(w, task[w].job, "fetch", task[w].push, task[w].saw) BY <1>0, <1>1, GoBecomes, Zenon DEF Pcs
  <2>3. TaskOK(w)'
    BY <1>0, <1>1, <2>1, <2>2, Zenon
       DEF At, Becomes, TaskOK, JobOK, Holds, FreshOK, NeedsConsent, PublishOK, BeforePush,
           AfterPush
  <2>4. Stays(w) /\ ~Rejecting(w)' BY <1>1, <2>2, Zenon DEF At, Becomes, Stays, Rejecting
  <2> QED BY <1>1, <2>1, <2>2, <2>3, <2>4, TaskOnlyStep, Zenon
<1>2. CASE End(w) /\ (UNCHANGED lock \/ Unlock(w)) /\ UNCHANGED <<store, push, rest>>
  <2>1. Quiet(w) BY <1>0, <1>2, UnlockIsQuiet, Zenon DEF store, rest
  <2> QED BY <1>2, <2>1, EndStep, Zenon
<1>3. CASE task[w].job = "refresh" /\ fetch(w, "fetch", "version") BY <1>3, FetchStep, Zenon
<1>4. CASE task[w].job = "refresh" /\ record_refresh(w, "version", "served")
  BY <1>4, RecordRefreshStep, Zenon
<1> QED BY <1>1, <1>2, <1>3, <1>4, Zenon DEF refresh_cache, Quit

\* open_store.
LEMMA OpenStoreStep ==
    ASSUME IInv, NEW w \in Workers, open_store(w)
    PROVE  IInv'
<1>0. TypeInv /\ TaskOK(w) BY Zenon DEF IInv
<1>1. CASE At(w, "receive", "lock") /\ Locks(w) /\ Go(w, "fetch") /\ UNCHANGED <<store, push, rest, used>>
  <2>1. Quiet(w) /\ lock' = w BY <1>0, <1>1, UnlockIsQuiet, Zenon DEF store, rest, Locks
  <2>2. Becomes(w, task[w].job, "fetch", task[w].push, task[w].saw) BY <1>0, <1>1, GoBecomes, Zenon DEF Pcs
  <2>3. TaskOK(w)'
    BY <1>0, <1>1, <2>1, <2>2, Zenon
       DEF At, Becomes, Quiet, TaskOK, JobOK, Holds, FreshOK, NeedsConsent, PublishOK, BeforePush,
           AfterPush, Undecided
  <2>4. Stays(w) /\ ~Rejecting(w)' BY <1>1, <2>2, Zenon DEF At, Becomes, Stays, Rejecting
  <2> QED BY <1>1, <2>1, <2>2, <2>3, <2>4, TaskOnlyStep, Zenon
<1>2. CASE Quit(w) /\ UNCHANGED <<store, push, rest>>
  <2>1. Quiet(w) BY <1>0, <1>2, UnlockIsQuiet, Zenon DEF store, rest, Quit
  <2> QED BY <1>2, <2>1, EndStep, Zenon DEF Quit
<1>3. CASE task[w].job = "receive" /\ fetch(w, "fetch", "version") BY <1>3, FetchStep, Zenon
<1>4. CASE task[w].job = "receive" /\ record_refresh(w, "version", "stage")
  BY <1>4, RecordRefreshStep, Zenon
<1> QED BY <1>1, <1>2, <1>3, <1>4, Zenon DEF open_store

\* The refs left out because the upstream has the object are refs that had it.
LEMMA CompareStep ==
    ASSUME IInv, NEW w \in Workers, compare(w)
    PROVE  IInv'
<1> DEFINE p == task[w].push
<1> DEFINE pending == {r \in push[p].refs : upstream[r] # p}
<1> DEFINE next == IF pending = {} THEN "refetch" ELSE "push"
<1>0. TypeInv /\ TaskOK(w) /\ task[w].pc = "compare" /\ UNCHANGED <<store, push, rest>>
  BY Zenon DEF IInv, compare
<1>1. p \in Pushes BY <1>0, Zenon DEF TaskOK, JobOK, BeforePush
<1>2. push[p].refs \subseteq Refs BY <1>0, <1>1, Zenon DEF TypeInv, PushRecord
<1>3. push[p].refs \ pending \subseteq landed[p]
  <2> SUFFICES ASSUME NEW r \in push[p].refs, upstream[r] = p PROVE r \in landed[p] BY Zenon
  <2> QED BY <1>1, <1>2, Zenon DEF IInv, UpstreamInv
<1>4. CASE PublishFails(w) BY <1>0, <1>4, PublishFailsStep, Zenon DEF BeforePush
<1>5. CASE GoWith(w, next, pending) /\ UNCHANGED lock
  <2>1. Quiet(w) BY <1>0, <1>5, UnlockIsQuiet, Zenon DEF store, rest
  <2>2. next \in Pcs /\ pending \in SUBSET Values BY <1>2, Zenon DEF Pcs, Values
  <2>3. Becomes(w, task[w].job, next, p, pending) BY <1>0, <1>5, <2>2, GoWithBecomes, Zenon
  <2>4. next \in {"refetch", "push"} /\ (next = "refetch" => pending = {}) /\ pending \subseteq push[p].refs
    BY Zenon
  <2> HIDE DEF pending, next
  <2>5. TaskOK(w)'
    BY <1>0, <1>3, <1>5, <2>1, <2>3, <2>4, Zenon
       DEF Becomes, Quiet, TaskOK, JobOK, Holds, FreshOK, NeedsConsent, PublishOK, BeforePush,
           AfterPush, Undecided
  <2>6. Stays(w) /\ ~Rejecting(w)'
    BY <1>0, <2>3, <2>4, Zenon DEF Becomes, Stays, Rejecting, Removed, BeforePush
  <2> QED BY <1>0, <2>1, <2>3, <2>5, <2>6, TaskOnlyStep, Zenon
<1> QED BY <1>4, <1>5, Zenon DEF compare

\* After a failed push every ref upstream has the object, so every ref landed.
LEMMA ObserveStep ==
    ASSUME IInv, NEW w \in Workers, observe(w)
    PROVE  IInv'
<1> DEFINE p == task[w].push
<1>0. TypeInv /\ TaskOK(w) /\ task[w].pc = "observe" /\ UNCHANGED <<store, push, rest>>
  BY Zenon DEF IInv, observe
<1>1. p \in Pushes BY <1>0, Zenon DEF TaskOK, JobOK, BeforePush
<1>2. CASE PublishFails(w) BY <1>0, <1>2, PublishFailsStep, Zenon DEF BeforePush
<1>3. CASE AllPresent(p) /\ Go(w, "refetch") /\ UNCHANGED lock
  <2>1. Quiet(w) BY <1>0, <1>3, UnlockIsQuiet, Zenon DEF store, rest
  <2>2. Becomes(w, task[w].job, "refetch", p, task[w].saw) BY <1>0, <1>3, GoBecomes, Zenon DEF Pcs
  <2>3. push[p].refs \subseteq landed[p]
    BY <1>0, <1>1, <1>3, Zenon DEF IInv, UpstreamInv, AllPresent, TypeInv, PushRecord
  <2>4. TaskOK(w)'
    BY <1>0, <1>3, <2>1, <2>2, <2>3, Zenon
       DEF Becomes, Quiet, TaskOK, JobOK, Holds, FreshOK, NeedsConsent, PublishOK, BeforePush,
           AfterPush, Undecided
  <2>5. Stays(w) /\ ~Rejecting(w)' BY <1>0, <2>2, Zenon DEF Becomes, Stays, Rejecting, Removed, BeforePush
  <2> QED BY <1>0, <2>1, <2>2, <2>4, <2>5, TaskOnlyStep, Zenon
<1> QED BY <1>2, <1>3, Zenon DEF observe

\* git_fails.
LEMMA GitFailsStep ==
    ASSUME IInv, NEW w \in Workers, git_fails(w)
    PROVE  IInv'
<1>0. TypeInv /\ TaskOK(w) /\ UNCHANGED <<store, push, rest>> BY Zenon DEF IInv, git_fails
<1>1. CASE task[w].pc \in {"prefetch", "compare", "observe"} /\ PublishFails(w)
  BY <1>0, <1>1, PublishFailsStep, Zenon DEF BeforePush
<1>2. CASE task[w].pc \in {"refetch", "reversion"} /\ Go(w, "finish") /\ UNCHANGED lock
  <2>1. Quiet(w) BY <1>0, <1>2, UnlockIsQuiet, Zenon DEF store, rest
  <2>2. Becomes(w, task[w].job, "finish", task[w].push, task[w].saw)
    BY <1>0, <1>2, GoBecomes, Zenon DEF Pcs
  <2>3. TaskOK(w)'
    BY <1>0, <1>2, <2>1, <2>2, Zenon
       DEF Becomes, Quiet, TaskOK, JobOK, Holds, FreshOK, NeedsConsent, PublishOK, BeforePush,
           AfterPush, Undecided
  <2>4. Stays(w) /\ ~Rejecting(w)' BY <1>2, <2>2, Zenon DEF Becomes, Stays, Rejecting, Removed, BeforePush
  <2> QED BY <1>0, <2>1, <2>2, <2>3, <2>4, TaskOnlyStep, Zenon
<1> QED BY <1>1, <1>2, Zenon DEF git_fails

\* The refs that land are refs of the push, and those left out had its object before.
LEMMA GitPushStep ==
    ASSUME IInv, NEW w \in Workers, git_push(w)
    PROVE  IInv'
<1> DEFINE p == task[w].push
<1> DEFINE saw == task[w].saw
<1>0. /\ TypeInv /\ TaskOK(w) /\ task[w].pc = "push"
      /\ UNCHANGED <<mirror, push, lock, config, resuming, consent>>
  BY Zenon DEF IInv, git_push
<1>1. /\ p \in Pushes /\ task[w].job \in {"receive", "publish"} /\ push[p].refs \subseteq Refs
      /\ consent[p] = TRUE
  BY <1>0, Zenon DEF TaskOK, JobOK, BeforePush, NeedsConsent, TypeInv, PushRecord
<1>2. saw \subseteq push[p].refs /\ push[p].refs \ saw \subseteq landed[p]
  BY <1>0, Zenon DEF TaskOK, PublishOK
<1>3. PushOK(p) /\ UpstreamInv BY <1>1, Zenon DEF IInv
<1>4. CASE UNCHANGED <<upstream, landed>> /\ Go(w, "observe")
  <2>1. Quiet(w) BY <1>0, <1>4, UnlockIsQuiet, Zenon
  <2>2. Becomes(w, task[w].job, "observe", p, saw) BY <1>0, <1>4, GoBecomes, Zenon DEF Pcs
  <2>3. TaskOK(w)'
    BY <1>0, <2>1, <2>2, Zenon
       DEF Becomes, Quiet, TaskOK, JobOK, Holds, FreshOK, NeedsConsent, PublishOK, BeforePush,
           AfterPush, Undecided
  <2>4. Stays(w) /\ ~Rejecting(w)'
    BY <1>0, <1>1, <2>2, Zenon DEF Becomes, Stays, Rejecting, Removed, BeforePush
  <2> QED BY <1>0, <2>1, <2>2, <2>3, <2>4, TaskOnlyStep, Zenon
<1>5. ASSUME Lands(p, saw), NEW next \in {"refetch", "observe"}, Go(w, next) PROVE IInv'
  <2>1. Becomes(w, task[w].job, next, p, saw) BY <1>0, <1>5, GoBecomes, Zenon DEF Pcs
  <2>2. /\ landed' \in [Pushes -> SUBSET Refs] /\ landed'[p] = landed[p] \cup saw
        /\ \A q \in Pushes \ {p} : landed'[q] = landed[q]
    BY <1>0, <1>1, <1>2, <1>5, Zenon DEF Lands, TypeInv
  <2>3. /\ upstream' \in [Refs -> Objects]
        /\ \A r \in Refs : upstream'[r] = IF r \in saw THEN p ELSE upstream[r]
    BY <1>0, <1>1, <1>5, Zenon DEF Lands, TypeInv, Objects
  <2>4. TypeInv' BY <1>0, <2>1, <2>2, <2>3, Zenon DEF TypeInv, Becomes
  <2>5. Others(w) BY <1>0, <2>1, <2>2, Zenon DEF Others, Becomes
  <2>6. UpstreamInv' BY <1>1, <1>3, <2>2, <2>3 DEF UpstreamInv
  <2>7. Stays(w) /\ ~Rejecting(w)'
    BY <1>0, <1>1, <2>1, Zenon DEF Becomes, Stays, Rejecting, Removed, BeforePush
  <2>8. push[p].refs \subseteq landed'[p] /\ landed'[p] \subseteq push[p].refs
    BY <1>2, <1>3, <2>2, Zenon DEF PushOK
  <2>9. TaskOK(w)'
    BY <1>0, <1>1, <2>1, <2>8, Zenon
       DEF Becomes, TaskOK, JobOK, Holds, FreshOK, NeedsConsent, PublishOK, BeforePush, AfterPush,
           Undecided
  <2>10. Shares(w) BY <1>0, <2>2, Zenon DEF Shares
  <2>11. \A q \in Pushes : q = p => PushOK(q)' BY <1>0, <1>1, <2>8, Zenon DEF PushOK
  <2> QED BY <2>4, <2>5, <2>6, <2>7, <2>9, <2>10, <2>11, TaskStep, Zenon
<1> QED BY <1>4, <1>5, Zenon DEF git_push

\* stage_receive_namespace.
LEMMA StageStep ==
    ASSUME IInv, NEW w \in Workers, stage_receive_namespace(w)
    PROVE  IInv'
<1> DEFINE p == task[w].push
<1>0. /\ TypeInv /\ TaskOK(w) /\ task[w].job = "receive" /\ task[w].pc = "stage"
      /\ UNCHANGED <<store, lock, rest>>
  BY Zenon DEF IInv, stage_receive_namespace, At
<1>1. p \in Pushes BY <1>0, Zenon DEF TaskOK, JobOK
<1>2. Quiet(w) BY <1>0, UnlockIsQuiet, Zenon DEF store, rest
<1>3. Becomes(w, task[w].job, "relay", p, task[w].saw)
  BY <1>0, GoBecomes, Zenon DEF stage_receive_namespace, Pcs
<1>4. PushBecomes(p, push[p].refs, TRUE, push[p].status, push[p].record, push[p].claim)
  <2>1. mirror \in Expected BY <1>0, Zenon DEF TypeInv, Expected
  <2> QED BY <1>0, <1>1, <2>1, SetStaged, Zenon DEF stage_receive_namespace
<1>5. PushOK(p) BY <1>1, Zenon DEF IInv
<1>6. \A q \in Pushes : q = p => PushOK(q)' BY <1>1, <1>2, <1>4, <1>5 DEF PushBecomes, Quiet, PushOK
<1>7. Shares(w) BY <1>0, <1>2, <1>4, Zenon DEF Shares, Quiet, PushBecomes
<1>8. TaskOK(w)'
  BY <1>0, <1>1, <1>2, <1>3, <1>4, Zenon
     DEF Becomes, PushBecomes, Quiet, TaskOK, JobOK, Holds, FreshOK, NeedsConsent, PublishOK,
         BeforePush, AfterPush,
         Undecided
<1>9. Stays(w) /\ ~Rejecting(w)' BY <1>0, <1>3, Zenon DEF Becomes, Stays, Rejecting
<1> QED BY <1>1, <1>2, <1>3, <1>4, <1>6, <1>7, <1>8, <1>9, PushStep, Zenon

\* The received push of w is given up.
LEMMA CleanStep ==
    ASSUME IInv, NEW w \in Workers, task[w].job = "receive", task[w].pc # "lock", GoWith(w, "clean", {"Failed"}),
           UNCHANGED <<store, push, lock, rest>>
    PROVE  IInv'
<1>0. TypeInv /\ TaskOK(w) /\ {"Failed"} \in SUBSET Values BY Zenon DEF IInv, Values, Terminal
<1>1. Quiet(w) BY <1>0, UnlockIsQuiet, Zenon DEF store, rest
<1>2. Becomes(w, task[w].job, "clean", task[w].push, {"Failed"})
  BY <1>0, GoWithBecomes, Zenon DEF Pcs
<1>3. TaskOK(w)'
  BY <1>0, <1>1, <1>2, Zenon
     DEF Becomes, Quiet, TaskOK, JobOK, Holds, FreshOK, NeedsConsent, PublishOK, BeforePush,
         AfterPush, Undecided
<1>4. Stays(w) /\ ~Rejecting(w)' BY <1>2, Zenon DEF Becomes, Stays, Rejecting
<1> QED BY <1>1, <1>2, <1>3, <1>4, TaskOnlyStep, Zenon

\* The refs of a push are fixed before anything of it lands.
LEMMA ReceivedUpdatesStep ==
    ASSUME IInv, NEW w \in Workers, received_updates(w)
    PROVE  IInv'
<1> DEFINE p == task[w].push
<1>0. TypeInv /\ TaskOK(w) /\ task[w].job = "receive" /\ task[w].pc = "relay" /\ UNCHANGED <<store, lock, rest>>
  BY Zenon DEF IInv, received_updates, At
<1>1. p \in Pushes BY <1>0, Zenon DEF TaskOK, JobOK
<1>2. Quiet(w) BY <1>0, UnlockIsQuiet, Zenon DEF store, rest
<1>3. CASE GoWith(w, "clean", {"Failed"}) /\ UNCHANGED push BY <1>0, <1>3, CleanStep, Zenon
<1>4. ASSUME NEW refs \in SUBSET Refs, push' = [push EXCEPT ![p].refs = refs], Go(w, "decide") PROVE IInv'
  <2>1. Becomes(w, task[w].job, "decide", p, task[w].saw) BY <1>0, <1>4, GoBecomes, Zenon DEF Pcs
  <2>2. PushBecomes(p, refs, push[p].retained, push[p].status, push[p].record, push[p].claim)
    BY <1>0, <1>1, <1>4, SetRefs, Zenon
  <2>3. PushOK(p) /\ landed[p] = {} /\ push[p].status # "Published"
    BY <1>0, <1>1, Zenon DEF IInv, TaskOK, FreshOK, Undecided
  <2>4. \A q \in Pushes : q = p => PushOK(q)'
    BY <1>1, <1>2, <2>2, <2>3, Zenon DEF PushBecomes, Quiet, PushOK
  <2>5. Shares(w) BY <1>0, <1>2, <2>2, Zenon DEF Shares, Quiet, PushBecomes
  <2>6. TaskOK(w)'
    BY <1>0, <1>1, <1>2, <2>1, <2>2, Zenon
       DEF Becomes, PushBecomes, Quiet, TaskOK, JobOK, Holds, FreshOK, NeedsConsent, PublishOK,
           BeforePush, AfterPush,
           Undecided
  <2>7. Stays(w) /\ ~Rejecting(w)' BY <1>0, <2>1, Zenon DEF Becomes, Stays, Rejecting
  <2> QED BY <1>1, <1>2, <2>1, <2>2, <2>4, <2>5, <2>6, <2>7, PushStep, Zenon
<1> QED BY <1>3, <1>4, Zenon DEF received_updates

\* The most restrictive policy of some refs is allow only when each of them is allowed.
LEMMA UpdatesPolicyAllow ==
    ASSUME config \in [Refs -> Policies], NEW refs \in SUBSET Refs, refs # {}
    PROVE  /\ updates_policy(refs) \in Policies
           /\ updates_policy(refs) = "allow" => \A r \in refs : config[r] = "allow"
<1> DEFINE Most(policy) == \E r \in refs : config[r] = policy /\ \A s \in refs : Rank(config[s]) <= Rank(policy)
<1>0. \A r \in refs : config[r] \in Policies BY Zenon
<1>1. Rank("allow") = 1 /\ Rank("require-approval") = 2 /\ Rank("deny") = 3 BY Zenon DEF Rank
<1>2. \E policy \in Policies : Most(policy)
  <2>1. CASE \E r \in refs : config[r] = "deny"
    <3>1. Most("deny") BY <1>0, <1>1, <2>1 DEF Policies
    <3> QED BY <3>1, Zenon DEF Policies
  <2>2. CASE (\E r \in refs : config[r] = "require-approval") /\ ~\E r \in refs : config[r] = "deny"
    <3>1. Most("require-approval") BY <1>0, <1>1, <2>2 DEF Policies
    <3> QED BY <3>1, Zenon DEF Policies
  <2>3. CASE \A r \in refs : config[r] = "allow"
    <3>1. Most("allow") BY <1>1, <2>3
    <3> QED BY <3>1, Zenon DEF Policies
  <2> QED BY <1>0, <2>1, <2>2, <2>3, Zenon DEF Policies
<1>3. updates_policy(refs) \in Policies /\ Most(updates_policy(refs))
  <2>1. updates_policy(refs) = CHOOSE policy \in Policies : Most(policy) BY Zenon DEF updates_policy
  <2> HIDE DEF Most
  <2> QED BY <1>2, <2>1, Zenon
<1>4. updates_policy(refs) = "allow" => \A r \in refs : Rank(config[r]) <= Rank("allow") BY <1>3, Zenon
<1> QED BY <1>0, <1>1, <1>3, <1>4 DEF Policies

\* A push goes on without a user only if its refs are all allowed.
LEMMA CompleteReceivedPushStep ==
    ASSUME IInv, NEW w \in Workers, complete_received_push(w)
    PROVE  IInv'
<1> DEFINE p == task[w].push
<1> DEFINE refs == push[p].refs
<1> DEFINE policy == IF refs = {} THEN "none" ELSE IF config = Gone THEN "gone" ELSE updates_policy(refs)
<1> DEFINE next == CASE policy = "allow" -> "prefetch" [] policy = "require-approval" -> "retain" [] OTHER -> "clean"
<1> DEFINE saw == CASE policy = "none" -> {"Published"} [] policy = "deny" -> {"Denied"} [] OTHER -> {"Failed"}
<1> DEFINE agreed == config # Gone /\ \A r \in refs : config[r] = "allow"
<1>0. /\ TypeInv /\ TaskOK(w) /\ task[w].job = "receive" /\ task[w].pc = "decide"
      /\ UNCHANGED <<upstream, mirror, push, lock, config, resuming, landed>>
      /\ consent' = [consent EXCEPT ![p] = agreed] /\ GoWith(w, next, saw)
  BY Zenon DEF IInv, complete_received_push, At, store, GoWith
<1>1. p \in Pushes BY <1>0, Zenon DEF TaskOK, JobOK
<1>2. refs \in SUBSET Refs BY <1>0, <1>1, Zenon DEF TypeInv, PushRecord
<1>3. /\ refs # {} => policy \in Policies \cup {"gone"}
      /\ policy = "allow" => agreed
  <2>1. config # Gone => config \in [Refs -> Policies]
    BY <1>0, RepositoriesAssumption, Zenon DEF TypeInv
  <2>2. refs # {} /\ config # Gone => policy \in Policies /\ (policy = "allow" => agreed)
    BY <1>2, <2>1, UpdatesPolicyAllow, Zenon
  <2> QED BY <2>2, Zenon
<1> HIDE DEF policy
<1>4. /\ next \in {"prefetch", "retain", "clean"} /\ saw \in SUBSET {"Published", "Denied", "Failed"}
      /\ "Published" \in saw => refs = {}
      /\ next = "prefetch" => agreed
  BY <1>3, Zenon DEF Policies
<1> HIDE DEF next, saw
<1>5. Becomes(w, task[w].job, next, p, saw)
  <2>1. next \in Pcs /\ saw \in SUBSET Values BY <1>4, Zenon DEF Pcs, Values, Terminal
  <2> QED BY <1>0, <2>1, GoWithBecomes, Zenon
<1>6. /\ consent' \in [Pushes -> BOOLEAN] /\ (consent'[p] <=> agreed)
      /\ \A q \in Pushes \ {p} : consent'[q] = consent[q]
  BY <1>0, <1>1, Zenon DEF TypeInv
<1> HIDE DEF agreed
<1>7. landed[p] = {} /\ ~push[p].claim /\ PushOK(p)
  BY <1>0, <1>1, Zenon DEF IInv, TaskOK, FreshOK, Undecided
<1>8. TypeInv' BY <1>0, <1>5, <1>6, Zenon DEF TypeInv, Becomes
<1>9. Others(w) BY <1>0, <1>5, <1>6, Zenon DEF Others, Becomes
<1>10. Shares(w) BY <1>0, Zenon DEF Shares
<1>11. \A q \in Pushes : q = p => PushOK(q)' BY <1>0, <1>1, <1>7, Zenon DEF PushOK
<1>12. TaskOK(w)'
  BY <1>0, <1>1, <1>4, <1>5, <1>6, Zenon
     DEF Becomes, TaskOK, JobOK, Holds, FreshOK, NeedsConsent, PublishOK, BeforePush, AfterPush,
         Undecided
<1>13. Stays(w) /\ ~Rejecting(w)' BY <1>0, <1>5, Zenon DEF Becomes, Stays, Rejecting
<1>14. UpstreamInv' BY <1>0, Zenon DEF IInv, UpstreamInv
<1> QED BY <1>8, <1>9, <1>10, <1>11, <1>12, <1>13, <1>14, TaskStep, Zenon

\* Setting the status of a record.
LEMMA StatusRecord ==
    ASSUME NEW x \in PushRecord, NEW v \in Values, NEW y, y = [x EXCEPT !.status = v]
    PROVE  /\ y \in PushRecord /\ y.status = v /\ y.refs = x.refs /\ y.retained = x.retained
           /\ y.record = x.record /\ y.claim = x.claim
BY Zenon DEF PushRecord

\* A status is recorded, and old ones of other pushes may be pruned.
Pruned(p, state) ==
    /\ push' \in [Pushes -> PushRecord]
    /\ push'[p].status = state
    /\ \A s \in Pushes :
          /\ push'[s].refs = push[s].refs /\ push'[s].retained = push[s].retained
          /\ push'[s].record = push[s].record /\ push'[s].claim = push[s].claim
          /\ s # p => push'[s].status \in {push[s].status, "none"}

\* record_push_status, field by field.
LEMMA RecordStatusPrunes ==
    ASSUME TypeInv, NEW p \in Pushes, NEW state \in Values, record_push_status(p, state)
    PROVE  Pruned(p, state)
<1>1. PICK old \in SUBSET {s \in Pushes \ {p} : push[s].status \in Terminal} :
          push' = [s \in Pushes |-> IF s = p THEN [push[s] EXCEPT !.status = state]
                                    ELSE IF s \in old THEN [push[s] EXCEPT !.status = "none"] ELSE push[s]]
  BY Zenon DEF record_push_status
<1>2. "none" \in Values BY Zenon DEF Values
<1>3. ASSUME NEW s \in Pushes
      PROVE  /\ push'[s] \in PushRecord
             /\ push'[s].refs = push[s].refs /\ push'[s].retained = push[s].retained
             /\ push'[s].record = push[s].record /\ push'[s].claim = push[s].claim
             /\ s = p => push'[s].status = state
             /\ s # p => push'[s].status \in {push[s].status, "none"}
  <2> DEFINE y == push'[s]
  <2>0. push[s] \in PushRecord BY Zenon DEF TypeInv
  <2>1. CASE s = p
    <3>1. y = [push[s] EXCEPT !.status = state] BY <1>1, <2>1, Zenon
    <3> HIDE DEF y
    <3>2. /\ y \in PushRecord /\ y.status = state /\ y.refs = push[s].refs /\ y.retained = push[s].retained
          /\ y.record = push[s].record /\ y.claim = push[s].claim
      BY <2>0, <3>1, StatusRecord
    <3> QED BY <2>1, <3>2, Zenon DEF y
  <2>2. CASE s # p /\ s \in old
    <3>1. y = [push[s] EXCEPT !.status = "none"] BY <1>1, <2>2, Zenon
    <3> HIDE DEF y
    <3>2. /\ y \in PushRecord /\ y.status = "none" /\ y.refs = push[s].refs /\ y.retained = push[s].retained
          /\ y.record = push[s].record /\ y.claim = push[s].claim
      BY <1>2, <2>0, <3>1, StatusRecord
    <3> QED BY <2>2, <3>2, Zenon DEF y
  <2>3. CASE s # p /\ s \notin old BY <1>1, <2>0, <2>3, Zenon
  <2> QED BY <2>1, <2>2, <2>3, Zenon
<1>4. DOMAIN push' = Pushes /\ push' = [s \in Pushes |-> push'[s]] BY <1>1, Zenon
<1> QED BY <1>3, <1>4, Zenon DEF Pruned

\* A received push gets its status.
LEMMA RecordStatusStep ==
    ASSUME IInv, NEW w \in Workers, task[w].job = "receive", task[w].push \in Pushes,
           NEW state, Pruned(task[w].push, state), state # "Rejected",
           state = "Published" => push[task[w].push].refs \subseteq landed[task[w].push],
           NEW job, NEW pc, NEW q, NEW saw, Becomes(w, job, pc, q, saw), Quiet(w), Stays(w), TaskOK(w)', ~Rejecting(w)'
    PROVE  IInv'
<1> DEFINE p == task[w].push
<1>0. TypeInv /\ TaskOK(w) /\ PushOK(p) BY Zenon DEF IInv
<1>1. TypeInv' BY <1>0, Zenon DEF TypeInv, Becomes, Quiet, Pruned
<1>2. Others(w)
  <2>1. 0 \notin Workers BY ZeroIsNoWorker, Zenon
  <2> QED BY <2>1, Zenon DEF Others, Becomes, Quiet, Pruned
<1>3. Shares(w) BY Zenon DEF Shares, Quiet, Pruned
<1>4. \A s \in Pushes : s = p => PushOK(s)'
  <2>1. push'[p].refs = push[p].refs /\ push'[p].claim = push[p].claim /\ push'[p].status = state
    BY Zenon DEF Pruned
  <2>2. landed' = landed /\ consent' = consent BY Zenon DEF Quiet
  <2> QED BY <1>0, <2>1, <2>2, Zenon DEF PushOK
<1>5. UpstreamInv' BY Zenon DEF IInv, UpstreamInv, Quiet
<1> QED BY <1>1, <1>2, <1>3, <1>4, <1>5, TaskStep, Zenon

\* retain_received_push.
LEMMA RetainStep ==
    ASSUME IInv, NEW w \in Workers, retain_received_push(w)
    PROVE  IInv'
<1> DEFINE p == task[w].push
<1>0. TypeInv /\ TaskOK(w) /\ task[w].job = "receive" /\ UNCHANGED <<store, rest>>
  BY Zenon DEF IInv, retain_received_push, At
<1>1. p \in Pushes BY <1>0, Zenon DEF TaskOK, JobOK
<1>2. PushOK(p) BY <1>1, Zenon DEF IInv
<1>3. CASE /\ At(w, "receive", "retain")
           /\ push' = [push EXCEPT ![p].bases = TRUE] /\ Go(w, "await") /\ UNCHANGED lock
  <2>1. Quiet(w) BY <1>0, <1>3, UnlockIsQuiet, Zenon DEF store, rest
  <2>2. Becomes(w, task[w].job, "await", p, task[w].saw) BY <1>0, <1>3, GoBecomes, Zenon DEF Pcs
  <2>3. PushBecomes(p, push[p].refs, push[p].retained, push[p].status, push[p].record, push[p].claim)
    BY <1>0, <1>1, <1>3, SetBases, Zenon
  <2>4. \A q \in Pushes : q = p => PushOK(q)'
    BY <1>2, <2>1, <2>3, Zenon DEF PushBecomes, Quiet, PushOK
  <2>5. Shares(w) BY <2>1, <2>3, Zenon DEF Shares, Quiet, PushBecomes
  <2>6. TaskOK(w)'
    BY <1>0, <1>1, <1>3, <2>1, <2>2, <2>3, Zenon
       DEF At, Becomes, PushBecomes, Quiet, TaskOK, JobOK, Holds, FreshOK, NeedsConsent, PublishOK,
           BeforePush,
           AfterPush, Undecided
  <2>7. Stays(w) /\ ~Rejecting(w)' BY <1>0, <2>2, Zenon DEF Becomes, Stays, Rejecting
  <2> QED BY <1>1, <2>1, <2>2, <2>3, <2>4, <2>5, <2>6, <2>7, PushStep, Zenon
<1>4. CASE At(w, "receive", "retain") /\ GoWith(w, "clean", {"Failed"}) /\ UNCHANGED <<push, lock>>
  BY <1>0, <1>4, CleanStep, Zenon DEF At
<1>5. CASE /\ At(w, "receive", "await") /\ record_push_status(p, "ApprovalRequired") /\ Go(w, "create")
           /\ UNCHANGED lock
  <2>1. Quiet(w) BY <1>0, <1>5, UnlockIsQuiet, Zenon DEF store, rest
  <2>2. Becomes(w, task[w].job, "create", p, task[w].saw) BY <1>0, <1>5, GoBecomes, Zenon DEF Pcs
  <2>3. Stays(w) BY <1>0, <2>2, Zenon DEF Becomes, Stays
  <2>4. "ApprovalRequired" \in Values BY Zenon DEF Values
  <2>5. Pruned(p, "ApprovalRequired") BY <1>0, <1>1, <1>5, <2>4, RecordStatusPrunes, Zenon
  <2>6. TaskOK(w)'
    BY <1>0, <1>1, <1>5, <2>1, <2>2, <2>5, ZenonT(40)
       DEF At, Pruned, Becomes, Quiet, TaskOK, JobOK, Holds, FreshOK, NeedsConsent, PublishOK,
           BeforePush, AfterPush,
           Undecided
  <2>7. ~Rejecting(w)' BY <1>0, <2>2, Zenon DEF Becomes, Rejecting
  <2> QED BY <1>0, <1>1, <2>1, <2>2, <2>3, <2>5, <2>6, <2>7, RecordStatusStep, Zenon
<1>6. CASE /\ push' = [push EXCEPT ![p].bases = FALSE, ![p].retained = FALSE]
           /\ \/ Quit(w)
              \/ Go(w, "undo") /\ UNCHANGED lock /\ At(w, "receive", "create")
  <2>1. Quiet(w) BY <1>0, <1>6, UnlockIsQuiet, Zenon DEF store, rest, Quit
  <2>2. PushBecomes(p, push[p].refs, FALSE, push[p].status, push[p].record, push[p].claim)
    BY <1>0, <1>1, <1>6, SetReleased, Zenon
  <2>3. \A q \in Pushes : q = p => PushOK(q)'
    BY <1>2, <2>1, <2>2, Zenon DEF PushBecomes, Quiet, PushOK
  <2>4. Shares(w) BY <1>0, <2>1, <2>2, Zenon DEF Shares, Quiet, PushBecomes
  <2>5. CASE End(w) BY <1>1, <2>1, <2>2, <2>3, <2>4, <2>5, EndPushStep, Zenon
  <2>6. CASE Go(w, "undo") /\ UNCHANGED lock /\ At(w, "receive", "create")
    <3>1. Becomes(w, task[w].job, "undo", p, task[w].saw) BY <1>0, <2>6, GoBecomes, Zenon DEF Pcs
    <3>2. TaskOK(w)'
      BY <1>0, <1>1, <2>6, <2>1, <2>2, <3>1, Zenon
         DEF At, Becomes, PushBecomes, Quiet, TaskOK, JobOK, Holds, FreshOK, NeedsConsent,
             PublishOK, BeforePush,
             AfterPush, Undecided
    <3>3. Stays(w) /\ ~Rejecting(w)' BY <1>0, <3>1, Zenon DEF Becomes, Stays, Rejecting
    <3> QED BY <1>1, <2>1, <2>2, <2>3, <2>4, <3>1, <3>2, <3>3, PushStep, Zenon
  <2> QED BY <1>6, <2>5, <2>6, Zenon DEF Quit
<1>7. CASE push' = [push EXCEPT ![p].record = {}] /\ Quit(w)
  <2>1. Quiet(w) BY <1>0, <1>7, UnlockIsQuiet, Zenon DEF store, rest, Quit
  <2>2. PushBecomes(p, push[p].refs, push[p].retained, push[p].status, {}, push[p].claim)
    BY <1>0, <1>1, <1>7, SetRecord, Zenon
  <2>3. \A q \in Pushes : q = p => PushOK(q)'
    BY <1>2, <2>1, <2>2, Zenon DEF PushBecomes, Quiet, PushOK
  <2>4. Shares(w) BY <1>0, <2>1, <2>2, Zenon DEF Shares, Quiet, PushBecomes
  <2> QED BY <1>1, <1>7, <2>1, <2>2, <2>3, <2>4, EndPushStep, Zenon DEF Quit
<1>8. CASE push' = [push EXCEPT ![p].status = "Failed"] /\ Quit(w)
  <2>1. Quiet(w) BY <1>0, <1>8, UnlockIsQuiet, Zenon DEF store, rest, Quit
  <2>2. "Failed" \in Values BY Zenon DEF Values, Terminal
  <2>3. PushBecomes(p, push[p].refs, push[p].retained, "Failed", push[p].record, push[p].claim)
    BY <1>0, <1>1, <1>8, <2>2, SetStatus, Zenon
  <2>4. \A q \in Pushes : q = p => PushOK(q)'
    BY <1>2, <2>1, <2>3, Zenon DEF PushBecomes, Quiet, PushOK
  <2>5. Shares(w) BY <1>0, <2>1, <2>3, Zenon DEF Shares, Quiet, PushBecomes
  <2> QED BY <1>1, <1>8, <2>1, <2>3, <2>4, <2>5, EndPushStep, Zenon DEF Quit
<1> QED BY <1>3, <1>4, <1>5, <1>6, <1>7, <1>8, Zenon DEF retain_received_push

\* A received push is reported as published only after its refs landed.
LEMMA FinishReceivedStep ==
    ASSUME IInv, NEW w \in Workers, finish_received_push(w)
    PROVE  IInv'
<1> DEFINE p == task[w].push
<1>0. TypeInv /\ TaskOK(w) /\ task[w].job = "receive" /\ UNCHANGED <<store, rest>>
  BY Zenon DEF IInv, finish_received_push, At
<1>1. p \in Pushes BY <1>0, Zenon DEF TaskOK, JobOK
<1>2. PushOK(p) BY <1>1, Zenon DEF IInv
<1>3. CASE At(w, "receive", "finish") /\ GoWith(w, "clean", {"Published"}) /\ UNCHANGED <<push, lock>>
  <2>1. Quiet(w) BY <1>0, <1>3, UnlockIsQuiet, Zenon DEF store, rest
  <2>2. {"Published"} \in SUBSET Values BY Zenon DEF Values, Terminal
  <2>3. Becomes(w, task[w].job, "clean", p, {"Published"})
    BY <1>0, <1>3, <2>2, GoWithBecomes, Zenon DEF Pcs
  <2>4. TaskOK(w)'
    BY <1>0, <1>1, <1>3, <2>1, <2>3, Zenon
       DEF At, Becomes, Quiet, TaskOK, JobOK, Holds, FreshOK, NeedsConsent, PublishOK, BeforePush,
           AfterPush, Undecided
  <2>5. Stays(w) /\ ~Rejecting(w)' BY <1>0, <2>3, Zenon DEF Becomes, Stays, Rejecting
  <2> QED BY <1>3, <2>1, <2>3, <2>4, <2>5, TaskOnlyStep, Zenon
<1>4. CASE /\ At(w, "receive", "clean")
           /\ push' = [push EXCEPT ![p].retained = FALSE] /\ Go(w, "report") /\ UNCHANGED lock
  <2>1. Quiet(w) BY <1>0, <1>4, UnlockIsQuiet, Zenon DEF store, rest
  <2>2. Becomes(w, task[w].job, "report", p, task[w].saw) BY <1>0, <1>4, GoBecomes, Zenon DEF Pcs
  <2>3. PushBecomes(p, push[p].refs, FALSE, push[p].status, push[p].record, push[p].claim)
    BY <1>0, <1>1, <1>4, ClearRetained, Zenon
  <2>4. \A q \in Pushes : q = p => PushOK(q)'
    BY <1>2, <2>1, <2>3, Zenon DEF PushBecomes, Quiet, PushOK
  <2>5. Shares(w) BY <1>0, <2>1, <2>3, Zenon DEF Shares, Quiet, PushBecomes
  <2>6. TaskOK(w)'
    BY <1>0, <1>1, <1>4, <2>1, <2>2, <2>3
       DEF At, Becomes, PushBecomes, Quiet, TaskOK, JobOK, Holds, FreshOK, NeedsConsent, PublishOK,
           BeforePush,
           AfterPush, Undecided
  <2>7. Stays(w) /\ ~Rejecting(w)' BY <1>0, <2>2, Zenon DEF Becomes, Stays, Rejecting
  <2> QED BY <1>1, <2>1, <2>2, <2>3, <2>4, <2>5, <2>6, <2>7, PushStep, Zenon
<1>5. ASSUME At(w, "receive", "report"), NEW outcome \in task[w].saw, record_push_status(p, outcome), Quit(w)
      PROVE  IInv'
  <2>1. Quiet(w) BY <1>0, <1>5, UnlockIsQuiet, Zenon DEF store, rest, Quit
  <2>2. Becomes(w, "idle", "done", "", {}) BY <1>0, <1>5, EndBecomes, Zenon DEF Quit
  <2>3. Stays(w) /\ ~Rejecting(w)' BY <2>2, Zenon DEF Becomes, Stays, Rejecting
  <2>4. /\ outcome \in {"Published", "Denied", "Failed"} /\ outcome \in Values
        /\ outcome = "Published" => push[p].refs \subseteq landed[p]
    BY <1>0, <1>5, Zenon DEF At, TaskOK, FreshOK, PublishOK, Values, Terminal
  <2>5. Pruned(p, outcome) BY <1>0, <1>1, <1>5, <2>4, RecordStatusPrunes, Zenon
  <2>6. outcome # "Rejected" BY <2>4, Zenon
  <2>7. TaskOK(w)'
    BY <2>2, Zenon DEF Becomes, TaskOK, JobOK, Holds, FreshOK, NeedsConsent, PublishOK, BeforePush,
       AfterPush
  <2> QED BY <1>0, <1>1, <2>1, <2>2, <2>3, <2>4, <2>5, <2>6, <2>7, RecordStatusStep, Zenon
<1> QED BY <1>3, <1>4, <1>5, Zenon DEF finish_received_push

-----------------------------------------------------------------------------
\* Decisions and the publication of what was approved

\* The claim is what gives consent.
LEMMA ClaimStep ==
    ASSUME IInv, NEW w \in Workers, claim_approval(w)
    PROVE  IInv'
<1> DEFINE p == task[w].push
<1>0. TypeInv /\ TaskOK(w) /\ task[w].job = "approve" /\ UNCHANGED <<store, lock, config, resuming, landed>>
  BY Zenon DEF IInv, claim_approval, At, rest
<1>1. p \in Pushes BY <1>0, Zenon DEF TaskOK, JobOK
<1>2. PushOK(p) BY <1>1, Zenon DEF IInv
<1>3. CASE End(w) /\ UNCHANGED <<push, consent>>
  <2>1. Quiet(w) BY <1>0, <1>3, UnlockIsQuiet, Zenon DEF store
  <2> QED BY <1>3, <2>1, EndStep, Zenon
<1>4. CASE GoWith(w, "claim", push[p].record) /\ UNCHANGED <<push, consent>>
  <2>1. Quiet(w) BY <1>0, <1>4, UnlockIsQuiet, Zenon DEF store
  <2>2. push[p].record \in SUBSET Values BY <1>0, <1>1, Zenon DEF TypeInv, PushRecord
  <2>3. Becomes(w, task[w].job, "claim", p, push[p].record)
    BY <1>0, <1>4, <2>2, GoWithBecomes DEF Pcs
  <2>4. TaskOK(w)'
    BY <1>0, <1>1, <2>3, Zenon
       DEF Becomes, TaskOK, JobOK, Holds, FreshOK, NeedsConsent, PublishOK, BeforePush, AfterPush
  <2>5. Stays(w) /\ ~Rejecting(w)' BY <1>0, <2>3, Zenon DEF Becomes, Stays, Rejecting
  <2> QED BY <1>4, <2>1, <2>3, <2>4, <2>5, TaskOnlyStep, Zenon
<1>5. CASE push' = [push EXCEPT ![p].claim = TRUE] /\ Go(w, "write") /\ consent' = [consent EXCEPT ![p] = TRUE]
  <2>1. Becomes(w, task[w].job, "write", p, task[w].saw) BY <1>0, <1>5, GoBecomes, Zenon DEF Pcs
  <2>2. PushBecomes(p, push[p].refs, push[p].retained, push[p].status, push[p].record, TRUE)
    BY <1>0, <1>1, <1>5, SetClaim, Zenon
  <2>3. /\ consent' \in [Pushes -> BOOLEAN] /\ consent'[p] = TRUE
        /\ \A q \in Pushes \ {p} : consent'[q] = consent[q]
    BY <1>0, <1>1, <1>5, Zenon DEF TypeInv
  <2>4. TypeInv' BY <1>0, <2>1, <2>2, <2>3, Zenon DEF TypeInv, Becomes, PushBecomes, store
  <2>5. Others(w) BY <1>0, <2>1, <2>2, <2>3, Zenon DEF Others, Becomes, PushBecomes
  <2>6. Shares(w) BY <1>0, <2>2, <2>3, Zenon DEF Shares, PushBecomes
  <2>7. \A q \in Pushes : q = p => PushOK(q)'
    BY <1>0, <1>2, <2>2, <2>3, Zenon DEF PushBecomes, PushOK
  <2>8. TaskOK(w)'
    BY <1>0, <1>1, <2>1, <2>3, Zenon
       DEF Becomes, TaskOK, JobOK, Holds, FreshOK, NeedsConsent, PublishOK, BeforePush, AfterPush
  <2>9. Stays(w) /\ ~Rejecting(w)' BY <1>0, <2>1, Zenon DEF Becomes, Stays, Rejecting
  <2>10. UpstreamInv' BY <1>0, Zenon DEF IInv, UpstreamInv, store
  <2> QED BY <2>4, <2>5, <2>6, <2>7, <2>8, <2>9, <2>10, TaskStep, Zenon
<1>6. CASE /\ At(w, "approve", "write") /\ push' = [push EXCEPT ![p].record = task[w].saw \ {"failed"}]
           /\ task' = Spawned(w, "publish", "read", p) /\ UNCHANGED consent
  <2>1. Quiet(w) BY <1>0, <1>6, UnlockIsQuiet, Zenon DEF store
  <2>2. task[w].saw \ {"failed"} \in SUBSET Values BY <1>0, Zenon DEF TypeInv, TaskRecord
  <2>3. Becomes(w, "publish", "read", p, {})
    BY <1>0, <1>1, <1>6, SpawnedBecomes, Zenon DEF Jobs, Pcs
  <2>4. PushBecomes(p, push[p].refs, push[p].retained, push[p].status, task[w].saw \ {"failed"}, push[p].claim)
    BY <1>0, <1>1, <1>6, <2>2, SetRecord, Zenon
  <2>5. \A q \in Pushes : q = p => PushOK(q)'
    BY <1>2, <2>1, <2>4, Zenon DEF PushBecomes, Quiet, PushOK
  <2>6. Shares(w) BY <1>0, <2>1, <2>4, Zenon DEF Shares, Quiet, PushBecomes
  <2>7. TaskOK(w)'
    BY <1>0, <1>1, <1>6, <2>1, <2>3, Zenon
       DEF At, Becomes, Quiet, TaskOK, JobOK, Holds, FreshOK, NeedsConsent, PublishOK, BeforePush,
           AfterPush
  <2>8. Stays(w) /\ ~Rejecting(w)' BY <2>3, Zenon DEF Becomes, Stays, Rejecting, BeforePush
  <2> QED BY <1>1, <2>1, <2>3, <2>4, <2>5, <2>6, <2>7, <2>8, PushStep, Zenon
<1>7. CASE push' = [push EXCEPT ![p].claim = FALSE] /\ End(w) /\ UNCHANGED consent
  <2>1. Quiet(w) BY <1>0, <1>7, UnlockIsQuiet, Zenon DEF store
  <2>2. PushBecomes(p, push[p].refs, push[p].retained, push[p].status, push[p].record, FALSE)
    BY <1>0, <1>1, <1>7, ClearClaim, Zenon
  <2>3. \A q \in Pushes : q = p => PushOK(q)'
    BY <1>2, <2>1, <2>2, Zenon DEF PushBecomes, Quiet, PushOK
  <2>4. Shares(w) BY <1>0, <2>1, <2>2, Zenon DEF Shares, Quiet, PushBecomes
  <2> QED BY <1>1, <1>7, <2>1, <2>2, <2>3, <2>4, EndPushStep, Zenon
<1> QED BY <1>3, <1>4, <1>5, <1>6, <1>7, Zenon DEF claim_approval, rest

\* postpone_approval.
LEMMA PostponeStep ==
    ASSUME IInv, NEW w \in Workers, postpone_approval(w)
    PROVE  IInv'
<1> DEFINE p == task[w].push
<1>0. TypeInv /\ TaskOK(w) /\ task[w].job = "postpone" /\ UNCHANGED <<store, lock, rest>>
  BY Zenon DEF IInv, postpone_approval, At
<1>1. p \in Pushes BY <1>0, Zenon DEF TaskOK, JobOK
<1>2. PushOK(p) BY <1>1, Zenon DEF IInv
<1>3. Quiet(w) BY <1>0, UnlockIsQuiet, Zenon DEF store, rest
<1>4. CASE End(w) /\ UNCHANGED push BY <1>3, <1>4, EndStep, Zenon
<1>5. CASE Go(w, "write") /\ UNCHANGED push
  <2>1. Becomes(w, task[w].job, "write", p, task[w].saw) BY <1>0, <1>5, GoBecomes, Zenon DEF Pcs
  <2>2. TaskOK(w)'
    BY <1>0, <1>1, <2>1, Zenon
       DEF Becomes, TaskOK, JobOK, Holds, FreshOK, NeedsConsent, PublishOK, BeforePush, AfterPush
  <2>3. Stays(w) /\ ~Rejecting(w)' BY <1>0, <2>1, Zenon DEF Becomes, Stays, Rejecting
  <2> QED BY <1>3, <1>5, <2>1, <2>2, <2>3, TaskOnlyStep, Zenon
<1>6. CASE push' = [push EXCEPT ![p].record = {"postponed"}] /\ End(w)
  <2>1. {"postponed"} \in SUBSET Values BY Zenon DEF Values
  <2>2. PushBecomes(p, push[p].refs, push[p].retained, push[p].status, {"postponed"}, push[p].claim)
    BY <1>0, <1>1, <1>6, <2>1, SetRecord, Zenon
  <2>3. \A q \in Pushes : q = p => PushOK(q)'
    BY <1>2, <1>3, <2>2, Zenon DEF PushBecomes, Quiet, PushOK
  <2>4. Shares(w) BY <1>0, <1>3, <2>2, Zenon DEF Shares, Quiet, PushBecomes
  <2> QED BY <1>1, <1>3, <1>6, <2>2, <2>3, <2>4, EndPushStep, Zenon
<1> QED BY <1>4, <1>5, <1>6, Zenon DEF postpone_approval

\* What was withdrawn stays so while the rejection goes on.
LEMMA WithdrawnStays ==
    ASSUME TypeInv, NEW w \in Workers, task[w].push \in Pushes, Withdrawn(task[w].push),
           NEW pc, NEW saw, task[w].job = "reject", Becomes(w, task[w].job, pc, task[w].push, saw),
           push'[task[w].push].retained = push[task[w].push].retained
    PROVE  Withdrawn(task[w].push)'
<1> DEFINE p == task[w].push
<1>1. task'[w].push = p /\ task'[w].job = "reject" BY Zenon DEF Becomes
<1>2. ~push'[p].retained BY Zenon DEF Withdrawn
<1>3. ASSUME NEW v \in Workers, task'[v].job = "publish", task'[v].push = p PROVE task'[v].pc \notin BeforePush
  <2>1. v # w BY <1>1, <1>3, Zenon
  <2> QED BY <1>3, <2>1, Zenon DEF Becomes, Withdrawn
<1> HIDE DEF p
<1> QED BY <1>1, <1>2, <1>3, Zenon DEF Withdrawn

\* The lock is free when the refs go, so no publication is on the way to its push.
LEMMA RemoveReferencesStep ==
    ASSUME IInv, NEW w \in Workers, remove_approval_references(w)
    PROVE  IInv'
<1> DEFINE p == task[w].push
<1>0. TypeInv /\ TaskOK(w) /\ task[w].job = "reject" /\ UNCHANGED <<store, rest>>
  BY Zenon DEF IInv, remove_approval_references, At
<1>1. p \in Pushes BY <1>0, Zenon DEF TaskOK, JobOK
<1>2. PushOK(p) BY <1>1, Zenon DEF IInv
<1>3. CASE /\ At(w, "reject", "refs") /\ Locks(w) /\ push' = [push EXCEPT ![p].retained = FALSE] /\ Go(w, "bases")
  <2>1. Quiet(w) /\ lock = 0 /\ lock' = w BY <1>0, <1>3, UnlockIsQuiet, Zenon DEF store, rest, Locks
  <2>2. Becomes(w, task[w].job, "bases", p, task[w].saw) BY <1>0, <1>3, GoBecomes, Zenon DEF Pcs
  <2>3. PushBecomes(p, push[p].refs, FALSE, push[p].status, push[p].record, push[p].claim)
    BY <1>0, <1>1, <1>3, ClearRetained, Zenon
  <2>4. \A q \in Pushes : q = p => PushOK(q)'
    BY <1>2, <2>1, <2>3, Zenon DEF PushBecomes, Quiet, PushOK
  <2>5. Shares(w) BY <1>0, <2>1, <2>3, Zenon DEF Shares, Quiet, PushBecomes
  <2>6. TaskOK(w)'
    BY <1>0, <1>1, <2>1, <2>2, Zenon
       DEF Becomes, TaskOK, JobOK, Holds, FreshOK, NeedsConsent, PublishOK, BeforePush, AfterPush
  <2>7. Stays(w) BY <1>0, <2>2, Zenon DEF Becomes, Stays
  <2>8. Withdrawn(task[w].push)'
    <3>1. task'[w].push = p /\ task'[w].job = "reject" BY <1>0, <2>2, Zenon DEF Becomes
    <3>2. ~push'[p].retained BY <2>3, Zenon DEF PushBecomes
    <3>3. ASSUME NEW v \in Workers, task'[v].job = "publish" PROVE task'[v].pc \notin BeforePush
      <4>1. v # w /\ task'[v] = task[v] BY <3>1, <3>3, <2>2, Zenon DEF Becomes
      <4>2. TaskOK(v) /\ lock # v BY <2>1, ZeroIsNoWorker, Zenon DEF IInv
      <4> QED BY <3>3, <4>1, <4>2, Zenon DEF TaskOK, Holds
    <3> HIDE DEF p
    <3> QED BY <3>1, <3>2, <3>3, Zenon DEF Withdrawn
  <2> QED BY <1>1, <2>1, <2>2, <2>3, <2>4, <2>5, <2>6, <2>7, <2>8, PushStep, Zenon
<1>4. CASE /\ At(w, "reject", "bases")
           /\ push' = [push EXCEPT ![p].bases = FALSE] /\ Go(w, "transition") /\ Unlock(w)
  <2>1. Quiet(w) BY <1>0, <1>4, UnlockIsQuiet, Zenon DEF store, rest
  <2>2. Becomes(w, task[w].job, "transition", p, task[w].saw) BY <1>0, <1>4, GoBecomes, Zenon DEF Pcs
  <2>3. PushBecomes(p, push[p].refs, push[p].retained, push[p].status, push[p].record, push[p].claim)
    BY <1>0, <1>1, <1>4, ClearBases, Zenon
  <2>4. \A q \in Pushes : q = p => PushOK(q)'
    BY <1>2, <2>1, <2>3, Zenon DEF PushBecomes, Quiet, PushOK
  <2>5. Shares(w) BY <1>0, <2>1, <2>3, Zenon DEF Shares, Quiet, PushBecomes
  <2>6. TaskOK(w)'
    BY <1>0, <1>1, <2>2, Zenon
       DEF Becomes, TaskOK, JobOK, Holds, FreshOK, NeedsConsent, PublishOK, BeforePush, AfterPush
  <2>7. Stays(w) BY <1>0, <2>2, Zenon DEF Becomes, Stays
  <2>8. Withdrawn(p) BY <1>4, Zenon DEF IInv, RejectInv, Rejecting, Removed, At
  <2>9. Withdrawn(task[w].push)'
    BY <1>0, <1>1, <2>2, <2>3, <2>8, WithdrawnStays, Zenon DEF PushBecomes
  <2> QED BY <1>1, <2>1, <2>2, <2>3, <2>4, <2>5, <2>6, <2>7, <2>9, PushStep, Zenon
<1>5. CASE Quit(w) /\ UNCHANGED push
  <2>1. Quiet(w) BY <1>0, <1>5, UnlockIsQuiet, Zenon DEF store, rest, Quit
  <2> QED BY <1>5, <2>1, EndStep, Zenon DEF Quit
<1> QED BY <1>3, <1>4, <1>5, Zenon DEF remove_approval_references

\* The status is written when the push is withdrawn.
LEMMA RejectStep ==
    ASSUME IInv, NEW w \in Workers, reject_approval(w)
    PROVE  IInv'
<1> DEFINE p == task[w].push
<1>1. CASE remove_approval_references(w) BY <1>1, RemoveReferencesStep, Zenon
<1>2. CASE ~remove_approval_references(w)
  <2>0. TypeInv /\ TaskOK(w) /\ task[w].job = "reject" /\ UNCHANGED <<store, lock, rest>>
    BY <1>2, Zenon DEF IInv, reject_approval, At
  <2>1. p \in Pushes BY <2>0, Zenon DEF TaskOK, JobOK
  <2>2. PushOK(p) BY <2>1, Zenon DEF IInv
  <2>3. Quiet(w) BY <2>0, UnlockIsQuiet, Zenon DEF store, rest
  <2>4. task[w].pc \in Removed => Withdrawn(p) BY <2>0, Zenon DEF IInv, RejectInv, Rejecting
  <2>5. CASE End(w) /\ UNCHANGED push BY <2>3, <2>5, EndStep, Zenon
  <2>6. ASSUME NEW next \in {"refs", "remove"}, Go(w, next), UNCHANGED push, next = "remove" => task[w].pc = "check"
        PROVE  IInv'
    <3>1. Becomes(w, task[w].job, next, p, task[w].saw) BY <2>0, <2>6, GoBecomes, Zenon DEF Pcs
    <3>2. TaskOK(w)'
      BY <2>0, <2>1, <2>6, <3>1, Zenon
         DEF Becomes, TaskOK, JobOK, Holds, FreshOK, NeedsConsent, PublishOK, BeforePush, AfterPush
    <3>3. Stays(w) BY <2>0, <3>1, Zenon DEF Becomes, Stays
    <3>4. (Rejecting(w) => Withdrawn(task[w].push))'
      <4>1. CASE next = "refs" BY <4>1, <3>1, Zenon DEF Becomes, Rejecting, Removed
      <4>2. CASE next = "remove"
        <5>1. Withdrawn(p) BY <2>4, <2>6, <4>2, Zenon DEF Removed
        <5> QED BY <2>0, <2>1, <2>6, <3>1, <5>1, WithdrawnStays, Zenon
      <4> QED BY <2>6, <4>1, <4>2, Zenon
    <3> QED BY <2>3, <2>6, <3>1, <3>2, <3>3, <3>4, TaskOnlyStep, Zenon
  <2>7. CASE At(w, "reject", "transition") /\ push' = [push EXCEPT ![p].status = "Rejected"] /\ Go(w, "check")
    <3>1. Becomes(w, task[w].job, "check", p, task[w].saw) BY <2>0, <2>7, GoBecomes, Zenon DEF Pcs
    <3>2. "Rejected" \in Values BY Zenon DEF Values, Terminal
    <3>3. PushBecomes(p, push[p].refs, push[p].retained, "Rejected", push[p].record, push[p].claim)
      BY <2>0, <2>1, <2>7, <3>2, SetStatus, Zenon
    <3>4. \A q \in Pushes : q = p => PushOK(q)'
      BY <2>2, <2>3, <3>3, Zenon DEF PushBecomes, Quiet, PushOK
    <3>5. Shares(w) BY <2>0, <2>3, <2>7, <3>3, Zenon DEF Shares, Quiet, PushBecomes, Rejecting, Removed, At
    <3>6. TaskOK(w)'
      BY <2>0, <2>1, <3>1, Zenon
         DEF Becomes, TaskOK, JobOK, Holds, FreshOK, NeedsConsent, PublishOK, BeforePush, AfterPush
    <3>7. Stays(w) BY <2>0, <3>1, Zenon DEF Becomes, Stays
    <3>8. Withdrawn(p) BY <2>4, <2>7, Zenon DEF Removed, At
    <3>9. Withdrawn(task[w].push)'
      BY <2>0, <2>1, <3>1, <3>3, <3>8, WithdrawnStays, Zenon DEF PushBecomes
    <3> QED BY <2>1, <2>3, <3>1, <3>3, <3>4, <3>5, <3>6, <3>7, <3>9, PushStep, Zenon
  <2>8. CASE push' = [push EXCEPT ![p].record = Absent] /\ End(w)
    <3>1. Absent \in SUBSET Values BY Zenon DEF Absent, Values
    <3>2. PushBecomes(p, push[p].refs, push[p].retained, push[p].status, Absent, push[p].claim)
      BY <2>0, <2>1, <2>8, <3>1, SetRecord, Zenon
    <3>3. \A q \in Pushes : q = p => PushOK(q)'
      BY <2>2, <2>3, <3>2, Zenon DEF PushBecomes, Quiet, PushOK
    <3>4. Shares(w) BY <2>0, <2>3, <3>2, Zenon DEF Shares, Quiet, PushBecomes
    <3> QED BY <2>1, <2>3, <2>8, <3>2, <3>3, <3>4, EndPushStep, Zenon
  <2> QED BY <1>2, <2>5, <2>6, <2>7, <2>8, Zenon DEF reject_approval, At
<1> QED BY <1>1, <1>2, Zenon

\* A publication goes on and leaves its push alone.
LEMMA PublishGoStep ==
    ASSUME IInv, NEW w \in Workers, task[w].job = "publish", NEW next \in Pcs, NEW saw \in SUBSET Values,
           Becomes(w, task[w].job, next, task[w].push, saw), UNCHANGED push, Quiet(w),
           \/ next \in {"lock", "fail", "mark", "unclaim"}
           \/ next = "prefetch" /\ lock' = w /\ push[task[w].push].retained
    PROVE  IInv'
<1>0. TaskOK(w) BY Zenon DEF IInv
<1>1. TaskOK(w)'
  BY <1>0, Zenon
     DEF Becomes, Quiet, TaskOK, JobOK, Holds, FreshOK, NeedsConsent, PublishOK, BeforePush,
         AfterPush
<1>2. Stays(w) /\ ~Rejecting(w)' BY Zenon DEF Becomes, Stays, Rejecting, BeforePush
<1> QED BY <1>1, <1>2, TaskOnlyStep, Zenon

\* A publication takes something from its push, or records that it was published.
Lessens(p) ==
    /\ push' \in [Pushes -> PushRecord]
    /\ \A q \in Pushes \ {p} : push'[q] = push[q]
    /\ push'[p].refs = push[p].refs
    /\ push'[p].retained => push[p].retained
    /\ push'[p].claim => push[p].claim
    /\ push'[p].status = push[p].status \/ (push'[p].status = "Published" /\ push[p].refs \subseteq landed[p])

\* A publication changes its push and goes on.
LEMMA PublishPushStep ==
    ASSUME IInv, NEW w \in Workers, task[w].job = "publish", NEW next,
           Becomes(w, task[w].job, next, task[w].push, task[w].saw), Quiet(w), Lessens(task[w].push),
           \/ next \in {"unretain", "unbase", "complete", "release"} /\ lock' = w
           \/ next = "unclaim"
    PROVE  IInv'
<1> DEFINE p == task[w].push
<1>0. TaskOK(w) BY Zenon DEF IInv
<1>1. p \in Pushes BY <1>0, Zenon DEF TaskOK, JobOK
<1>2. PushOK(p) BY <1>1, Zenon DEF IInv
<1>3. TaskOK(w)'
  BY <1>0, <1>1, Zenon
     DEF Becomes, Quiet, TaskOK, JobOK, Holds, FreshOK, NeedsConsent, PublishOK, BeforePush,
         AfterPush
<1>4. Stays(w) /\ ~Rejecting(w)' BY Zenon DEF Becomes, Stays, Rejecting, BeforePush
<1>5. Shares(w) BY Zenon DEF Shares, Quiet, Lessens
<1>6. \A q \in Pushes : q = p => PushOK(q)' BY <1>2, Zenon DEF Lessens, Quiet, PushOK
<1>7. PushBecomes(p, push'[p].refs, push'[p].retained, push'[p].status, push'[p].record, push'[p].claim)
  BY Zenon DEF Lessens, PushBecomes
<1> QED BY <1>1, <1>3, <1>4, <1>5, <1>6, <1>7, PushStep, Zenon

\* The status Published is written when every ref landed.
LEMMA PublishClaimedStep ==
    ASSUME IInv, NEW w \in Workers, publish_claimed_approval(w)
    PROVE  IInv'
<1> DEFINE p == task[w].push
<1>0. TypeInv /\ TaskOK(w) /\ task[w].job = "publish" /\ UNCHANGED <<store, rest>>
  BY Zenon DEF IInv, publish_claimed_approval, resolve_reference, complete_claim, fail_claim, At
<1>1. p \in Pushes BY <1>0, Zenon DEF TaskOK, JobOK
<1>2. PushOK(p) BY <1>1, Zenon DEF IInv
<1>3. task[w].saw \in SUBSET Values /\ push[p].record \in SUBSET Values
  BY <1>0, <1>1, Zenon DEF TypeInv, TaskRecord, PushRecord
<1>4. UNCHANGED lock \/ Unlock(w) \/ Locks(w) => Quiet(w) BY <1>0, UnlockIsQuiet, Zenon DEF store, rest
<1>5. ASSUME NEW next \in {"lock", "fail"}, Go(w, next), UNCHANGED push, UNCHANGED lock \/ Unlock(w) PROVE IInv'
  <2>1. next \in Pcs BY Zenon DEF Pcs
  <2>2. Becomes(w, task[w].job, next, p, task[w].saw) BY <1>0, <1>5, <2>1, GoBecomes, Zenon
  <2> QED BY <1>0, <1>3, <1>4, <1>5, <2>1, <2>2, PublishGoStep, Zenon
<1>6. CASE push[p].retained /\ Locks(w) /\ Go(w, "prefetch") /\ UNCHANGED push
  <2>1. "prefetch" \in Pcs /\ lock' = w BY <1>6, Zenon DEF Pcs, Locks
  <2>2. Becomes(w, task[w].job, "prefetch", p, task[w].saw) BY <1>0, <1>6, <2>1, GoBecomes, Zenon
  <2> QED BY <1>0, <1>3, <1>4, <1>6, <2>1, <2>2, PublishGoStep, Zenon
<1>7. CASE GoWith(w, "mark", push[p].record \cup {"failed"}) /\ UNCHANGED <<push, lock>>
  <2>1. "mark" \in Pcs /\ push[p].record \cup {"failed"} \in SUBSET Values BY <1>3, Zenon DEF Pcs, Values
  <2>2. Becomes(w, task[w].job, "mark", p, push[p].record \cup {"failed"})
    BY <1>0, <1>7, <2>1, GoWithBecomes, Zenon
  <2> QED BY <1>0, <1>4, <1>7, <2>1, <2>2, PublishGoStep, Zenon
<1>8. CASE (Quit(w) \/ (End(w) /\ UNCHANGED lock)) /\ UNCHANGED push BY <1>4, <1>8, EndStep, Zenon DEF Quit
<1>9. CASE push' = [push EXCEPT ![p].claim = FALSE] /\ (Quit(w) \/ (End(w) /\ UNCHANGED lock))
  <2>1. Quiet(w) BY <1>4, <1>9, Zenon DEF Quit
  <2>2. PushBecomes(p, push[p].refs, push[p].retained, push[p].status, push[p].record, FALSE)
    BY <1>0, <1>1, <1>9, ClearClaim, Zenon
  <2>3. \A q \in Pushes : q = p => PushOK(q)'
    BY <1>2, <2>1, <2>2, Zenon DEF PushBecomes, Quiet, PushOK
  <2>4. Shares(w) BY <1>0, <2>1, <2>2, Zenon DEF Shares, Quiet, PushBecomes
  <2> QED BY <1>1, <1>9, <2>1, <2>2, <2>3, <2>4, EndPushStep, Zenon DEF Quit
<1>10. CASE /\ At(w, "publish", "finish") /\ push' = [push EXCEPT ![p].status = "Published"]
            /\ Go(w, "unretain") /\ UNCHANGED lock
  <2>1. "unretain" \in Pcs /\ "Published" \in Values BY Zenon DEF Pcs, Values, Terminal
  <2>2. Becomes(w, task[w].job, "unretain", p, task[w].saw) BY <1>0, <1>10, <2>1, GoBecomes, Zenon
  <2>3. PushBecomes(p, push[p].refs, push[p].retained, "Published", push[p].record, push[p].claim)
    BY <1>0, <1>1, <1>10, <2>1, SetStatus, Zenon
  <2>4. push[p].refs \subseteq landed[p] BY <1>0, <1>10, Zenon DEF At, TaskOK, PublishOK, AfterPush
  <2>5. lock' = w BY <1>0, <1>10, Zenon DEF At, TaskOK, Holds, AfterPush
  <2>6. Lessens(p) BY <2>3, <2>4, Zenon DEF PushBecomes, Lessens
  <2> QED BY <1>0, <1>4, <1>10, <2>2, <2>5, <2>6, PublishPushStep, Zenon
<1>11. CASE At(w, "publish", "unretain") /\ Go(w, "unbase") /\ UNCHANGED lock
            /\ (push' = [push EXCEPT ![p].retained = FALSE] \/ UNCHANGED push)
  <2>1. "unbase" \in Pcs /\ lock' = w BY <1>0, <1>11, Zenon DEF Pcs, At, TaskOK, Holds
  <2>2. Becomes(w, task[w].job, "unbase", p, task[w].saw) BY <1>0, <1>11, <2>1, GoBecomes, Zenon
  <2>3. CASE push' = [push EXCEPT ![p].retained = FALSE]
    <3>1. PushBecomes(p, push[p].refs, FALSE, push[p].status, push[p].record, push[p].claim)
      BY <1>0, <1>1, <2>3, ClearRetained, Zenon
    <3>2. Lessens(p) BY <3>1, Zenon DEF PushBecomes, Lessens
    <3> QED BY <1>0, <1>4, <1>11, <2>1, <2>2, <3>2, PublishPushStep, Zenon
  <2>4. CASE UNCHANGED push
    <3>1. Lessens(p) BY <1>0, <2>4, Zenon DEF Lessens, TypeInv
    <3> QED BY <1>0, <1>4, <1>11, <2>1, <2>2, <3>1, PublishPushStep, Zenon
  <2> QED BY <1>11, <2>3, <2>4, Zenon
<1>12. CASE /\ At(w, "publish", "unbase")
            /\ push' = [push EXCEPT ![p].bases = FALSE] /\ Go(w, "complete") /\ UNCHANGED lock
  <2>1. "complete" \in Pcs /\ lock' = w BY <1>0, <1>12, Zenon DEF Pcs, At, TaskOK, Holds
  <2>2. Becomes(w, task[w].job, "complete", p, task[w].saw) BY <1>0, <1>12, <2>1, GoBecomes, Zenon
  <2>3. PushBecomes(p, push[p].refs, push[p].retained, push[p].status, push[p].record, push[p].claim)
    BY <1>0, <1>1, <1>12, ClearBases, Zenon
  <2>4. Lessens(p) BY <2>3, Zenon DEF PushBecomes, Lessens
  <2> QED BY <1>0, <1>4, <1>12, <2>1, <2>2, <2>4, PublishPushStep, Zenon
<1>13. CASE /\ At(w, "publish", "complete")
            /\ push' = [push EXCEPT ![p].record = Absent] /\ Go(w, "release") /\ UNCHANGED lock
  <2>1. "release" \in Pcs /\ Absent \in SUBSET Values BY Zenon DEF Pcs, Absent, Values
  <2>2. lock' = w BY <1>0, <1>13, Zenon DEF At, TaskOK, Holds
  <2>3. Becomes(w, task[w].job, "release", p, task[w].saw) BY <1>0, <1>13, <2>1, GoBecomes, Zenon
  <2>4. PushBecomes(p, push[p].refs, push[p].retained, push[p].status, Absent, push[p].claim)
    BY <1>0, <1>1, <1>13, <2>1, SetRecord, Zenon
  <2>5. Lessens(p) BY <2>4, Zenon DEF PushBecomes, Lessens
  <2> QED BY <1>0, <1>4, <1>13, <2>2, <2>3, <2>5, PublishPushStep, Zenon
<1>14. CASE push' = [push EXCEPT ![p].record = task[w].saw] /\ Go(w, "unclaim") /\ UNCHANGED lock
  <2>1. "unclaim" \in Pcs BY Zenon DEF Pcs
  <2>2. Becomes(w, task[w].job, "unclaim", p, task[w].saw) BY <1>0, <1>14, <2>1, GoBecomes, Zenon
  <2>3. PushBecomes(p, push[p].refs, push[p].retained, push[p].status, task[w].saw, push[p].claim)
    BY <1>0, <1>1, <1>3, <1>14, SetRecord, Zenon
  <2>4. Lessens(p) BY <2>3, Zenon DEF PushBecomes, Lessens
  <2> QED BY <1>0, <1>4, <1>14, <2>2, <2>4, PublishPushStep, Zenon
<1>15. CASE /\ At(w, "publish", "read")
            /\ Go(w, IF Publishable(p) THEN "lock" ELSE "fail") /\ UNCHANGED <<push, lock>>
  BY <1>5, <1>15, Zenon
<1>16. CASE resolve_reference(w) BY <1>5, <1>6, <1>16, Zenon DEF resolve_reference
<1>17. CASE complete_claim(w) BY <1>8, <1>9, <1>13, <1>17, Zenon DEF complete_claim
<1>18. CASE fail_claim(w) BY <1>7, <1>8, <1>9, <1>14, <1>18, Zenon DEF fail_claim
<1> QED BY <1>5, <1>10, <1>11, <1>12, <1>15, <1>16, <1>17, <1>18, Zenon DEF publish_claimed_approval

-----------------------------------------------------------------------------
\* New tasks, the world, restarts

\* Only the task w is new.
NewTask(w) ==
    /\ task' \in [Workers -> TaskRecord]
    /\ \A v \in Workers \ {w} : task'[v] = task[v]

\* A new task that has nobody else in its way.
LEMMA SpawnStep ==
    ASSUME IInv, NEW w \in Workers, NewTask(w), TaskOK(w)', task'[w].pc \in {"lock", "read"},
           UNCHANGED <<upstream, mirror, config, push, lock, landed, consent>>, resuming' \subseteq Pushes,
           \A v \in Workers : v # w /\ (task'[w].job = "receive" \/ task[v].job = "receive")
                                  => task[v].push # task'[w].push
    PROVE  IInv'
<1>1. TypeInv' BY Zenon DEF IInv, TypeInv, NewTask
<1>2. ASSUME NEW v \in Workers PROVE TaskOK(v)'
  <2>1. CASE v = w BY <2>1, Zenon
  <2>2. CASE v # w
    <3>1. TaskOK(v) /\ task'[v] = task[v] BY <2>2, Zenon DEF IInv, NewTask
    <3>2. JobOK(v)' BY <3>1, Zenon DEF TaskOK, JobOK
    <3>3. (Holds(v) => lock = v)' BY <3>1, Zenon DEF TaskOK, Holds
    <3>4. FreshOK(v)' BY <3>1, Zenon DEF TaskOK, FreshOK
    <3>5. (NeedsConsent(v) => consent[task[v].push])' BY <3>1, Zenon DEF TaskOK, NeedsConsent
    <3>6. PublishOK(v)' BY <3>1, Zenon DEF TaskOK, PublishOK
    <3> QED BY <3>2, <3>3, <3>4, <3>5, <3>6, Zenon DEF TaskOK
  <2> QED BY <2>1, <2>2, Zenon
<1>3. ASSUME NEW q \in Pushes PROVE PushOK(q)'
  <2>1. PushOK(q) BY Zenon DEF IInv
  <2> QED BY <2>1, Zenon DEF PushOK
<1>4. Alone' BY DEF IInv, Alone, NewTask
<1>5. ASSUME NEW q \in Pushes, Withdrawn(q) PROVE Withdrawn(q)'
  BY <1>5, Zenon DEF Withdrawn, NewTask, BeforePush
<1>6. RejectInv'
  <2>1. ASSUME NEW q \in Pushes, push'[q].status = "Rejected" PROVE Withdrawn(q)'
    BY <1>5, <2>1, Zenon DEF IInv, RejectInv
  <2>2. ASSUME NEW v \in Workers, Rejecting(v)' PROVE Withdrawn(task[v].push)'
    <3>1. v # w /\ task'[v] = task[v] BY <2>2, Zenon DEF NewTask, Rejecting, Removed
    <3> DEFINE q == task[v].push
    <3>2. Rejecting(v) BY <2>2, <3>1, Zenon DEF Rejecting
    <3>3. q \in Pushes /\ Withdrawn(q) BY <3>2, Zenon DEF IInv, RejectInv, TaskOK, JobOK, Rejecting
    <3>4. \A x \in Pushes : x = q => Withdrawn(x)' BY <1>5, <3>3, Zenon
    <3>5. task'[v].push \in Pushes /\ task'[v].push = q BY <3>1, <3>3, Zenon
    <3> HIDE DEF q
    <3> QED BY <3>4, <3>5, Zenon
  <2> QED BY <2>1, <2>2, Zenon DEF RejectInv
<1>7. UpstreamInv' BY Zenon DEF IInv, UpstreamInv
<1> QED BY <1>1, <1>2, <1>3, <1>4, <1>6, <1>7, Zenon DEF IInv

\* A new push is in nobody's hands.
LEMMA ReceivePackStep ==
    ASSUME IInv, NEW p \in Pushes, receive_pack(p)
    PROVE  IInv'
<1>1. PICK w \in Workers : task' = Spawned(w, "receive", "lock", p) BY Zenon DEF receive_pack
<1>2. TypeInv BY Zenon DEF IInv
<1>3. Becomes(w, "receive", "lock", p, {}) BY <1>1, <1>2, SpawnedBecomes, Zenon DEF Jobs, Pcs
<1>4. UNCHANGED <<upstream, mirror, config, push, lock, landed, consent, resuming>>
  BY Zenon DEF receive_pack, store, rest
<1>5. /\ push[p].refs = {} /\ push[p].record = Absent /\ ~push[p].claim /\ push[p].status = "none"
      /\ \A v \in Workers : task[v].push # p
  BY DEF receive_pack, Unpushed
<1>6. landed[p] = {} BY <1>5, Zenon DEF IInv, PushOK
<1>7. TaskOK(w)'
  BY <1>3, <1>4, <1>5, <1>6, Zenon
     DEF Becomes, TaskOK, JobOK, Holds, FreshOK, NeedsConsent, PublishOK, BeforePush, AfterPush
<1>8. NewTask(w) /\ task'[w].pc = "lock" /\ task'[w].push = p BY <1>3, Zenon DEF Becomes, NewTask
<1>9. resuming' \subseteq Pushes BY <1>2, <1>4, Zenon DEF TypeInv
<1> QED BY <1>4, <1>5, <1>7, <1>8, <1>9, SpawnStep, Zenon

\* A task for a push that has a record.
LEMMA DecisionStep ==
    ASSUME IInv, NEW w \in Workers, NEW job \in {"approve", "reject", "postpone", "publish"}, NEW p \in Pushes,
           task' = Spawned(w, job, "read", p), push[p].record # Absent, job = "publish" => push[p].claim,
           UNCHANGED <<upstream, mirror, config, push, lock, landed, consent>>, resuming' \subseteq Pushes
    PROVE  IInv'
<1>1. TypeInv /\ PushOK(p) BY Zenon DEF IInv
<1>2. Becomes(w, job, "read", p, {}) BY <1>1, SpawnedBecomes, Zenon DEF Jobs, Pcs
<1>3. \A v \in Workers : task[v].job = "receive" => task[v].push # p
  BY Zenon DEF IInv, TaskOK, FreshOK
<1>4. job = "publish" => consent[p] BY <1>1, Zenon DEF PushOK
<1>5. TaskOK(w)'
  BY <1>2, <1>4, Zenon DEF Becomes, TaskOK, JobOK, Holds, FreshOK, NeedsConsent, PublishOK,
     BeforePush, AfterPush
<1>6. NewTask(w) /\ task'[w].job # "receive" /\ task'[w].pc = "read" /\ task'[w].push = p
  BY <1>2, Zenon DEF Becomes, NewTask
<1> QED BY <1>3, <1>5, <1>6, SpawnStep, Zenon

\* refresh_versions.
LEMMA RefreshVersionsStep ==
    ASSUME IInv, refresh_versions
    PROVE  IInv'
<1>1. PICK w \in Workers : task' = Spawned(w, "refresh", "lock", "") BY Zenon DEF refresh_versions
<1>2. TypeInv /\ "" \notin Pushes BY RepositoriesAssumption, Zenon DEF IInv
<1>3. "" \in Pushes \cup {""} BY Zenon
<1>4. Becomes(w, "refresh", "lock", "", {}) BY <1>1, <1>2, <1>3, SpawnedBecomes, Zenon DEF Jobs, Pcs
<1>5. UNCHANGED <<upstream, mirror, config, push, lock, landed, consent, resuming>>
  BY Zenon DEF refresh_versions, store, rest
<1>6. TaskOK(w)'
  BY <1>4, Zenon DEF Becomes, TaskOK, JobOK, Holds, FreshOK, NeedsConsent, PublishOK, BeforePush,
     AfterPush
<1>7. NewTask(w) /\ task'[w].job # "receive" /\ task'[w].pc = "lock" /\ task'[w].push \notin Pushes
  BY <1>2, <1>4, Zenon DEF Becomes, NewTask
<1>8. \A v \in Workers : task[v].job = "receive" => task[v].push \in Pushes
  BY Zenon DEF IInv, TaskOK, JobOK
<1>9. resuming' \subseteq Pushes BY <1>2, <1>5, Zenon DEF TypeInv
<1> QED BY <1>5, <1>6, <1>7, <1>8, <1>9, SpawnStep, Zenon

\* Tasks and pushes are as before.
LEMMA WorldStep ==
    ASSUME IInv, TypeInv', UpstreamInv', UNCHANGED <<push, task, lock, landed, consent>>
    PROVE  IInv'
<1>1. ASSUME NEW w \in Workers PROVE TaskOK(w)'
  <2>1. TaskOK(w) BY Zenon DEF IInv
  <2> QED BY <2>1, ZenonT(40) DEF TaskOK, JobOK, Holds, FreshOK, NeedsConsent, PublishOK
<1>2. ASSUME NEW p \in Pushes PROVE PushOK(p)'
  <2>1. PushOK(p) BY Zenon DEF IInv
  <2> QED BY <2>1, Zenon DEF PushOK
<1>3. Alone' BY Zenon DEF IInv, Alone
<1>4. RejectInv' BY Zenon DEF IInv, RejectInv, Rejecting, Withdrawn
<1> QED BY <1>1, <1>2, <1>3, <1>4, Zenon DEF IInv

\* Others put objects of their own upstream.
LEMMA ForeignPushStep ==
    ASSUME IInv, foreign_push
    PROVE  IInv'
<1>1. PICK r \in Refs, o \in Foreign : upstream' = [upstream EXCEPT ![r] = o]
  BY Zenon DEF foreign_push
<1>2. UNCHANGED <<mirror, push, task, lock, config, resuming, landed, consent>>
  BY Zenon DEF foreign_push, rest
<1>3. TypeInv' BY <1>1, <1>2, Zenon DEF IInv, TypeInv, Objects
<1>4. o \notin Pushes BY RepositoriesAssumption, Zenon
<1>5. UpstreamInv' BY <1>1, <1>2, <1>4, Zenon DEF IInv, TypeInv, UpstreamInv
<1> QED BY <1>2, <1>3, <1>5, WorldStep, Zenon

\* After a restart no handler relies on anything.
LEMMA RestartStep ==
    ASSUME IInv, restart
    PROVE  IInv'
<1>1. /\ task' = [w \in Workers |-> Idle] /\ lock' = 0 /\ resuming' = Pushes
      /\ UNCHANGED <<upstream, mirror, push, config, landed, consent>>
  BY Zenon DEF restart, store
<1>2. Idle \in TaskRecord /\ Idle.job = "idle" /\ Idle.pc = "done" /\ Idle.push = ""
  <2>1. "" \in Pushes \cup {""} BY Zenon
  <2>2. {} \in SUBSET Values /\ "idle" \in Jobs /\ "done" \in Pcs BY Zenon DEF Jobs, Pcs
  <2>3. Idle \in TaskRecord BY <2>1, <2>2, Zenon DEF Idle, TaskRecord
  <2> QED BY <2>3, Zenon DEF Idle
<1>3. TypeInv' BY <1>1, <1>2, Zenon DEF IInv, TypeInv
<1>4. ASSUME NEW w \in Workers PROVE TaskOK(w)'
  BY <1>1, <1>2, Zenon DEF TaskOK, JobOK, Holds, FreshOK, NeedsConsent, PublishOK, BeforePush,
     AfterPush
<1>5. ASSUME NEW p \in Pushes PROVE PushOK(p)'
  <2>1. PushOK(p) BY Zenon DEF IInv
  <2> QED BY <1>1, <2>1, Zenon DEF PushOK
<1>6. Alone' BY <1>1, <1>2, Zenon DEF Alone
<1>7. RejectInv' BY <1>1, <1>2, Zenon DEF IInv, RejectInv, Withdrawn, Rejecting
<1>8. UpstreamInv' BY <1>1, Zenon DEF IInv, UpstreamInv
<1> QED BY <1>3, <1>4, <1>5, <1>6, <1>7, <1>8, Zenon DEF IInv

-----------------------------------------------------------------------------
\* The theorems

\* The invariant holds initially.
LEMMA InitOK == Init => IInv
<1> SUFFICES ASSUME Init PROVE IInv BY Zenon
<1>0. /\ task = [w \in Workers |-> Idle] /\ push = [p \in Pushes |-> Unpushed] /\ lock = 0 /\ resuming = Pushes
      /\ landed = [p \in Pushes |-> {}] /\ consent = [p \in Pushes |-> FALSE] /\ config \in Configs
      /\ upstream = [r \in Refs |-> CHOOSE o \in Foreign : TRUE] /\ mirror = upstream
  BY Zenon DEF Init
<1>1. Idle \in TaskRecord /\ Idle.job = "idle" /\ Idle.pc = "done" /\ Idle.push = ""
  <2>1. "" \in Pushes \cup {""} BY Zenon
  <2>2. {} \in SUBSET Values /\ "idle" \in Jobs /\ "done" \in Pcs BY Zenon DEF Jobs, Pcs
  <2>3. Idle \in TaskRecord BY <2>1, <2>2, Zenon DEF Idle, TaskRecord
  <2> QED BY <2>3, Zenon DEF Idle
<1>2. /\ Unpushed \in PushRecord /\ Unpushed.refs = {} /\ Unpushed.status = "none" /\ Unpushed.claim = FALSE
  <2>1. <<>> \in Expected /\ "none" \in Values /\ Absent \in SUBSET Values
    BY Zenon DEF Expected, Values, Absent
  <2>2. Unpushed \in PushRecord BY <2>1, Zenon DEF Unpushed, PushRecord
  <2> QED BY <2>2, Zenon DEF Unpushed
<1>3. (CHOOSE o \in Foreign : TRUE) \in Foreign BY RepositoriesAssumption, Zenon
<1>4. upstream \in [Refs -> Objects] BY <1>0, <1>3, Zenon DEF Objects
<1>5. TypeInv BY <1>0, <1>1, <1>2, <1>4, Zenon DEF TypeInv
<1>6. ASSUME NEW w \in Workers PROVE TaskOK(w)
  BY <1>0, <1>1, Zenon DEF TaskOK, JobOK, Holds, FreshOK, NeedsConsent, PublishOK, BeforePush,
     AfterPush
<1>7. ASSUME NEW p \in Pushes PROVE PushOK(p) BY <1>0, <1>2, Zenon DEF PushOK
<1>8. Alone BY <1>0, <1>1, Zenon DEF Alone
<1>9. RejectInv BY <1>0, <1>1, <1>2, Zenon DEF RejectInv, Rejecting
<1>10. UpstreamInv BY <1>0, <1>3, RepositoriesAssumption, Zenon DEF UpstreamInv
<1> QED BY <1>5, <1>6, <1>7, <1>8, <1>9, <1>10, Zenon DEF IInv

\* Every step keeps the invariant.
LEMMA NextOK == IInv /\ [Next]_vars => IInv'
<1> SUFFICES ASSUME IInv, [Next]_vars PROVE IInv' BY Zenon
<1>1. ASSUME NEW w \in Workers, publish(w) PROVE IInv'
  BY <1>1, FetchStep, CompareStep, GitPushStep, ObserveStep, GitFailsStep, RecordRefreshStep, Zenon
     DEF publish
<1>2. ASSUME NEW w \in Workers, Serves(w) PROVE IInv'
  BY <1>1, <1>2, OpenStoreStep, StageStep, CompleteReceivedPushStep, RetainStep,
     FinishReceivedStep, ClaimStep,
     PostponeStep, RejectStep, PublishClaimedStep, RefreshCacheStep, Zenon DEF Serves
<1>3. CASE resume_background_publications
  <2>0. TypeInv BY Zenon DEF IInv
  <2>1. PICK p \in resuming :
            /\ resuming' = resuming \ {p}
            /\ IF push[p].record # Absent /\ push[p].claim
               THEN \E w \in Workers : IdleWorker(w) /\ task' = Spawned(w, "publish", "read", p)
               ELSE UNCHANGED task
            /\ UNCHANGED <<store, push, lock, config, landed, consent, used>>
    BY <1>3, Zenon DEF resume_background_publications
  <2>2. /\ p \in Pushes /\ resuming' \subseteq Pushes
        /\ UNCHANGED <<upstream, mirror, config, push, lock, landed, consent>>
    BY <2>0, <2>1, Zenon DEF TypeInv, store
  <2>3. CASE push[p].record # Absent /\ push[p].claim
    <3>1. PICK w \in Workers : task' = Spawned(w, "publish", "read", p) BY <2>1, <2>3, Zenon
    <3> QED BY <2>2, <2>3, <3>1, DecisionStep, Zenon
  <2>4. CASE UNCHANGED task
    <3>1. TypeInv' /\ UpstreamInv' BY <2>0, <2>2, <2>4, Zenon DEF TypeInv, IInv, UpstreamInv
    <3> QED BY <2>2, <2>4, <3>1, WorldStep, Zenon
  <2> QED BY <2>1, <2>3, <2>4, Zenon
<1>4. ASSUME NEW w \in Workers, abort(w) PROVE IInv'
  <2>1. Quiet(w) BY <1>4, UnlockIsQuiet, Zenon DEF IInv, abort, Quit, store, rest
  <2> QED BY <1>4, <2>1, EndStep, Zenon DEF abort, Quit
<1>5. ASSUME NEW p \in Pushes, resolve_approval(p) PROVE IInv'
  <2>1. PICK w \in Workers, decision \in {"approve", "reject", "postpone"} : task' = Spawned(w, decision, "read", p)
    BY <1>5, Zenon DEF resolve_approval
  <2>2. /\ UNCHANGED <<upstream, mirror, config, push, lock, landed, consent, resuming>> /\ push[p].record # Absent
        /\ resuming' \subseteq Pushes
    BY <1>5, Zenon DEF resolve_approval, store, rest, IInv, TypeInv
  <2> QED BY <2>1, <2>2, DecisionStep, Zenon
<1>6. CASE edit_config
  <2>1. /\ config' \in Configs /\ UNCHANGED <<upstream, mirror, push, task, lock, resuming, landed, consent>>
    BY <1>6, Zenon DEF edit_config, store
  <2>2. TypeInv' /\ UpstreamInv' BY <2>1, Zenon DEF IInv, TypeInv, UpstreamInv
  <2> QED BY <2>1, <2>2, WorldStep, Zenon
<1>7. CASE UNCHANGED vars
  <2>1. UNCHANGED <<upstream, mirror, config, push, task, lock, resuming, landed, consent>>
    BY <1>7, Zenon DEF vars
  <2>2. TypeInv' /\ UpstreamInv' BY <2>1, Zenon DEF IInv, TypeInv, UpstreamInv
  <2> QED BY <2>1, <2>2, WorldStep, Zenon
<1> QED BY <1>2, <1>3, <1>4, <1>5, <1>6, <1>7, ReceivedUpdatesStep, ReceivePackStep,
           RefreshVersionsStep,
       ForeignPushStep, RestartStep, Zenon DEF Next, DaemonStep

\* The inductive invariant holds throughout, for every number of pushes, refs, handlers and
\* requests, every configuration and every sequence of restarts and failures.
THEOREM RepositoriesInvariant == Spec => []IInv
BY InitOK, NextOK, PTL DEF Spec

\* A push that is shown as Published has had each of its refs upstream: the status is written
\* after the push, and a retry counts the refs that are there already.
THEOREM RepositoriesPublished == Spec => []PublishedIsUpstream
<1>1. IInv => PublishedIsUpstream BY Zenon DEF IInv, PushOK, PublishedIsUpstream
<1> QED BY <1>1, RepositoriesInvariant, PTL

\* What reached the upstream was approved by a user or allowed by the policy for all of its refs.
THEOREM RepositoriesConsent == Spec => []PushedWithConsent
<1>1. IInv => PushedWithConsent BY Zenon DEF IInv, PushOK, PushedWithConsent
<1> QED BY <1>1, RepositoriesInvariant, PTL

\* Only git_push and others change the upstream, and only git_push lets refs of a push land.
LEMMA UpstreamChanges ==
    ASSUME Next
    PROVE  \/ UNCHANGED <<upstream, landed>>
           \/ foreign_push /\ UNCHANGED landed
           \/ \E w \in Workers : task[w].pc = "push" /\ Lands(task[w].push, task[w].saw)
<1>1. ASSUME NEW w \in Workers, publish(w)
      PROVE  UNCHANGED <<upstream, landed>> \/ (task[w].pc = "push" /\ Lands(task[w].push, task[w].saw))
  BY <1>1, Zenon DEF publish, fetch, compare, git_push, observe, git_fails, record_refresh, store, rest
<1>2. ASSUME NEW w \in Workers, Serves(w), ~publish(w) PROVE UNCHANGED <<upstream, landed>>
  <2>1. CASE open_store(w) BY <2>1, Zenon DEF open_store, fetch, record_refresh, store, rest
  <2>2. CASE stage_receive_namespace(w) BY <2>2, Zenon DEF stage_receive_namespace, store, rest
  <2>3. CASE complete_received_push(w) BY <2>3, Zenon DEF complete_received_push, store
  <2>4. CASE retain_received_push(w) BY <2>4, Zenon DEF retain_received_push, store, rest
  <2>5. CASE finish_received_push(w) BY <2>5, Zenon DEF finish_received_push, store, rest
  <2>6. CASE claim_approval(w) BY <2>6, Zenon DEF claim_approval, store, rest
  <2>7. CASE postpone_approval(w) BY <2>7, Zenon DEF postpone_approval, store, rest
  <2>8. CASE reject_approval(w) BY <2>8, Zenon DEF reject_approval, remove_approval_references, store, rest
  <2>9. CASE publish_claimed_approval(w)
    BY <2>9, Zenon DEF publish_claimed_approval, resolve_reference, complete_claim, fail_claim, store, rest
  <2>10. CASE refresh_cache(w) BY <2>10, Zenon DEF refresh_cache, fetch, record_refresh, store, rest
  <2> QED BY <1>2, <2>1, <2>2, <2>3, <2>4, <2>5, <2>6, <2>7, <2>8, <2>9, <2>10, Zenon DEF Serves
<1>3. resume_background_publications => UNCHANGED <<upstream, landed>>
  BY Zenon DEF resume_background_publications, store
<1>4. \A w \in Workers : received_updates(w) \/ abort(w) => UNCHANGED <<upstream, landed>>
  BY Zenon DEF received_updates, abort, store, rest
<1>5. \A p \in Pushes : receive_pack(p) \/ resolve_approval(p) => UNCHANGED <<upstream, landed>>
  BY Zenon DEF receive_pack, resolve_approval, store, rest
<1>6. refresh_versions \/ edit_config \/ restart => UNCHANGED <<upstream, landed>>
  BY Zenon DEF refresh_versions, edit_config, restart, store, rest
<1>7. foreign_push => UNCHANGED landed BY Zenon DEF foreign_push, rest
<1> QED BY <1>1, <1>2, <1>3, <1>4, <1>5, <1>6, <1>7, Zenon DEF Next, DaemonStep

\* An update of the host replaces what the pod and the user had seen: --force-with-lease on
\* every ref that is pushed.
THEOREM RepositoriesLease == Spec => LeaseRespected
<1>1. ASSUME IInv, [Next]_vars
      PROVE  \A r \in Refs : upstream'[r] \in Pushes /\ upstream'[r] # upstream[r]
                 => upstream[r] = push[upstream'[r]].expected[r]
  <2>1. CASE UNCHANGED upstream BY <2>1, Zenon
  <2>2. CASE foreign_push
    BY <2>2, <1>1, RepositoriesAssumption, Zenon DEF foreign_push, IInv, TypeInv
  <2>3. ASSUME NEW w \in Workers, Lands(task[w].push, task[w].saw)
        PROVE  \A r \in Refs : upstream'[r] \in Pushes /\ upstream'[r] # upstream[r]
                   => upstream[r] = push[upstream'[r]].expected[r]
    BY <2>3, Zenon DEF Lands, LeaseHolds
  <2> QED BY <1>1, <2>1, <2>2, <2>3, UpstreamChanges, Zenon DEF vars
<1> QED BY <1>1, RepositoriesInvariant, PTL DEF Spec, LeaseRespected

\* What was rejected stays out: the refs are removed under the lock before the status is
\* written, so that no publication is between its look at the refs and its push.
THEOREM RepositoriesRejected == Spec => RejectedStaysOut
<1>1. ASSUME IInv, [Next]_vars
      PROVE  \A p \in Pushes : push[p].status = "Rejected" => landed'[p] = landed[p]
  <2>1. CASE UNCHANGED landed BY <2>1, Zenon
  <2>2. ASSUME NEW w \in Workers, task[w].pc = "push", Lands(task[w].push, task[w].saw)
        PROVE  \A p \in Pushes : push[p].status = "Rejected" => landed'[p] = landed[p]
    <3>1. TaskOK(w) /\ TypeInv BY <1>1, Zenon DEF IInv
    <3>2. task[w].push \in Pushes /\ task[w].job \in {"receive", "publish"}
      BY <2>2, <3>1, Zenon DEF TaskOK, JobOK, BeforePush
    <3>3. push[task[w].push].status # "Rejected"
      <4>1. CASE task[w].job = "receive" BY <3>1, <4>1, Zenon DEF TaskOK, FreshOK
      <4>2. CASE task[w].job = "publish"
        BY <1>1, <2>2, <3>2, <4>2, Zenon DEF IInv, RejectInv, Withdrawn, BeforePush
      <4> QED BY <3>2, <4>1, <4>2, Zenon
    <3> QED BY <2>2, <3>1, <3>2, <3>3, Zenon DEF Lands, TypeInv
  <2> QED BY <1>1, <2>1, <2>2, UpstreamChanges, Zenon DEF vars
<1> QED BY <1>1, RepositoriesInvariant, PTL DEF Spec, RejectedStaysOut

=============================================================================
