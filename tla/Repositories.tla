----------------------------- MODULE Repositories -----------------------------
(***************************************************************************)
(* Mediated pushes of one workspace repository: a pod's push is received   *)
(* into a namespace of the host's bare store, and is published, denied or  *)
(* retained for approval as the policy says; a user approves, rejects or   *)
(* postpones a retained push; approved ones are published in the           *)
(* background, also after a restart of the daemon                          *)
(* (services/repositories/{manager,approval,push,cache,policy,service}.rs, *)
(* tascarrel-git store.rs).                                                *)
(*                                                                         *)
(* A step is one change of a file or a ref, or one exchange with the       *)
(* upstream, with the reads that go before it.  Handlers run on several    *)
(* threads, and each request loads a HostRepositoryManager of its own, so  *)
(* its operation mutex excludes nobody; the file lock of the store does.   *)
(* A daemon that stops loses its tasks, its locks and its git processes    *)
(* and keeps every file.  The upstream is changed by others as well.       *)
(***************************************************************************)
EXTENDS Naturals, FiniteSets

CONSTANTS
    Pushes,      \* pushes of the pods, each with its approval, if any
    Refs,        \* branches and tags of the repository
    Configs,     \* contents of the configuration: policies, or Gone
    Foreign,     \* objects others put into the upstream
    MaxTasks,    \* handlers at work at the same time
    MaxRequests, \* requests of pods, users and the refresh timer
    MaxTroubles, \* restarts, dropped requests, failures of git and of the file system
    MaxChanges   \* updates of the upstream by others, and edits of the configuration

\* The configuration without the repository.
Gone == <<>>

Policies == {"allow", "require-approval", "deny"}

ASSUME RepositoriesAssumption ==
    /\ Configs \subseteq ([Refs -> Policies] \cup {Gone})
    /\ Configs # {} /\ Foreign # {} /\ Pushes \cap Foreign = {} /\ "" \notin Pushes
    /\ {MaxTasks, MaxRequests, MaxTroubles, MaxChanges} \subseteq Nat

VARIABLES
    upstream,  \* the object of each ref upstream
    mirror,    \* the object of each ref in the host's store
    cache,     \* the durable cache state: version and the refs its digest covers
    config,    \* the configuration file
    push,      \* per push: its refs, the objects they had, what is retained and recorded
    task,      \* the handlers
    lock,      \* the holder of the lock of the store, or 0
    resuming,  \* approvals the daemon has yet to look at after its start
    landed,    \* per push: refs that had its object upstream at some time
    consent,   \* per push: the user approved it, or the policy allowed all its refs
    used       \* how often each bounded event has happened

vars == <<upstream, mirror, cache, config, push, task, lock, resuming, landed, consent, used>>

Workers == 1..MaxTasks

\* RepositoryApproval as stored: the set of its flags; Absent when there is no record.
Absent == {"absent"}

Unpushed == [refs |-> {}, expected |-> <<>>, retained |-> FALSE, bases |-> FALSE,
             status |-> "none", record |-> Absent, claim |-> FALSE]

Idle == [job |-> "idle", pc |-> "done", push |-> "", saw |-> {}]

Init ==
    /\ upstream = [r \in Refs |-> CHOOSE o \in Foreign : TRUE] /\ mirror = upstream
    /\ cache = [version |-> 1, refs |-> mirror]
    /\ config \in Configs
    /\ push = [p \in Pushes |-> Unpushed]
    /\ task = [w \in Workers |-> Idle]
    /\ lock = 0
    /\ resuming = Pushes
    /\ landed = [p \in Pushes |-> {}]
    /\ consent = [p \in Pushes |-> FALSE]
    /\ used = [requests |-> 0, troubles |-> 0, changes |-> 0]

-----------------------------------------------------------------------------
\* Tasks

Budget(kind, most) == used[kind] < most /\ used' = [used EXCEPT ![kind] = @ + 1]

At(w, job, pc) == task[w].job = job /\ task[w].pc = pc

Go(w, pc) == task' = [task EXCEPT ![w].pc = pc]

\* The task goes on with something it has read.
GoWith(w, pc, saw) == task' = [task EXCEPT ![w].pc = pc, ![w].saw = saw]

End(w) == task' = [task EXCEPT ![w] = Idle]

Unlock(w) == lock' = IF lock = w THEN 0 ELSE lock

\* The task ends and drops the lock it may hold.
Quit(w) == End(w) /\ Unlock(w)

IdleWorker(w) == task[w] = Idle /\ \A v \in 1..(w - 1) : task[v] # Idle

Spawned(w, job, pc, p) == [task EXCEPT ![w] = [job |-> job, pc |-> pc, push |-> p, saw |-> {}]]

\* What most steps leave alone.
store == <<upstream, mirror, cache>>
rest == <<config, resuming, landed, consent>>

\* An operation of git or of the file system fails.
Fault == Budget("troubles", MaxTroubles)

-----------------------------------------------------------------------------
\* The policy

Rank(policy) == CASE policy = "allow" -> 1 [] policy = "require-approval" -> 2 [] OTHER -> 3

\* Mutant: the least restrictive policy counts.
WeakestPolicy(refs) ==
    CHOOSE policy \in Policies : \E r \in refs :
        config[r] = policy /\ \A s \in refs : Rank(policy) <= Rank(config[s])

\* RepositoryPolicy::updates_policy: the most restrictive policy of the refs.
updates_policy(refs) ==
    CHOOSE policy \in Policies : \E r \in refs :
        config[r] = policy /\ \A s \in refs : Rank(config[s]) <= Rank(policy)

-----------------------------------------------------------------------------
\* The statuses of pushes

Terminal == {"Published", "Denied", "Rejected", "Failed"}

\* RepositoryPushStatusStore::create, with the terminal statuses it prunes for their age.
record_push_status(p, state) ==
    \E old \in SUBSET {q \in Pushes \ {p} : push[q].status \in Terminal} :
        push' = [q \in Pushes |-> IF q = p THEN [push[q] EXCEPT !.status = state]
                                  ELSE IF q \in old THEN [push[q] EXCEPT !.status = "none"] ELSE push[q]]

\* RepositoryPushStatusStore::transition succeeds.
CanTransition(p, state) == push[p].status \in {state, "ApprovalRequired"}

-----------------------------------------------------------------------------
\* The store and its cache state

\* A task takes the lock of the store.
Locks(w) == lock = 0 /\ lock' = w

\* The tasks that wait for the lock to refresh learn that somebody else has done so:
\* their baseline no longer is the refresh sequence.
Coalesced ==
    [v \in Workers |->
        IF At(v, "refresh", "lock") THEN [task[v] EXCEPT !.saw = {"refreshed"}] ELSE task[v]]

\* refresh_existing_store_locked after its fetch: the version advances when the refs differ
\* from the recorded ones.
Recorded == IF mirror = cache.refs THEN cache ELSE [version |-> cache.version + 1, refs |-> mirror]

\* RepositoryStore::refresh_locked: the refs of the store become those of the upstream.
fetch(w, pc, next) ==
    /\ task[w].pc = pc
    /\ mirror' = upstream
    /\ Go(w, next)
    /\ UNCHANGED <<upstream, cache, push, lock, rest, used>>

\* refresh_existing_store_locked: the new refs get a version, durably.
record_refresh(w, pc, next) ==
    /\ task[w].pc = pc
    /\ cache' = Recorded
    /\ task' = [Coalesced EXCEPT ![w].pc = next]
    /\ UNCHANGED <<upstream, mirror, push, lock, rest, used>>

\* refresh_cache, for the timer and for a request: nothing to do if somebody has refreshed
\* the cache since the request came.
refresh_cache(w) ==
    \/ /\ At(w, "refresh", "lock") /\ lock = 0
       /\ IF task[w].saw = {} THEN Locks(w) /\ Go(w, "fetch") ELSE End(w) /\ UNCHANGED lock
       /\ UNCHANGED <<store, push, rest, used>>
    \/ task[w].job = "refresh" /\ fetch(w, "fetch", "version")
    \/ task[w].job = "refresh" /\ record_refresh(w, "version", "served")
    \/ /\ \/ At(w, "refresh", "served") /\ UNCHANGED used
          \/ task[w].job = "refresh" /\ task[w].pc \in {"fetch", "version"} /\ Fault
       /\ Quit(w)
       /\ UNCHANGED <<store, push, rest>>

-----------------------------------------------------------------------------
\* RepositoryStore::publish, for a received push and for an approved one

\* The publication ends with an error: finish_received_push reports it, or the task of an
\* approval drops the lock and releases its claim.
PublishFails(w) ==
    IF task[w].job = "receive" THEN GoWith(w, "clean", {"Failed"}) /\ UNCHANGED lock
    ELSE Go(w, "fail") /\ Unlock(w)

\* Mutant: the push has no lease.
NoLease(p, refs) == TRUE

\* Every ref upstream is what the push replaces.
LeaseHolds(p, refs) == \A r \in refs : upstream[r] = push[p].expected[r]

AllPresent(p) == \A r \in push[p].refs : upstream[r] = p

\* The refs upstream are compared with the lease; those that have the object are left out.
compare(w) ==
    LET p == task[w].push
        pending == {r \in push[p].refs : upstream[r] # p}
    IN  /\ task[w].pc = "compare"
        /\ IF \E r \in pending : upstream[r] # push[p].expected[r] THEN PublishFails(w)
           ELSE GoWith(w, IF pending = {} THEN "refetch" ELSE "push", pending) /\ UNCHANGED lock
        /\ UNCHANGED <<store, push, rest, used>>

\* The upstream takes all of the refs, or none of them.
Lands(p, refs) ==
    /\ LeaseHolds(p, refs)
    /\ upstream' = [r \in Refs |-> IF r \in refs THEN p ELSE upstream[r]]
    /\ landed' = [landed EXCEPT ![p] = @ \cup refs]

\* git push --atomic --force-with-lease; its report may be lost whether it took place or not.
git_push(w) ==
    LET p == task[w].push
    IN  /\ task[w].pc = "push"
        /\ \/ Lands(p, task[w].saw) /\ Go(w, "refetch") /\ UNCHANGED used
           \/ Lands(p, task[w].saw) /\ Go(w, "observe") /\ Fault
           \/ Go(w, "observe") /\ Fault /\ UNCHANGED <<upstream, landed>>
           \/ /\ ~LeaseHolds(p, task[w].saw)
              /\ Go(w, "observe") /\ UNCHANGED <<upstream, landed, used>>
        /\ UNCHANGED <<mirror, cache, push, lock, config, resuming, consent>>

\* After a failed push: it counts when every ref upstream has its object.
observe(w) ==
    /\ task[w].pc = "observe"
    /\ IF AllPresent(task[w].push) THEN Go(w, "refetch") /\ UNCHANGED lock ELSE PublishFails(w)
    /\ UNCHANGED <<store, push, rest, used>>

\* git or the file system fails: before the push this ends the publication, after it only the refresh.
git_fails(w) ==
    /\ task[w].job # "refresh" /\ Fault
    /\ \/ task[w].pc \in {"prefetch", "compare", "observe"} /\ PublishFails(w)
       \/ task[w].pc \in {"refetch", "reversion"} /\ Go(w, "finish") /\ UNCHANGED lock
    /\ UNCHANGED <<store, push, rest>>

publish(w) ==
    \/ fetch(w, "prefetch", "compare")
    \/ compare(w)
    \/ git_push(w)
    \/ observe(w)
    \/ git_fails(w)
    \/ fetch(w, "refetch", "reversion")
    \/ record_refresh(w, "reversion", "finish")

-----------------------------------------------------------------------------
\* serve_receive_pack: a push of a pod

\* The store is locked and refreshed; a failure refuses the push and leaves nothing behind.
open_store(w) ==
    \/ /\ At(w, "receive", "lock") /\ Locks(w)
       /\ Go(w, "fetch")
       /\ UNCHANGED <<store, push, rest, used>>
    \/ task[w].job = "receive" /\ fetch(w, "fetch", "version")
    \/ task[w].job = "receive" /\ record_refresh(w, "version", "stage")
    \/ /\ task[w].job = "receive" /\ task[w].pc \in {"fetch", "version"} /\ Fault
       /\ Quit(w)
       /\ UNCHANGED <<store, push, rest>>

\* stage_receive_namespace: the refs the pod sees are the baseline of its push.
stage_receive_namespace(w) ==
    /\ At(w, "receive", "stage")
    /\ push' = [push EXCEPT ![task[w].push].retained = TRUE, ![task[w].push].expected = mirror]
    /\ Go(w, "relay")
    /\ UNCHANGED <<store, lock, rest, used>>

\* The pod updates refs in the namespace and receive-pack ends, or the relay fails.
received_updates(w) ==
    /\ At(w, "receive", "relay")
    /\ \/ /\ \E refs \in SUBSET Refs : push' = [push EXCEPT ![task[w].push].refs = refs]
          /\ Go(w, "decide") /\ UNCHANGED used
       \/ GoWith(w, "clean", {"Failed"}) /\ Fault /\ UNCHANGED push
    /\ UNCHANGED <<store, lock, rest>>

\* complete_received_push: the configuration read now decides.
complete_received_push(w) ==
    LET p == task[w].push
        refs == push[p].refs
        policy == IF refs = {} THEN "none" ELSE IF config = Gone THEN "gone" ELSE updates_policy(refs)
    IN  /\ At(w, "receive", "decide")
        /\ task' = [task EXCEPT ![w].pc = CASE policy = "allow" -> "prefetch"
                                            [] policy = "require-approval" -> "retain"
                                            [] OTHER -> "clean",
                                ![w].saw = CASE policy = "none" -> {"Published"}
                                             [] policy = "deny" -> {"Denied"}
                                             [] OTHER -> {"Failed"}]
        /\ consent' = [consent EXCEPT ![p] = config # Gone /\ \A r \in refs : config[r] = "allow"]
        /\ UNCHANGED <<store, push, lock, config, resuming, landed, used>>

\* retain_received_push_for_approval, step by step; each may fail.
retain_received_push(w) ==
    LET p == task[w].push
    IN  \/ /\ At(w, "receive", "retain")
           /\ \/ push' = [push EXCEPT ![p].bases = TRUE] /\ Go(w, "await") /\ UNCHANGED used
              \/ GoWith(w, "clean", {"Failed"}) /\ Fault /\ UNCHANGED push
           /\ UNCHANGED <<store, lock, rest>>
        \/ /\ At(w, "receive", "await")
           /\ \/ record_push_status(p, "ApprovalRequired") /\ Go(w, "create") /\ UNCHANGED <<lock, used>>
              \/ /\ push' = [push EXCEPT ![p].bases = FALSE, ![p].retained = FALSE]
                 /\ Quit(w) /\ Fault
           /\ UNCHANGED <<store, rest>>
        \/ /\ At(w, "receive", "create")
           /\ \/ push' = [push EXCEPT ![p].record = {}] /\ Quit(w) /\ UNCHANGED used
              \/ /\ push' = [push EXCEPT ![p].bases = FALSE, ![p].retained = FALSE]
                 /\ Go(w, "undo") /\ Fault /\ UNCHANGED lock
           /\ UNCHANGED <<store, rest>>
        \/ /\ At(w, "receive", "undo")
           /\ push' = [push EXCEPT ![p].status = "Failed"] /\ Quit(w)
           /\ UNCHANGED <<store, rest, used>>

\* finish_received_push: the namespace goes, and the pod can read the outcome.
finish_received_push(w) ==
    LET p == task[w].push
    IN  \/ /\ At(w, "receive", "finish")
           /\ GoWith(w, "clean", {"Published"})
           /\ UNCHANGED <<store, push, lock, rest, used>>
        \/ /\ At(w, "receive", "clean")
           /\ push' = [push EXCEPT ![p].retained = FALSE] /\ Go(w, "report")
           /\ UNCHANGED <<store, lock, rest, used>>
        \/ /\ At(w, "receive", "report")
           /\ \E outcome \in task[w].saw : record_push_status(p, outcome)
           /\ Quit(w)
           /\ UNCHANGED <<store, rest, used>>

-----------------------------------------------------------------------------
\* resolve_approval: approve, reject, postpone

\* RepositoryApprovalStore::claim, and the publication it spawns.
claim_approval(w) ==
    LET p == task[w].push
    IN  \/ /\ At(w, "approve", "read")
           /\ IF push[p].record = Absent \/ push[p].claim
              THEN End(w) ELSE GoWith(w, "claim", push[p].record)
           /\ UNCHANGED <<store, push, lock, rest, used>>
        \/ /\ At(w, "approve", "claim")
           /\ IF push[p].claim THEN End(w) /\ UNCHANGED <<push, consent>>
              ELSE /\ push' = [push EXCEPT ![p].claim = TRUE] /\ Go(w, "write")
                   /\ consent' = [consent EXCEPT ![p] = TRUE]
           /\ UNCHANGED <<store, lock, config, resuming, landed, used>>
        \/ /\ At(w, "approve", "write")
           /\ \/ /\ push' = [push EXCEPT ![p].record = task[w].saw \ {"failed"}]
                 /\ task' = Spawned(w, "publish", "read", p) /\ UNCHANGED used
              \/ push' = [push EXCEPT ![p].claim = FALSE] /\ End(w) /\ Fault
           /\ UNCHANGED <<store, lock, rest>>

\* RepositoryApprovalStore::postpone.
postpone_approval(w) ==
    LET p == task[w].push
    IN  \/ /\ At(w, "postpone", "read")
           /\ IF push[p].claim \/ push[p].record # {} THEN End(w) ELSE Go(w, "write")
           /\ UNCHANGED <<store, push, lock, rest, used>>
        \/ /\ At(w, "postpone", "write")
           /\ push' = [push EXCEPT ![p].record = {"postponed"}] /\ End(w)
           /\ UNCHANGED <<store, lock, rest, used>>

\* Mutant: a rejection only marks the push and keeps its refs.
RejectKeepsRefs(w) ==
    /\ At(w, "reject", "refs") /\ lock = 0
    /\ Go(w, "transition")
    /\ UNCHANGED <<store, push, lock, rest, used>>

\* remove_approval_references: under the lock the refs of the push go, then those of its bases.
remove_approval_references(w) ==
    LET p == task[w].push
    IN  \/ /\ At(w, "reject", "refs") /\ Locks(w)
           /\ push' = [push EXCEPT ![p].retained = FALSE] /\ Go(w, "bases")
           /\ UNCHANGED <<store, rest, used>>
        \/ /\ At(w, "reject", "bases")
           /\ push' = [push EXCEPT ![p].bases = FALSE] /\ Go(w, "transition") /\ Unlock(w)
           /\ UNCHANGED <<store, rest, used>>
        \/ /\ task[w].job = "reject" /\ task[w].pc \in {"refs", "bases", "transition"} /\ Fault
           /\ Quit(w)
           /\ UNCHANGED <<store, push, rest>>

\* reject_approval; RepositoryApprovalStore::remove looks for a claim before it removes the record.
reject_approval(w) ==
    LET p == task[w].push
    IN  \/ /\ At(w, "reject", "read")
           /\ IF push[p].record = Absent \/ push[p].claim THEN End(w) ELSE Go(w, "refs")
           /\ UNCHANGED <<store, push, lock, rest, used>>
        \/ remove_approval_references(w)
        \/ /\ At(w, "reject", "transition")
           /\ IF CanTransition(p, "Rejected")
              THEN push' = [push EXCEPT ![p].status = "Rejected"] /\ Go(w, "check")
              ELSE End(w) /\ UNCHANGED push
           /\ UNCHANGED <<store, lock, rest, used>>
        \/ /\ At(w, "reject", "check")
           /\ IF push[p].claim THEN End(w) ELSE Go(w, "remove")
           /\ UNCHANGED <<store, push, lock, rest, used>>
        \/ /\ At(w, "reject", "remove")
           /\ push' = [push EXCEPT ![p].record = Absent] /\ End(w)
           /\ UNCHANGED <<store, lock, rest, used>>

-----------------------------------------------------------------------------
\* publish_claimed_approval in its own task

\* The approval is claimed, and configuration and policy still admit it.
Publishable(p) ==
    /\ push[p].record # Absent /\ push[p].claim
    /\ config # Gone /\ \A r \in push[p].refs : config[r] # "deny"

\* Mutant: the status is written before the push.
PublishesFirst(w) ==
    LET p == task[w].push
    IN  /\ At(w, "publish", "lock") /\ Locks(w)
        /\ IF push[p].retained /\ CanTransition(p, "Published")
           THEN push' = [push EXCEPT ![p].status = "Published"] /\ Go(w, "prefetch")
           ELSE UNCHANGED push /\ Go(w, "finish")
        /\ UNCHANGED <<store, rest, used>>

\* Under the lock, the retained refs are those of the request.
resolve_reference(w) ==
    LET p == task[w].push
    IN  /\ At(w, "publish", "lock")
        /\ IF push[p].retained THEN Locks(w) /\ Go(w, "prefetch")
           ELSE lock = 0 /\ Go(w, "fail") /\ UNCHANGED lock
        /\ UNCHANGED <<store, push, rest, used>>

\* RepositoryApprovalStore::complete_claim: the record goes, then the claim.
complete_claim(w) ==
    LET p == task[w].push
    IN  \/ /\ At(w, "publish", "complete")
           /\ IF push[p].claim /\ push[p].record # Absent
              THEN push' = [push EXCEPT ![p].record = Absent] /\ Go(w, "release") /\ UNCHANGED lock
              ELSE Quit(w) /\ UNCHANGED push
           /\ UNCHANGED <<store, rest, used>>
        \/ /\ At(w, "publish", "release")
           /\ push' = [push EXCEPT ![p].claim = FALSE] /\ Quit(w)
           /\ UNCHANGED <<store, rest, used>>

\* Mutant: a failure keeps its claim.
KeepsClaim(w) ==
    /\ At(w, "publish", "fail")
    /\ End(w)
    /\ UNCHANGED <<store, push, lock, rest, used>>

\* RepositoryApprovalStore::fail_claim: the record shows the failure, then the claim goes.
fail_claim(w) ==
    LET p == task[w].push
    IN  \/ /\ At(w, "publish", "fail")
           /\ IF push[p].claim /\ push[p].record # Absent
              THEN GoWith(w, "mark", push[p].record \cup {"failed"})
              ELSE End(w)
           /\ UNCHANGED <<store, push, lock, rest, used>>
        \/ /\ At(w, "publish", "mark")
           /\ push' = [push EXCEPT ![p].record = task[w].saw] /\ Go(w, "unclaim")
           /\ UNCHANGED <<store, lock, rest, used>>
        \/ /\ At(w, "publish", "unclaim")
           /\ push' = [push EXCEPT ![p].claim = FALSE] /\ End(w)
           /\ UNCHANGED <<store, lock, rest, used>>

publish_claimed_approval(w) ==
    LET p == task[w].push
    IN  \/ /\ At(w, "publish", "read")
           /\ Go(w, IF Publishable(p) THEN "lock" ELSE "fail")
           /\ UNCHANGED <<store, push, lock, rest, used>>
        \/ resolve_reference(w)
        \/ /\ At(w, "publish", "finish")
           /\ IF CanTransition(p, "Published")
              THEN /\ push' = [push EXCEPT ![p].status = "Published"]
                   /\ Go(w, "unretain") /\ UNCHANGED lock
              ELSE Go(w, "fail") /\ Unlock(w) /\ UNCHANGED push
           /\ UNCHANGED <<store, rest, used>>
        \/ /\ At(w, "publish", "finish") /\ Fault
           /\ Go(w, "fail") /\ Unlock(w)
           /\ UNCHANGED <<store, push, rest>>
        \/ /\ At(w, "publish", "unretain")
           /\ \/ push' = [push EXCEPT ![p].retained = FALSE] /\ UNCHANGED used
              \/ Fault /\ UNCHANGED push
           /\ Go(w, "unbase")
           /\ UNCHANGED <<store, lock, rest>>
        \/ /\ At(w, "publish", "unbase")
           /\ push' = [push EXCEPT ![p].bases = FALSE] /\ Go(w, "complete")
           /\ UNCHANGED <<store, lock, rest, used>>
        \/ complete_claim(w)
        \/ fail_claim(w)

-----------------------------------------------------------------------------
\* Requests, the world, and restarts

\* A pod pushes; the identifier of the push is new.
receive_pack(p) ==
    /\ push[p] = Unpushed /\ \A w \in Workers : task[w].push # p
    /\ Budget("requests", MaxRequests)
    /\ \E w \in Workers : IdleWorker(w) /\ task' = Spawned(w, "receive", "lock", p)
    /\ UNCHANGED <<store, push, lock, rest>>

\* A user decides on a request they have seen; requests may cross.
resolve_approval(p) ==
    /\ push[p].record # Absent
    /\ Budget("requests", MaxRequests)
    /\ \E w \in Workers, decision \in {"approve", "reject", "postpone"} :
           IdleWorker(w) /\ task' = Spawned(w, decision, "read", p)
    /\ UNCHANGED <<store, push, lock, rest>>

\* The timer, a request, or a fetch that asks for it, refreshes the cache.
refresh_versions ==
    /\ Budget("requests", MaxRequests)
    /\ \E w \in Workers : IdleWorker(w) /\ task' = Spawned(w, "refresh", "lock", "")
    /\ UNCHANGED <<store, push, lock, rest>>

\* Somebody else updates the upstream.
foreign_push ==
    /\ Budget("changes", MaxChanges)
    /\ \E r \in Refs, o \in Foreign : o # upstream[r] /\ upstream' = [upstream EXCEPT ![r] = o]
    /\ UNCHANGED <<mirror, cache, push, task, lock, rest>>

edit_config ==
    /\ Budget("changes", MaxChanges)
    /\ \E c \in Configs \ {config} : config' = c
    /\ UNCHANGED <<store, push, task, lock, resuming, landed, consent>>

\* resume_background_publications looks at one approval.
resume_background_publications ==
    \E p \in resuming :
        /\ resuming' = resuming \ {p}
        /\ IF push[p].record # Absent /\ push[p].claim
           THEN \E w \in Workers : IdleWorker(w) /\ task' = Spawned(w, "publish", "read", p)
           ELSE UNCHANGED task
        /\ UNCHANGED <<store, push, lock, config, landed, consent, used>>

\* The daemon stops at any point and starts again.
restart ==
    /\ Budget("troubles", MaxTroubles)
    /\ task' = [w \in Workers |-> Idle] /\ lock' = 0
    /\ resuming' = Pushes
    /\ UNCHANGED <<store, push, config, landed, consent>>

\* The workspace stops while a push is served, or the client of a rejection goes away while it waits.
abort(w) ==
    /\ Fault
    /\ task[w].job = "receive" \/ (task[w].job = "reject" /\ task[w].pc \in {"refs", "bases"})
    /\ Quit(w)
    /\ UNCHANGED <<store, push, rest>>

-----------------------------------------------------------------------------
\* What the daemon does by itself; a pod ends its push when it likes.
Serves(w) ==
    \/ publish(w)
    \/ open_store(w)
    \/ stage_receive_namespace(w)
    \/ complete_received_push(w)
    \/ retain_received_push(w)
    \/ finish_received_push(w)
    \/ claim_approval(w)
    \/ postpone_approval(w)
    \/ reject_approval(w)
    \/ publish_claimed_approval(w)
    \/ refresh_cache(w)

DaemonStep == resume_background_publications \/ \E w \in Workers : Serves(w)

Next ==
    \/ DaemonStep
    \/ \E w \in Workers : received_updates(w) \/ abort(w)
    \/ \E p \in Pushes : receive_pack(p) \/ resolve_approval(p)
    \/ refresh_versions
    \/ foreign_push
    \/ edit_config
    \/ restart

Spec == Init /\ [][Next]_vars

\* The runtime polls every task that can go on; git ends, with or without success.
FairSpec == Spec /\ WF_vars(DaemonStep)

-----------------------------------------------------------------------------
\* Properties

\* A push whose status is Published (push.rs: "Every update was published upstream.") had each of
\* its refs upstream, whatever was retried, resumed or raced before the status was written.
PublishedIsUpstream ==
    \A p \in Pushes : push[p].status = "Published" => push[p].refs \subseteq landed[p]

\* Nothing of a push reaches the upstream unless a user approved it or the policy that was read
\* allowed every ref of it.
PushedWithConsent == \A p \in Pushes : landed[p] # {} => consent[p]

\* An update of the host replaces the object the pod, and the user who approved it, had seen
\* (publish: lease and --atomic --force-with-lease); no update of others is lost to it.
LeaseRespected ==
    [][\A r \in Refs : upstream'[r] \in Pushes /\ upstream'[r] # upstream[r]
           => upstream[r] = push[upstream'[r]].expected[r]]_vars

\* Once the pod can read that its push was rejected, no publication of it reaches the upstream,
\* also when approval and rejection cross (reject_approval: refs before status before record).
RejectedStaysOut ==
    [][\A p \in Pushes : push[p].status = "Rejected" => landed'[p] = landed[p]]_vars

Claimed == \E p \in Pushes : push[p].claim /\ push[p].record # Absent

PodPushes == \E w \in Workers : At(w, "receive", "relay")

\* An approval does not stay in publication: the claim is released with success or failure, also
\* after restarts, unless a pod holds the lock of the store with a push it does not end.
ClaimsEnd == []<>(~Claimed \/ PodPushes)

\* The recorded version describes the refs that the store serves under it (cache.rs: "Digest of
\* tracked branches, tags, and symbolic HEAD"), whenever nobody is at work on the store.
VersionIsSnapshot == lock = 0 => cache.refs = mirror

\* A request whose publication failed can still be decided (repositories.sidex: "The most recent
\* background publication attempt failed and can be retried."): it is retained, or can be rejected.
FailedIsDecidable ==
    \A p \in Pushes : "failed" \in push[p].record /\ (\A w \in Workers : task[w].push # p)
        => push[p].retained \/ CanTransition(p, "Rejected")
=============================================================================
