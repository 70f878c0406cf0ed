------------------------- MODULE AutomationsProofs --------------------------
(***************************************************************************)
(* Proofs about Automations, for any executions, steps, timeouts, limit    *)
(* and bounds: a step is handed out once, never before the approvals in    *)
(* front of it, an occurrence of a schedule starts one execution, and the  *)
(* executions in progress stay within the limit.                           *)
(*                                                                         *)
(* IInv follows one execution through its record in memory, its record on  *)
(* disk and its task: a step that was handed out is pending in neither     *)
(* record (Kept), so that no failed write, approval or restart offers it   *)
(* again; a pending step stands behind approvals that are to come, open or *)
(* given (Sound); the task works on a step only when no approval is open   *)
(* (TaskOK).                                                               *)
(*                                                                         *)
(* The limit on the executions in progress needs Slots as well: while no   *)
(* write failed, memory and disk agree, and a task that works holds an     *)
(* execution in progress, which nobody ends but the task itself.           *)
(***************************************************************************)
EXTENDS Automations, TLAPS

States == {"Queued", "Running", "WaitingForApproval", "WaitingForInput", "Succeeded", "Failed",
           "Canceled", "Interrupted"}

StepStates == {"Pending", "Running", "WaitingForApproval", "WaitingForInput", "Succeeded",
               "Failed", "Canceled", "Skipped"}

Numbers(e) == 1 .. Len(Steps[e])

IsApproval(e, i) == Steps[e][i].kind = "approval"

Record(e) == [state : States, steps : [Numbers(e) -> StepStates],
              cancellation_requested : BOOLEAN, started : BOOLEAN, cron : BOOLEAN]

(* No approval is open in r; none is, but for that of step i. *)
Quiet(e, r) ==
    \A j \in Numbers(e) : IsApproval(e, j) => r.steps[j] \notin {"Running", "WaitingForApproval"}
QuietBut(e, r, i) ==
    \A j \in Numbers(e) \ {i} : IsApproval(e, j) => r.steps[j] \notin {"Running", "WaitingForApproval"}

(* Somebody gave every approval before step i. *)
Cleared(e, i, given) == \A j \in 1 .. i - 1 : IsApproval(e, j) => <<e, j>> \in given

(* What a stored record says: a step is pending behind an approval only if that is *)
(* to come, open, or given.                                                        *)
Sound(e, r, given) ==
    /\ r \in Record(e)
    /\ \A i \in Numbers(e) : r.steps[i] = "Pending" =>
          \A j \in 1 .. i - 1 : IsApproval(e, j) =>
              r.steps[j] \in {"Pending", "Running", "WaitingForApproval"} \/ <<e, j>> \in given
    /\ \A i \in Numbers(e) : r.steps[i] = "WaitingForApproval" => IsApproval(e, i)
    /\ r.state = "Queued" => Quiet(e, r)
    /\ r.state = "WaitingForApproval" =>
          \E i \in Numbers(e) : r.steps[i] = "WaitingForApproval" /\ QuietBut(e, r, i)

Pcs == {"none", "start", "loop", "begin", "begun", "work", "broken", "leave", "error"}
LivePcs == {"start", "loop", "begin", "begun", "work", "broken"}

(* The step i was handed out, so no record may offer it again. *)
Begun(e, p, q, i) ==
    p # Absent /\ q # Absent /\ p.steps[i] # "Pending" /\ q.steps[i] # "Pending"

(* The task t of e, with the record p in memory and q on disk. *)
TaskOK(e, p, q, t, eff, given) ==
    /\ t.pc \in LivePcs => p.state \notin {"Queued", "WaitingForApproval"}
    /\ t.pc \in LivePcs \ {"begun"} => Quiet(e, p)
    /\ (t.pc = "begin" /\ t.step # 0) \/ t.pc \in {"begun", "work", "broken"} =>
          t.step \in Numbers(e) /\ Cleared(e, t.step, given)
    /\ (t.pc = "begin" /\ t.step # 0) \/ t.pc = "begun" => eff[t.step] = 0
    /\ t.pc = "begun" => QuietBut(e, p, t.step) /\ Begun(e, p, q, t.step)
    /\ t.pc \in {"work", "broken"} => ~IsApproval(e, t.step)

(* The records of e, and how often its steps were started. *)
Kept(e, p, q, eff, given) ==
    /\ p = Absent \/ Sound(e, p, given)
    /\ q = Absent \/ Sound(e, q, given)
    /\ p.cron = q.cron
    /\ \A i \in Numbers(e) : eff[i] > 0 => eff[i] = 1 /\ Cleared(e, i, given) /\ Begun(e, p, q, i)

(* All of e: a task has its entry in the running map. *)
Good(e, p, q, entry, t, eff, given) ==
    /\ Kept(e, p, q, eff, given)
    /\ TaskOK(e, p, q, t, eff, given)
    /\ entry = "none" => t = NoTask
    /\ t # NoTask => p # Absent

(* The record s may replace p in memory and on disk. *)
Follows(e, p, s, given) ==
    /\ Sound(e, s, given) /\ s.cron = p.cron
    /\ \A i \in Numbers(e) : s.steps[i] = "Pending" => p.steps[i] = "Pending"

(* f has one value per execution. *)
PerExecution(f) == f = [e \in Executions |-> f[e]]

(* The types of the variables. *)
Maps == PerExecution(executions) /\ PerExecution(disk)

Others ==
    /\ PerExecution(effects)
    /\ running \in [Executions -> {"none", "quiet", "cancel"}]
    /\ task \in [Executions -> [pc : Pcs, step : Nat]]
    /\ late \in [Executions -> Nat]
    /\ dispatcher \in [pc : {"select", "expire", "expiring", "claim"}, ids : SUBSET Executions]
    /\ clock \in [Executions -> {"no", "soon", "over"}]
    /\ \A e \in Executions : effects[e] \in [Numbers(e) -> Nat]
    /\ used \in [cancels : Nat, failures : Nat, crashes : Nat]

(* The inductive invariant; two executions are not of the same occurrence. *)
IInv ==
    /\ Maps /\ Others
    /\ \A e \in Executions :
          /\ Good(e, executions[e], disk[e], running[e], task[e], effects[e], consents)
          /\ late[e] > 0 \/ e \in dispatcher.ids => executions[e] # Absent
    /\ \A e, f \in Executions : executions[e].cron /\ executions[f].cron => e = f

-----------------------------------------------------------------------------
(* Records.                                                                *)

(* The positions of the steps of an execution. *)
LEMMA NumbersAre ==
    ASSUME NEW e \in Executions
    PROVE  /\ Numbers(e) \subseteq Nat \ {0} /\ e \in Nat /\ 0 \notin Numbers(e)
           /\ \A i \in Numbers(e) : 1 .. i - 1 \subseteq Numbers(e) /\ i \notin 1 .. i - 1
           /\ \A i, j \in Numbers(e) : i < j => i \in 1 .. j - 1
<1>1. Len(Steps[e]) \in Nat /\ e \in Nat
  BY AutomationsAssumption DEF Executions
<1> QED BY <1>1 DEF Numbers

(* Turn changes the steps in one of the given states, and nothing else. *)
LEMMA TurnIs ==
    ASSUME NEW e \in Executions, NEW r \in Record(e), NEW from, NEW to \in StepStates, NEW s,
           s = Turn(r, from, to)
    PROVE  /\ s \in Record(e) /\ s.state = r.state /\ s.cron = r.cron
           /\ \A i \in Numbers(e) : /\ r.steps[i] \in from => s.steps[i] = to
                                    /\ r.steps[i] \notin from => s.steps[i] = r.steps[i]
<1> DEFINE steps == [i \in DOMAIN r.steps |-> IF r.steps[i] \in from THEN to ELSE r.steps[i]]
<1>1. /\ steps \in [Numbers(e) -> StepStates]
      /\ \A i \in Numbers(e) : /\ r.steps[i] \in from => steps[i] = to
                               /\ r.steps[i] \notin from => steps[i] = r.steps[i]
  <2>1. DOMAIN r.steps = Numbers(e) /\ \A i \in Numbers(e) : r.steps[i] \in StepStates
    BY Zenon DEF Record
  <2> QED BY <2>1, Zenon
<1>2. s = [r EXCEPT !.steps = steps]
  BY Zenon DEF Turn
<1> HIDE DEF steps
<1> QED BY <1>1, <1>2, Zenon DEF Record

(* SetStep changes one step. *)
LEMMA SetIs ==
    ASSUME NEW e \in Executions, NEW r \in Record(e), NEW i \in Numbers(e), NEW to \in StepStates,
           NEW s, s = SetStep(r, i, to)
    PROVE  /\ s \in Record(e) /\ s.state = r.state /\ s.cron = r.cron
           /\ s.steps = [r.steps EXCEPT ![i] = to]
<1>1. s = [r EXCEPT !.steps = [r.steps EXCEPT ![i] = to]]
  BY Zenon DEF SetStep
<1> DEFINE steps == [r.steps EXCEPT ![i] = to]
<1>2. steps \in [Numbers(e) -> StepStates]
  BY Zenon DEF Record
<1> HIDE DEF steps
<1> QED BY <1>1, <1>2, Zenon DEF Record, steps

(* A new state leaves the rest of the record alone. *)
LEMMA StateIs ==
    ASSUME NEW e \in Executions, NEW r \in Record(e), NEW state \in States,
           NEW s, s = [r EXCEPT !.state = state]
    PROVE  s \in Record(e) /\ s.state = state /\ s.cron = r.cron /\ s.steps = r.steps
BY Zenon DEF Record

(* A stored record is not the missing one. *)
LEMMA NotAbsent == \A e \in Executions : Absent \notin Record(e)
BY Zenon DEF Record, States, Absent

(* A record without a pending step, in a state that nobody waits in. *)
LEMMA EndedFollows ==
    ASSUME NEW e \in Executions, NEW given, NEW p, Sound(e, p, given),
           NEW s \in Record(e), s.cron = p.cron, s.state \notin {"Queued", "WaitingForApproval"},
           \A i \in Numbers(e) : /\ s.steps[i] # "Pending"
                                 /\ s.steps[i] = "WaitingForApproval" => p.steps[i] = "WaitingForApproval"
    PROVE  Follows(e, p, s, given)
BY Zenon DEF Follows, Sound

(* Ending a record: its steps are closed, the pending ones skipped. *)
LEMMA FailIs ==
    ASSUME NEW e \in Executions, NEW given, NEW p, Sound(e, p, given),
           NEW from, NEW to \in {"Canceled", "Failed"},
           NEW state \in {"Canceled", "Failed", "Interrupted"}, NEW s,
           s = [skip_pending_steps(Turn(p, from, to)) EXCEPT !.state = state]
    PROVE  Follows(e, p, s, given) /\ s.state = state /\ (from = InProgress => Quiet(e, s))
<1>1. /\ p \in Record(e) /\ to \in StepStates /\ "Skipped" \in StepStates /\ state \in States
  BY Zenon DEF Sound, StepStates, States
<1>2. PICK u : u = Turn(p, from, to)
  BY Zenon
<1>3. PICK v : v = Turn(u, {"Pending"}, "Skipped")
  BY Zenon
<1>4. s = [v EXCEPT !.state = state]
  BY <1>2, <1>3, Zenon DEF skip_pending_steps
<1>5. /\ u \in Record(e) /\ u.cron = p.cron
      /\ \A i \in Numbers(e) : /\ p.steps[i] \in from => u.steps[i] = to
                               /\ p.steps[i] \notin from => u.steps[i] = p.steps[i]
  BY <1>1, <1>2, TurnIs
<1>6. /\ v \in Record(e) /\ v.cron = u.cron
      /\ \A i \in Numbers(e) : /\ u.steps[i] \in {"Pending"} => v.steps[i] = "Skipped"
                               /\ u.steps[i] \notin {"Pending"} => v.steps[i] = u.steps[i]
  BY <1>1, <1>3, <1>5, TurnIs
<1>7. s \in Record(e) /\ s.state = state /\ s.cron = v.cron /\ s.steps = v.steps
  BY <1>1, <1>4, <1>6, Zenon DEF Record
<1>8. \A i \in Numbers(e) :
         /\ s.steps[i] # "Pending" /\ (s.steps[i] = "WaitingForApproval" => p.steps[i] = "WaitingForApproval")
         /\ from = InProgress => s.steps[i] \notin {"Running", "WaitingForApproval"}
  BY <1>5, <1>6, <1>7 DEF InProgress
<1>9. from = InProgress => Quiet(e, s)
  BY <1>8, Zenon DEF Quiet
<1>10. Follows(e, p, s, given)
  <2>1. s.cron = p.cron /\ s.state \notin {"Queued", "WaitingForApproval"}
    BY <1>5, <1>6, <1>7, Zenon
  <2> QED BY <1>7, <1>8, <2>1, EndedFollows, Zenon
<1> QED BY <1>7, <1>9, <1>10, Zenon

(* The record s ends what p is at, and opens no approval. *)
Closes(e, p, s, given) ==
    /\ Follows(e, p, s, given) /\ s.state \notin {"Queued", "WaitingForApproval"}
    /\ Quiet(e, p) => Quiet(e, s)
    /\ \A j : QuietBut(e, p, j) => QuietBut(e, s, j)

(* cancel_execution ends a record. *)
LEMMA CancelCloses ==
    ASSUME NEW e \in Executions, NEW given, NEW p, Sound(e, p, given), NEW s, s = cancel_execution(p)
    PROVE  Closes(e, p, s, given)
<1>1. Follows(e, p, s, given) /\ Quiet(e, s) /\ s.state = "Canceled"
  BY FailIs DEF cancel_execution
<1> QED BY <1>1, Zenon DEF Closes, Quiet, QuietBut

(* fail_execution ends a record. *)
LEMMA FailCloses ==
    ASSUME NEW e \in Executions, NEW given, NEW p, Sound(e, p, given), NEW s, s = fail_execution(p)
    PROVE  Closes(e, p, s, given)
<1>1. CASE is_terminal(p)
  <2>1. s = p /\ s.state \notin {"Queued", "WaitingForApproval"}
    BY <1>1, Zenon DEF fail_execution, is_terminal
  <2> QED BY <2>1, Zenon DEF Closes, Follows
<1>2. CASE ~is_terminal(p)
  <2>1. Follows(e, p, s, given) /\ Quiet(e, s) /\ s.state = "Failed"
    BY <1>2, FailIs DEF fail_execution
  <2> QED BY <2>1, Zenon DEF Closes, Quiet, QuietBut
<1> QED BY <1>1, <1>2, Zenon

(* A rejected approval ends the record with its step failed. *)
LEMMA RejectFollows ==
    ASSUME NEW e \in Executions, NEW given, NEW p, Sound(e, p, given), NEW i \in Numbers(e), NEW s,
           s = [skip_pending_steps(SetStep(p, i, "Failed")) EXCEPT !.state = "Failed"]
    PROVE  Follows(e, p, s, given) /\ s.state = "Failed"
<1>1. /\ p \in Record(e) /\ "Failed" \in StepStates /\ "Skipped" \in StepStates /\ "Failed" \in States
  BY Zenon DEF Sound, StepStates, States
<1>2. PICK u : u = SetStep(p, i, "Failed")
  BY Zenon
<1>3. PICK v : v = Turn(u, {"Pending"}, "Skipped")
  BY Zenon
<1>4. s = [v EXCEPT !.state = "Failed"]
  BY <1>2, <1>3, Zenon DEF skip_pending_steps
<1>5. u.cron = p.cron /\ u.steps = [p.steps EXCEPT ![i] = "Failed"]
  BY <1>1, <1>2, SetIs
<1>11. u \in Record(e)
  BY <1>1, <1>2, SetIs, Zenon
<1>6. /\ v \in Record(e) /\ v.cron = u.cron
      /\ \A j \in Numbers(e) : /\ u.steps[j] \in {"Pending"} => v.steps[j] = "Skipped"
                               /\ u.steps[j] \notin {"Pending"} => v.steps[j] = u.steps[j]
  BY <1>1, <1>3, <1>11, TurnIs
<1>7. s \in Record(e) /\ s.state = "Failed" /\ s.cron = v.cron /\ s.steps = v.steps
  BY <1>1, <1>4, <1>6, Zenon DEF Record
<1>8. p.steps \in [Numbers(e) -> StepStates]
  BY <1>1, Zenon DEF Record
<1>9. \A j \in Numbers(e) : /\ s.steps[j] # "Pending"
                            /\ s.steps[j] = "WaitingForApproval" => p.steps[j] = "WaitingForApproval"
  BY <1>5, <1>6, <1>7, <1>8
<1>10. Follows(e, p, s, given)
  BY <1>5, <1>6, <1>7, <1>9, EndedFollows, Zenon
<1> QED BY <1>7, <1>10, Zenon

(* Step i is at work in s, and no other approval is open than in p. *)
Starts(e, p, s, i) == s.steps[i] = "Running" /\ (Quiet(e, p) => QuietBut(e, s, i))

(* A step is begun. *)
LEMMA BeginFollows ==
    ASSUME NEW e \in Executions, NEW given, NEW p, Sound(e, p, given), NEW i \in Numbers(e), NEW s,
           s = [SetStep(p, i, "Running") EXCEPT !.state = "Running"]
    PROVE  Follows(e, p, s, given) /\ s.state = "Running" /\ Starts(e, p, s, i)
<1>1. p \in Record(e) /\ "Running" \in StepStates /\ "Running" \in States
  BY Zenon DEF Sound, StepStates, States
<1>2. PICK u : u = SetStep(p, i, "Running")
  BY Zenon
<1>3. u \in Record(e) /\ u.cron = p.cron /\ u.steps = [p.steps EXCEPT ![i] = "Running"]
  BY <1>1, <1>2, SetIs
<1>4. s \in Record(e) /\ s.state = "Running" /\ s.cron = u.cron /\ s.steps = u.steps
  BY <1>1, <1>2, <1>3, Zenon DEF Record
<1>5. p.steps \in [Numbers(e) -> StepStates]
  BY <1>1, Zenon DEF Record
<1>6. s.steps[i] = "Running" /\ \A j \in Numbers(e) : j # i => s.steps[j] = p.steps[j]
  BY <1>3, <1>4, <1>5, Zenon
<1>7. Follows(e, p, s, given)
  BY <1>3, <1>4, <1>6, NumbersAre DEF Follows, Sound
<1> QED BY <1>4, <1>6, <1>7, Zenon DEF Starts, Quiet, QuietBut

(* The work of a step moves on. *)
LEMMA SetFollows ==
    ASSUME NEW e \in Executions, NEW given, NEW p, Sound(e, p, given), NEW i \in Numbers(e),
           ~IsApproval(e, i), Quiet(e, p), NEW to \in StepStates \ {"Pending", "WaitingForApproval"},
           NEW s \in Record(e), s.cron = p.cron, s.steps = [p.steps EXCEPT ![i] = to],
           s.state \notin {"Queued", "WaitingForApproval"}
    PROVE  Follows(e, p, s, given) /\ Quiet(e, s)
<1>1. p.steps \in [Numbers(e) -> StepStates]
  BY Zenon DEF Sound, Record
<1>2. s.steps[i] = to /\ \A j \in Numbers(e) : j # i => s.steps[j] = p.steps[j]
  BY <1>1, Zenon
<1>3. Follows(e, p, s, given)
  BY <1>2, NumbersAre DEF Follows, Sound
<1> QED BY <1>2, <1>3, Zenon DEF Quiet

(* A step asks for its approval. *)
LEMMA AskFollows ==
    ASSUME NEW e \in Executions, NEW given, NEW p, Sound(e, p, given), NEW i \in Numbers(e),
           IsApproval(e, i), QuietBut(e, p, i), p.steps[i] # "Pending",
           NEW s, s = [SetStep(p, i, "WaitingForApproval") EXCEPT !.state = "WaitingForApproval"]
    PROVE  Follows(e, p, s, given) /\ s.state = "WaitingForApproval"
<1>1. p \in Record(e) /\ "WaitingForApproval" \in StepStates \cap States
  BY Zenon DEF Sound, StepStates, States
<1>2. PICK u : u = SetStep(p, i, "WaitingForApproval")
  BY Zenon
<1>3. u \in Record(e) /\ u.cron = p.cron /\ u.steps = [p.steps EXCEPT ![i] = "WaitingForApproval"]
  BY <1>1, <1>2, SetIs
<1>4. s \in Record(e) /\ s.state = "WaitingForApproval" /\ s.cron = u.cron /\ s.steps = u.steps
  BY <1>1, <1>2, <1>3, Zenon DEF Record
<1>5. p.steps \in [Numbers(e) -> StepStates]
  BY <1>1, Zenon DEF Record
<1>6. s.steps[i] = "WaitingForApproval" /\ \A j \in Numbers(e) : j # i => s.steps[j] = p.steps[j]
  BY <1>3, <1>4, <1>5, Zenon
<1>7. QuietBut(e, s, i)
  BY <1>6, Zenon DEF QuietBut
<1>8. \A j \in Numbers(e) : s.steps[j] = "Pending" =>
          \A k \in 1 .. j - 1 : IsApproval(e, k) =>
              s.steps[k] \in {"Pending", "Running", "WaitingForApproval"} \/ <<e, k>> \in given
  BY <1>6, NumbersAre, Zenon DEF Sound
<1>9. Sound(e, s, given)
  BY <1>4, <1>6, <1>7, <1>8, Zenon DEF Sound
<1> QED BY <1>3, <1>4, <1>6, <1>9, Zenon DEF Follows

-----------------------------------------------------------------------------
(* One execution changes.                                                  *)

(* More approvals given do no harm. *)
LEMMA Grows ==
    ASSUME NEW e \in Executions, NEW p, NEW q, NEW entry, NEW t, NEW eff, NEW given, NEW more,
           given \subseteq more, Good(e, p, q, entry, t, eff, given)
    PROVE  Good(e, p, q, entry, t, eff, more)
<1>1. \A i : Cleared(e, i, given) => Cleared(e, i, more)
  BY Zenon DEF Cleared
<1>2. \A r : Sound(e, r, given) => Sound(e, r, more)
  BY Zenon DEF Sound
<1>3. Kept(e, p, q, eff, more)
  BY <1>1, <1>2, Zenon DEF Good, Kept
<1>4. TaskOK(e, p, q, t, eff, more)
  BY <1>1, Zenon DEF Good, TaskOK
<1> QED BY <1>3, <1>4, Zenon DEF Good

(* A record that follows may be written, or written in memory only. *)
LEMMA KeptWrite ==
    ASSUME NEW e \in Executions, NEW p, NEW q, NEW eff, NEW given, NEW s,
           Kept(e, p, q, eff, given), p # Absent, Follows(e, p, s, given)
    PROVE  Kept(e, s, s, eff, given) /\ Kept(e, s, q, eff, given) /\ s # Absent
<1>1. s # Absent
  BY NotAbsent, Zenon DEF Follows, Sound
<1> QED BY <1>1, Zenon DEF Kept, Follows, Begun

(* Where a write to one execution leaves both maps. *)
LEMMA Updates ==
    ASSUME Maps, NEW e \in Executions, NEW r, executions' = [executions EXCEPT ![e] = r],
           disk' = [disk EXCEPT ![e] = r] \/ disk' = disk
    PROVE  /\ Maps' /\ executions'[e] = r
           /\ (disk' = [disk EXCEPT ![e] = r] => disk'[e] = r)
           /\ (disk'[e] = r \/ disk'[e] = disk[e])
           /\ \A f \in Executions : f # e => executions'[f] = executions[f] /\ disk'[f] = disk[f]
<1>1. PerExecution(executions) /\ PerExecution(disk)
  BY Zenon DEF Maps
<1>2. /\ PerExecution(executions') /\ executions'[e] = r
      /\ \A f \in Executions : f # e => executions'[f] = executions[f]
  BY <1>1, Zenon DEF PerExecution
<1>3. CASE disk' = [disk EXCEPT ![e] = r]
  <2>1. PerExecution(disk') /\ disk'[e] = r /\ \A f \in Executions : f # e => disk'[f] = disk[f]
    BY <1>1, <1>3, Zenon DEF PerExecution
  <2> QED BY <1>2, <2>1, Zenon DEF Maps
<1>4. CASE disk' = disk
  <2>1. disk' = [disk EXCEPT ![e] = r] => disk'[e] = r
    BY <1>1, Zenon DEF PerExecution
  <2> QED BY <1>1, <1>2, <1>4, <2>1, Zenon DEF Maps
<1> QED BY <1>3, <1>4, Zenon

(* The budget of failures keeps its type. *)
LEMMA Uses ==
    ASSUME Others, NoTrouble \/ Failure
    PROVE  used' \in [cancels : Nat, failures : Nat, crashes : Nat]
BY DEF Others, NoTrouble, Failure

(* It is enough to look at the execution that a step is about. *)
LEMMA Lifts ==
    ASSUME IInv, Maps', Others', NEW e \in Executions,
           \A f \in Executions : f # e =>
               /\ executions'[f] = executions[f] /\ disk'[f] = disk[f] /\ running'[f] = running[f]
               /\ task'[f] = task[f] /\ effects'[f] = effects[f],
           consents \subseteq consents',
           Good(e, executions'[e], disk'[e], running'[e], task'[e], effects'[e], consents'),
           executions'[e].cron => executions[e].cron \/ \A f \in Executions : ~executions[f].cron,
           executions[e] # Absent => executions'[e] # Absent,
           \A f \in Executions : late'[f] > 0 \/ f \in dispatcher'.ids =>
               late[f] > 0 \/ f \in dispatcher.ids \/ executions[f] # Absent
    PROVE  IInv'
<1>1. ASSUME NEW f \in Executions
      PROVE  /\ Good(f, executions[f], disk[f], running[f], task[f], effects[f], consents)'
             /\ (late[f] > 0 \/ f \in dispatcher.ids => executions[f] # Absent)'
  <2>1. (late[f] > 0 \/ f \in dispatcher.ids => executions[f] # Absent)'
    BY Zenon DEF IInv
  <2>2. CASE f = e
    BY <2>1, <2>2, Zenon
  <2>3. CASE f # e
    <3>1. Good(f, executions[f], disk[f], running[f], task[f], effects[f], consents)
      BY Zenon DEF IInv
    <3>2. Good(f, executions[f], disk[f], running[f], task[f], effects[f], consents')
      BY <3>1, Grows, Zenon
    <3> QED BY <2>1, <2>3, <3>2, Zenon
  <2> QED BY <2>2, <2>3, Zenon
<1>2. \A f, g \in Executions : executions'[f].cron /\ executions'[g].cron => f = g
  BY Zenon DEF IInv
<1> QED BY <1>1, <1>2, Zenon DEF IInv

(* Nothing of an execution changes. *)
LEMMA Idles ==
    ASSUME IInv, Others', UNCHANGED <<executions, disk, running, task, effects, consents>>,
           \A f \in Executions : late'[f] > 0 \/ f \in dispatcher'.ids =>
               late[f] > 0 \/ f \in dispatcher.ids \/ executions[f] # Absent
    PROVE  IInv'
BY Zenon DEF IInv, Maps

(* The task of e goes on as t, and the records stay. *)
LEMMA TaskGoes ==
    ASSUME IInv, NEW e \in Executions, NEW t \in [pc : Pcs, step : Nat], task' = [task EXCEPT ![e] = t],
           task[e].pc # "none", TaskOK(e, executions[e], disk[e], t, effects[e], consents),
           NoTrouble \/ Failure,
           UNCHANGED <<executions, disk, running, late, dispatcher, clock, effects, calls>>
    PROVE  IInv'
<1>1. Others /\ Maps /\ Good(e, executions[e], disk[e], running[e], task[e], effects[e], consents)
  BY Zenon DEF IInv
<1>2. /\ task' \in [Executions -> [pc : Pcs, step : Nat]] /\ task'[e] = t
      /\ \A f \in Executions : f # e => task'[f] = task[f]
  BY <1>1, Zenon DEF Others
<1>3. Others' /\ Maps'
  BY <1>1, <1>2, Uses, Zenon DEF Others, PerExecution, Maps
<1>4. running[e] # "none" /\ executions[e] # Absent
  BY <1>1 DEF Good, NoTask
<1>5. Good(e, executions'[e], disk'[e], running'[e], task'[e], effects'[e], consents')
  BY <1>1, <1>2, <1>4, Zenon DEF Good, calls
<1> QED BY <1>2, <1>3, <1>5, Lifts, Zenon DEF calls

(* An update by the task of e. *)
LEMMA TaskUpdates ==
    ASSUME IInv, NEW e \in Executions, NEW r, NEW next \in Pcs, NEW error \in Pcs,
           task[e].pc # "none", update_execution(e, r, next, error),
           Follows(e, executions[e], r, consents),
           \A t : t.pc = next /\ t.step = task[e].step => TaskOK(e, r, r, t, effects[e], consents),
           \A t : t.pc = error /\ t.step = task[e].step => TaskOK(e, r, disk[e], t, effects[e], consents),
           UNCHANGED <<running, late, dispatcher, clock, effects, calls>>
    PROVE  IInv'
<1>1. Others /\ Maps /\ Good(e, executions[e], disk[e], running[e], task[e], effects[e], consents)
  BY Zenon DEF IInv
<1>2. task \in [Executions -> [pc : Pcs, step : Nat]] /\ NoTask.pc = "none"
  BY <1>1, Zenon DEF Others, NoTask
<1>3. PICK pc \in Pcs : /\ Goto(e, pc)
                        /\ (Write(e, r) /\ pc = next) \/ (WriteFails(e, r) /\ pc = error)
  BY Zenon DEF update_execution
<1>4. /\ Maps' /\ executions'[e] = r /\ (Write(e, r) => disk'[e] = r)
      /\ disk'[e] = r \/ disk'[e] = disk[e]
      /\ \A f \in Executions : f # e => executions'[f] = executions[f] /\ disk'[f] = disk[f]
  BY <1>1, <1>3, Updates DEF Write, WriteFails
<1>5. /\ task' \in [Executions -> [pc : Pcs, step : Nat]]
      /\ task'[e].pc = pc /\ task'[e].step = task[e].step
      /\ \A f \in Executions : f # e => task'[f] = task[f]
  BY <1>2, <1>3, Zenon DEF Goto
<1>6. Others'
  <2>1. used' \in [cancels : Nat, failures : Nat, crashes : Nat]
    BY <1>1, <1>3, Uses, Zenon DEF Write, WriteFails
  <2> QED BY <1>1, <1>5, <2>1, Zenon DEF Others, PerExecution
<1>7. running[e] # "none" /\ executions[e] # Absent
  BY <1>1, <1>2, Zenon DEF Good
<1>8. Kept(e, r, disk'[e], effects[e], consents) /\ r # Absent
  BY <1>1, <1>4, <1>7, KeptWrite, Zenon DEF Good
<1>9. TaskOK(e, r, disk'[e], task'[e], effects[e], consents)
  <2>1. CASE Write(e, r) /\ pc = next
    BY <1>4, <1>5, <2>1, Zenon
  <2>2. CASE WriteFails(e, r) /\ pc = error
    BY <1>5, <2>2, Zenon DEF WriteFails
  <2> QED BY <1>3, <2>1, <2>2, Zenon
<1>10. Good(e, executions'[e], disk'[e], running'[e], task'[e], effects'[e], consents')
  BY <1>4, <1>7, <1>8, <1>9, Zenon DEF Good, calls
<1>11. executions'[e].cron = executions[e].cron
  BY <1>4, Zenon DEF Follows
<1> QED BY <1>4, <1>5, <1>6, <1>8, <1>10, <1>11, Lifts DEF calls

(* An update by somebody else, which closes the approvals or finds no task. *)
LEMMA OtherUpdates ==
    ASSUME IInv, NEW e \in Executions, NEW r, executions[e] # Absent,
           executions' = [executions EXCEPT ![e] = r],
           disk' = [disk EXCEPT ![e] = r] \/ disk' = disk,
           Follows(e, executions[e], r, consents'), consents \subseteq consents',
           Closes(e, executions[e], r, consents') \/ task[e].pc \notin LivePcs,
           Others', \A f \in Executions : late'[f] > 0 \/ f \in dispatcher'.ids =>
                                            late[f] > 0 \/ f \in dispatcher.ids,
           UNCHANGED <<running, task, effects>>
    PROVE  IInv'
<1>1. /\ Maps /\ Good(e, executions[e], disk[e], running[e], task[e], effects[e], consents)
  BY Zenon DEF IInv
<1>2. /\ Maps' /\ executions'[e] = r /\ (disk'[e] = r \/ disk'[e] = disk[e])
      /\ \A f \in Executions : f # e => executions'[f] = executions[f] /\ disk'[f] = disk[f]
  BY <1>1, Updates, Zenon
<1>3. Good(e, executions[e], disk[e], running[e], task[e], effects[e], consents')
  BY <1>1, Grows, Zenon
<1>4. Kept(e, r, disk'[e], effects[e], consents') /\ r # Absent
  <2>1. Kept(e, executions[e], disk[e], effects[e], consents')
    BY <1>3, Zenon DEF Good
  <2>2. /\ Kept(e, r, r, effects[e], consents') /\ Kept(e, r, disk[e], effects[e], consents')
        /\ r # Absent
    BY <2>1, KeptWrite, Zenon
  <2> QED BY <1>2, <2>2, Zenon
<1>5. TaskOK(e, r, disk'[e], task[e], effects[e], consents')
  <2>1. CASE task[e].pc \notin LivePcs
    BY <2>1, Zenon DEF TaskOK, LivePcs
  <2>2. CASE Closes(e, executions[e], r, consents')
    <3>1. \A i \in Numbers(e) : r.steps[i] = "Pending" => executions[e].steps[i] = "Pending"
      BY Zenon DEF Follows
    <3> QED BY <1>2, <1>3, <1>4, <2>2, <3>1, Zenon DEF Good, TaskOK, Closes, Begun
  <2> QED BY <2>1, <2>2, Zenon
<1>6. Good(e, executions'[e], disk'[e], running'[e], task'[e], effects'[e], consents')
  BY <1>1, <1>2, <1>4, <1>5, Zenon DEF Good
<1>7. executions'[e].cron = executions[e].cron
  BY <1>2, Zenon DEF Follows
<1> QED BY <1>2, <1>4, <1>6, <1>7, Lifts

-----------------------------------------------------------------------------
(* Calls.                                                                  *)

(* The flag of cancel leaves a record sound. *)
LEMMA AskedSound ==
    ASSUME NEW e \in Executions, NEW given, NEW p, Sound(e, p, given), NEW r,
           r = [p EXCEPT !.cancellation_requested = TRUE]
    PROVE  r \in Record(e) /\ r.state = p.state /\ r.cron = p.cron /\ r.steps = p.steps /\ Sound(e, r, given)
<1>1. p \in Record(e)
  BY Zenon DEF Sound
<1>2. r \in Record(e) /\ r.state = p.state /\ r.cron = p.cron /\ r.steps = p.steps
  BY <1>1, Zenon DEF Record
<1> QED BY <1>2, Zenon DEF Sound, Quiet, QuietBut

(* What cancel writes ends a record, or leaves its steps alone. *)
LEMMA AskedCloses ==
    ASSUME NEW e \in Executions, NEW given, NEW p, Sound(e, p, given), NEW r, NEW s,
           r = [p EXCEPT !.cancellation_requested = TRUE],
           s = IF r.state \in {"Queued", "WaitingForApproval"} THEN cancel_execution(r) ELSE r
    PROVE  Closes(e, p, s, given)
<1>2. r \in Record(e) /\ r.state = p.state /\ r.cron = p.cron /\ r.steps = p.steps /\ Sound(e, r, given)
  BY AskedSound
<1>4. CASE r.state \in {"Queued", "WaitingForApproval"}
  <2>1. Closes(e, r, s, given)
    BY <1>2, <1>4, CancelCloses, Zenon
  <2> QED BY <1>2, <2>1, Zenon DEF Closes, Follows, Quiet, QuietBut
<1>5. CASE r.state \notin {"Queued", "WaitingForApproval"}
  <2>1. s = r
    BY <1>5, Zenon
  <2> QED BY <1>2, <1>5, <2>1, Zenon DEF Closes, Follows, Quiet, QuietBut
<1> QED BY <1>4, <1>5, Zenon

(* A record in memory is sound. *)
LEMMA SoundRecord ==
    ASSUME IInv, NEW e \in Executions, executions[e] # Absent
    PROVE  Sound(e, executions[e], consents)
BY Zenon DEF IInv, Good, Kept

(* cancel. *)
LEMMA CancelStep ==
    ASSUME IInv, NEW e \in Executions, cancel(e)
    PROVE  IInv'
<1>1. /\ executions[e] # Absent /\ UNCHANGED <<running, task, late, dispatcher, clock, effects, consents>>
  BY Zenon DEF cancel
<1>2. PICK s : /\ executions' = [executions EXCEPT ![e] = s]
               /\ disk' = [disk EXCEPT ![e] = s] \/ disk' = disk
               /\ Closes(e, executions[e], s, consents)
  <2>1. PICK r : r = [executions[e] EXCEPT !.cancellation_requested = TRUE]
    BY Zenon
  <2>2. PICK s : s = IF r.state \in {"Queued", "WaitingForApproval"} THEN cancel_execution(r) ELSE r
    BY Zenon
  <2>3. Closes(e, executions[e], s, consents)
    BY <1>1, <2>1, <2>2, SoundRecord, AskedCloses, Zenon
  <2>4. executions' = [executions EXCEPT ![e] = s] /\ (disk' = [disk EXCEPT ![e] = s] \/ disk' = disk)
    BY <2>1, <2>2, Zenon DEF cancel
  <2> QED BY <2>3, <2>4, Zenon
<1>3. used' \in [cancels : Nat, failures : Nat, crashes : Nat]
  <2>1. used \in [cancels : Nat, failures : Nat, crashes : Nat]
    BY Zenon DEF IInv, Others
  <2>2. PICK u : u = [used EXCEPT !.cancels = @ + 1]
    BY Zenon
  <2>3. u \in [cancels : Nat, failures : Nat, crashes : Nat]
    BY <2>1, <2>2
  <2>4. used' = u \/ used' = [u EXCEPT !.failures = @ + 1]
    BY <2>1, <2>2, Zenon DEF cancel
  <2> QED BY <2>3, <2>4
<1>4. Others'
  BY <1>1, <1>3, Zenon DEF IInv, Others, PerExecution
<1>5. Follows(e, executions[e], s, consents')
  BY <1>1, <1>2, Zenon DEF Closes
<1> QED BY <1>1, <1>2, <1>4, <1>5, OtherUpdates, Zenon

(* The second half of cancel, which signals the running map. *)
LEMMA SignalStep ==
    ASSUME IInv, NEW e \in Executions, signal(e)
    PROVE  IInv'
<1>1. /\ Maps /\ Others /\ Good(e, executions[e], disk[e], running[e], task[e], effects[e], consents)
      /\ UNCHANGED <<executions, disk, task, late, dispatcher, clock, effects, consents>>
  BY Zenon DEF IInv, signal
<1>2. /\ running' \in [Executions -> {"none", "quiet", "cancel"}]
      /\ running'[e] = "none" => running[e] = "none"
      /\ \A f \in Executions : f # e => running'[f] = running[f]
  BY <1>1, Zenon DEF signal, Others
<1>3. Maps' /\ Others'
  BY <1>1, <1>2, Uses DEF signal, Maps, Others, PerExecution
<1>4. Good(e, executions'[e], disk'[e], running'[e], task'[e], effects'[e], consents')
  BY <1>1, <1>2, Zenon DEF Good
<1> QED BY <1>1, <1>2, <1>3, <1>4, Lifts, Zenon

(* An open approval is the only one. *)
LEMMA WaitingIs ==
    ASSUME IInv, NEW e \in Executions, executions[e].state = "WaitingForApproval"
    PROVE  /\ Sound(e, executions[e], consents) /\ executions[e] # Absent
           /\ Waiting(e) \in Numbers(e) /\ executions[e].steps[Waiting(e)] = "WaitingForApproval"
           /\ QuietBut(e, executions[e], Waiting(e)) /\ task[e].pc \notin LivePcs
<1>1. executions[e] # Absent /\ Sound(e, executions[e], consents)
  BY SoundRecord DEF Absent
<1>2. DOMAIN executions[e].steps = Numbers(e)
  BY <1>1, Zenon DEF Sound, Record
<1>3. PICK i \in Numbers(e) : executions[e].steps[i] = "WaitingForApproval" /\ QuietBut(e, executions[e], i)
  BY <1>1, Zenon DEF Sound
<1>4. \A j \in Numbers(e) : executions[e].steps[j] = "WaitingForApproval" => j = i
  BY <1>1, <1>3, Zenon DEF Sound, QuietBut
<1>5. \A j \in 1 .. i - 1 : executions[e].steps[j] # "WaitingForApproval"
  BY <1>3, <1>4, NumbersAre, Zenon
<1>6. /\ Waiting(e) \in Numbers(e) /\ executions[e].steps[Waiting(e)] = "WaitingForApproval"
  BY <1>2, <1>3, <1>5, Zenon DEF Waiting
<1>7. task[e].pc \notin LivePcs
  BY Zenon DEF IInv, Good, TaskOK
<1>8. Waiting(e) = i
  BY <1>4, <1>6, Zenon
<1> QED BY <1>1, <1>3, <1>7, <1>8, Zenon

(* resolve_approval queues the execution again, behind the step that was approved. *)
LEMMA ApproveFollows ==
    ASSUME NEW e \in Executions, NEW given, NEW p, Sound(e, p, given), NEW i \in Numbers(e),
           p.steps[i] = "WaitingForApproval", QuietBut(e, p, i), NEW s, NEW more,
           s = [SetStep(p, i, "Succeeded") EXCEPT !.state = "Queued"], more = given \cup {<<e, i>>}
    PROVE  Follows(e, p, s, more)
<1>1. p \in Record(e) /\ "Succeeded" \in StepStates /\ "Queued" \in States
  BY Zenon DEF Sound, StepStates, States
<1>2. PICK u : u = SetStep(p, i, "Succeeded")
  BY Zenon
<1>3. u \in Record(e) /\ u.cron = p.cron /\ u.steps = [p.steps EXCEPT ![i] = "Succeeded"]
  BY <1>1, <1>2, SetIs
<1>4. s \in Record(e) /\ s.state = "Queued" /\ s.cron = u.cron /\ s.steps = u.steps
  BY <1>1, <1>2, <1>3, Zenon DEF Record
<1>5. p.steps \in [Numbers(e) -> StepStates]
  BY <1>1, Zenon DEF Record
<1>6. s.steps[i] = "Succeeded" /\ \A j \in Numbers(e) : j # i => s.steps[j] = p.steps[j]
  BY <1>3, <1>4, <1>5, Zenon
<1>7. Quiet(e, s)
  BY <1>6, Zenon DEF QuietBut, Quiet
<1>8. \A j \in Numbers(e) : s.steps[j] = "Pending" =>
          \A k \in 1 .. j - 1 : IsApproval(e, k) =>
              s.steps[k] \in {"Pending", "Running", "WaitingForApproval"} \/ <<e, k>> \in more
  BY <1>6, NumbersAre, Zenon DEF Sound
<1>9. Sound(e, s, more)
  BY <1>4, <1>6, <1>7, <1>8, Zenon DEF Sound
<1> QED BY <1>3, <1>4, <1>6, <1>9, Zenon DEF Follows

(* resolve_approval. *)
LEMMA ResolveStep ==
    ASSUME IInv, NEW e \in Executions, NEW approve \in BOOLEAN, resolve_approval(e, approve)
    PROVE  IInv'
<1>1. PICK i : i = Waiting(e)
  BY Zenon
<1>2. /\ Sound(e, executions[e], consents) /\ executions[e] # Absent
      /\ i \in Numbers(e) /\ executions[e].steps[i] = "WaitingForApproval"
      /\ QuietBut(e, executions[e], i) /\ task[e].pc \notin LivePcs
  BY <1>1, WaitingIs, Zenon DEF resolve_approval
<1>3. UNCHANGED <<running, task, late, dispatcher, signalling, clock, effects>>
  BY Zenon DEF resolve_approval
<1>4. ASSUME NEW r, Write(e, r) \/ WriteFails(e, r), consents \subseteq consents',
             Follows(e, executions[e], r, consents')
      PROVE  IInv'
  <2>1. /\ executions' = [executions EXCEPT ![e] = r] /\ (NoTrouble \/ Failure)
        /\ disk' = [disk EXCEPT ![e] = r] \/ disk' = disk
    BY <1>4, Zenon DEF Write, WriteFails
  <2>2. Others'
    BY <1>3, <2>1, Uses, Zenon DEF IInv, Others, PerExecution
  <2> QED BY <1>2, <1>3, <1>4, <2>1, <2>2, OtherUpdates, Zenon
<1>5. CASE approve
  <2>1. PICK r : r = [SetStep(executions[e], i, "Succeeded") EXCEPT !.state = "Queued"]
    BY Zenon
  <2>2. (Write(e, r) \/ WriteFails(e, r)) /\ consents' = consents \cup {<<e, i>>}
    BY <1>1, <1>5, <2>1, Zenon DEF resolve_approval
  <2>3. Follows(e, executions[e], r, consents')
    BY <1>2, <2>1, <2>2, ApproveFollows, Zenon
  <2> QED BY <1>4, <2>2, <2>3, Zenon
<1>6. CASE ~approve
  <2>1. PICK r : r = Rejected(executions[e], i)
    BY Zenon
  <2>2. (Write(e, r) \/ WriteFails(e, r)) /\ consents' = consents
    BY <1>1, <1>6, <2>1, Zenon DEF resolve_approval
  <2>3. Follows(e, executions[e], r, consents')
    BY <1>2, <2>1, <2>2, RejectFollows, Zenon DEF Rejected
  <2> QED BY <1>4, <2>2, <2>3, Zenon
<1> QED BY <1>5, <1>6, Zenon

-----------------------------------------------------------------------------
(* The task of an execution.                                               *)

(* What is known while the task of e is at pc. *)
LEMMA AtWork ==
    ASSUME IInv, NEW e \in Executions, task[e].pc # "none"
    PROVE  /\ executions[e] # Absent /\ Sound(e, executions[e], consents)
           /\ executions[e] \in Record(e) /\ running[e] # "none"
           /\ Kept(e, executions[e], disk[e], effects[e], consents)
           /\ TaskOK(e, executions[e], disk[e], task[e], effects[e], consents)
           /\ task[e] \in [pc : Pcs, step : Nat]
<1>1. Good(e, executions[e], disk[e], running[e], task[e], effects[e], consents)
  BY Zenon DEF IInv
<1>2. task[e] \in [pc : Pcs, step : Nat]
  BY Zenon DEF IInv, Others
<1>3. executions[e] # Absent /\ running[e] # "none"
  BY <1>1 DEF Good, NoTask
<1>4. Sound(e, executions[e], consents)
  BY <1>3, SoundRecord, Zenon
<1> QED BY <1>1, <1>2, <1>3, <1>4, Zenon DEF Good, Sound

(* A task that has come to its end is in nobody's way. *)
LEMMA RestOK ==
    ASSUME NEW t, t.pc \in {"none", "leave", "error"}
    PROVE  \A e, p, q, eff, given : TaskOK(e, p, q, t, eff, given)
BY Zenon DEF TaskOK, LivePcs

(* An update after which the task only leaves. *)
LEMMA LastUpdate ==
    ASSUME IInv, NEW e \in Executions, task[e].pc # "none", NEW r,
           Follows(e, executions[e], r, consents), update_execution(e, r, "leave", "error"),
           UNCHANGED <<running, late, dispatcher, clock, effects, calls>>
    PROVE  IInv'
<1>1. /\ \A t : t.pc = "leave" /\ t.step = task[e].step => TaskOK(e, r, r, t, effects[e], consents)
      /\ \A t : t.pc = "error" /\ t.step = task[e].step => TaskOK(e, r, disk[e], t, effects[e], consents)
  BY RestOK
<1>2. "leave" \in Pcs /\ "error" \in Pcs
  BY Zenon DEF Pcs
<1> QED BY <1>1, <1>2, TaskUpdates, Zenon

(* The beginning of run_execution. *)
LEMMA RunExecutionStep ==
    ASSUME IInv, NEW e \in Executions, run_execution(e)
    PROVE  IInv'
<1>1. /\ task[e].pc = "start" /\ (NoTrouble \/ Failure)
      /\ UNCHANGED <<executions, disk, running, late, dispatcher, clock, effects, calls>>
  BY Zenon DEF run_execution
<1>2. PICK pc \in {"loop", "error"} : Goto(e, pc)
  BY Zenon DEF run_execution
<1>3. PICK t : t = [task[e] EXCEPT !.pc = pc]
  BY Zenon
<1>4. task[e] \in [pc : Pcs, step : Nat] /\ TaskOK(e, executions[e], disk[e], task[e], effects[e], consents)
  BY <1>1, AtWork, Zenon
<1>5. t \in [pc : Pcs, step : Nat] /\ t.pc = pc /\ task' = [task EXCEPT ![e] = t]
  BY <1>2, <1>3, <1>4, Zenon DEF Pcs, Goto
<1>6. TaskOK(e, executions[e], disk[e], t, effects[e], consents)
  BY <1>1, <1>4, <1>5, Zenon DEF TaskOK, LivePcs
<1> QED BY <1>1, <1>5, <1>6, TaskGoes, Zenon

(* The next step is begun in the record. *)
LEMMA BeginStep ==
    ASSUME IInv, NEW e \in Executions, Begin(e)
    PROVE  IInv'
<1>1. task[e].pc = "begin" /\ UNCHANGED <<running, late, dispatcher, clock, effects, calls>>
  BY Zenon DEF Begin
<1>2. /\ executions[e] # Absent /\ Sound(e, executions[e], consents) /\ executions[e] \in Record(e)
      /\ TaskOK(e, executions[e], disk[e], task[e], effects[e], consents)
  BY <1>1, AtWork, Zenon
<1>3. CASE task[e].step = 0
  <2>1. PICK r : r = [executions[e] EXCEPT !.state = "Succeeded"]
    BY Zenon
  <2>2. r \in Record(e) /\ r.state = "Succeeded" /\ r.cron = executions[e].cron /\ r.steps = executions[e].steps
    BY <1>2, <2>1, StateIs DEF States
  <2>3. Follows(e, executions[e], r, consents)
    BY <1>2, <2>2, Zenon DEF Follows, Sound
  <2>4. update_execution(e, r, "leave", "error")
    BY <1>3, <2>1, Zenon DEF Begin
  <2> QED BY <1>1, <2>3, <2>4, LastUpdate, Zenon
<1>4. CASE task[e].step # 0
  <2>1. PICK i : i = task[e].step
    BY Zenon
  <2>2. i \in Numbers(e) /\ Cleared(e, i, consents) /\ effects[e][i] = 0 /\ Quiet(e, executions[e])
    BY <1>1, <1>2, <1>4, <2>1, Zenon DEF TaskOK, LivePcs
  <2>3. PICK r : r = [SetStep(executions[e], i, "Running") EXCEPT !.state = "Running"]
    BY Zenon
  <2>5. Follows(e, executions[e], r, consents) /\ r.steps[i] = "Running" /\ QuietBut(e, r, i) /\ r.state = "Running"
    <3>1. Sound(e, executions[e], consents) /\ i \in Numbers(e) /\ Quiet(e, executions[e])
      BY <1>2, <2>2, Zenon
    <3>2. Follows(e, executions[e], r, consents) /\ r.state = "Running" /\ Starts(e, executions[e], r, i)
      BY <2>3, <3>1, BeginFollows, Zenon
    <3> QED BY <3>1, <3>2, Zenon DEF Starts
  <2>6. update_execution(e, r, "begun", "error")
    BY <1>4, <2>1, <2>3, Zenon DEF Begin
  <2>7. r # Absent
    BY <2>5, NotAbsent, Zenon DEF Follows, Sound
  <2>8. \A t : t.pc = "begun" /\ t.step = i => TaskOK(e, r, r, t, effects[e], consents)
    BY <2>2, <2>5, <2>7, Zenon DEF TaskOK, LivePcs, Begun
  <2>9. \A t : t.pc = "error" /\ t.step = i => TaskOK(e, r, disk[e], t, effects[e], consents)
    BY RestOK
  <2>10. "begun" \in Pcs /\ "error" \in Pcs /\ task[e].pc # "none"
    BY <1>1, Zenon DEF Pcs
  <2> QED BY <1>1, <2>1, <2>5, <2>6, <2>8, <2>9, <2>10, TaskUpdates, Zenon
<1> QED BY <1>3, <1>4, Zenon

(* The work of step i starts. *)
LEMMA WorkStarts ==
    ASSUME IInv, NEW e \in Executions, task[e].pc = "begun", NEW i, i = task[e].step, ~IsApproval(e, i),
           Goto(e, "work"), NoTrouble, effects' = [effects EXCEPT ![e][i] = @ + 1],
           UNCHANGED <<executions, disk, running, late, dispatcher, clock, calls>>
    PROVE  IInv'
<1>1. /\ executions[e] # Absent /\ running[e] # "none"
      /\ Kept(e, executions[e], disk[e], effects[e], consents)
      /\ TaskOK(e, executions[e], disk[e], task[e], effects[e], consents)
  BY AtWork, Zenon
<1>2. Others /\ Maps
  BY Zenon DEF IInv
<1>3. /\ i \in Numbers(e) /\ Cleared(e, i, consents) /\ effects[e][i] = 0
      /\ QuietBut(e, executions[e], i) /\ Begun(e, executions[e], disk[e], i)
      /\ executions[e].state \notin {"Queued", "WaitingForApproval"}
  BY <1>1, Zenon DEF TaskOK, LivePcs
<1>4. PICK eff : eff = [effects[e] EXCEPT ![i] = @ + 1]
  BY Zenon
<1>5. /\ PerExecution(effects) /\ effects' = [effects EXCEPT ![e] = eff]
  BY <1>2, <1>4, Zenon DEF Others
<1>6. /\ eff \in [Numbers(e) -> Nat] /\ eff[i] = 1
      /\ \A j \in Numbers(e) : j # i => eff[j] = effects[e][j]
  BY <1>2, <1>3, <1>4 DEF Others
<1>7. /\ PerExecution(effects') /\ effects'[e] = eff
      /\ \A f \in Executions : f # e => effects'[f] = effects[f]
  BY <1>5, Zenon DEF PerExecution
<1>8. /\ task' \in [Executions -> [pc : Pcs, step : Nat]]
      /\ task'[e].pc = "work" /\ task'[e].step = i
      /\ \A f \in Executions : f # e => task'[f] = task[f]
  BY <1>2 DEF Goto, Others, Pcs
<1>9. Others' /\ Maps'
  <2>1. \A f \in Executions : effects'[f] \in [Numbers(f) -> Nat]
    BY <1>2, <1>6, <1>7, Zenon DEF Others
  <2> QED BY <1>2, <1>7, <1>8, <2>1, Uses, Zenon DEF Others, Maps, PerExecution
<1>10. Kept(e, executions[e], disk[e], eff, consents)
  BY <1>1, <1>3, <1>6, Zenon DEF Kept
<1>11. Quiet(e, executions[e])
  BY <1>3, Zenon DEF Quiet, QuietBut
<1>12. TaskOK(e, executions[e], disk[e], task'[e], eff, consents)
  BY <1>3, <1>8, <1>11, Zenon DEF TaskOK, LivePcs
<1>13. Good(e, executions'[e], disk'[e], running'[e], task'[e], effects'[e], consents')
  BY <1>1, <1>7, <1>10, <1>12, Zenon DEF Good, calls
<1> QED BY <1>7, <1>8, <1>9, <1>13, Lifts, Zenon DEF calls

(* execute_step, up to the start of the work or the request for an approval. *)
LEMMA ExecuteStep ==
    ASSUME IInv, NEW e \in Executions, execute_step(e)
    PROVE  IInv'
<1>1. task[e].pc = "begun" /\ UNCHANGED <<running, late, dispatcher, clock, calls>>
  BY Zenon DEF execute_step
<1>2. PICK i : i = task[e].step
  BY Zenon
<1>3. /\ Sound(e, executions[e], consents) /\ task[e] \in [pc : Pcs, step : Nat]
      /\ TaskOK(e, executions[e], disk[e], task[e], effects[e], consents)
  BY <1>1, AtWork, Zenon
<1>4. ASSUME NEW r, IsApproval(e, i), update_execution(e, r, "leave", "error"), UNCHANGED effects,
             r = [SetStep(executions[e], i, "WaitingForApproval") EXCEPT !.state = "WaitingForApproval"]
      PROVE  IInv'
  <2>1. /\ i \in Numbers(e) /\ QuietBut(e, executions[e], i) /\ executions[e].steps[i] # "Pending"
    BY <1>1, <1>2, <1>3, Zenon DEF TaskOK, Begun
  <2>2. Follows(e, executions[e], r, consents)
    BY <1>3, <1>4, <2>1, AskFollows, Zenon
  <2> QED BY <1>1, <1>4, <2>2, LastUpdate, Zenon
<1>5. ASSUME ~IsApproval(e, i), Goto(e, "work"), NoTrouble, UNCHANGED <<executions, disk>>,
             effects' = [effects EXCEPT ![e][i] = @ + 1]
      PROVE  IInv'
  BY <1>1, <1>2, <1>5, WorkStarts, Zenon
<1>6. ASSUME Goto(e, "error"), Failure, UNCHANGED <<executions, disk, effects>>
      PROVE  IInv'
  <2>1. PICK t : t = [task[e] EXCEPT !.pc = "error"]
    BY Zenon
  <2>2. t \in [pc : Pcs, step : Nat] /\ t.pc = "error" /\ task' = [task EXCEPT ![e] = t]
    BY <1>3, <1>6, <2>1, Zenon DEF Pcs, Goto
  <2>3. TaskOK(e, executions[e], disk[e], t, effects[e], consents)
    BY <2>2, RestOK
  <2> QED BY <1>1, <1>6, <2>2, <2>3, TaskGoes, Zenon
<1>7. \/ /\ IsApproval(e, i) /\ UNCHANGED effects
         /\ update_execution(e, [SetStep(executions[e], i, "WaitingForApproval")
                                    EXCEPT !.state = "WaitingForApproval"], "leave", "error")
      \/ /\ ~IsApproval(e, i) /\ Goto(e, "work") /\ NoTrouble /\ UNCHANGED <<executions, disk>>
         /\ effects' = [effects EXCEPT ![e][i] = @ + 1]
      \/ Goto(e, "error") /\ Failure /\ UNCHANGED <<executions, disk, effects>>
  BY <1>2, Zenon DEF execute_step, IsApproval
<1> QED BY <1>4, <1>5, <1>6, <1>7, Zenon

(* An agent step waits for its turn. *)
LEMMA WaitForTurnStep ==
    ASSUME IInv, NEW e \in Executions, wait_for_turn(e)
    PROVE  IInv'
<1>1. task[e].pc = "work" /\ UNCHANGED <<running, late, dispatcher, clock, effects, calls>>
  BY Zenon DEF wait_for_turn
<1>2. PICK i : i = task[e].step
  BY Zenon
<1>3. /\ Sound(e, executions[e], consents) /\ executions[e] \in Record(e)
      /\ TaskOK(e, executions[e], disk[e], task[e], effects[e], consents)
  BY <1>1, AtWork, Zenon
<1>4. i \in Numbers(e) /\ Cleared(e, i, consents) /\ ~IsApproval(e, i) /\ Quiet(e, executions[e])
  BY <1>1, <1>2, <1>3, Zenon DEF TaskOK, LivePcs
<1>5. PICK state \in {"WaitingForInput", "Running"} :
         update_execution(e, [SetStep(executions[e], i, state) EXCEPT !.state = state], "work", "broken")
  BY <1>2, Zenon DEF wait_for_turn
<1>6. PICK r : r = [SetStep(executions[e], i, state) EXCEPT !.state = state]
  BY Zenon
<1>7. /\ state \in States /\ state \in StepStates
      /\ state \in StepStates \ {"Pending", "WaitingForApproval"}
      /\ state \notin {"Queued", "WaitingForApproval"}
  BY <1>5, Zenon DEF States, StepStates
<1>8. /\ r \in Record(e) /\ r.state = state /\ r.cron = executions[e].cron
      /\ r.steps = [executions[e].steps EXCEPT ![i] = state]
  <2>1. PICK u : u = SetStep(executions[e], i, state)
    BY Zenon
  <2>2. /\ u \in Record(e) /\ u.cron = executions[e].cron
        /\ u.steps = [executions[e].steps EXCEPT ![i] = state]
    BY <1>3, <1>4, <1>7, <2>1, SetIs
  <2> QED BY <1>6, <1>7, <2>1, <2>2, Zenon DEF Record
<1>9. Follows(e, executions[e], r, consents) /\ Quiet(e, r)
  <2>1. r.state \notin {"Queued", "WaitingForApproval"}
    BY <1>7, <1>8, Zenon
  <2> QED BY <1>3, <1>4, <1>7, <1>8, <2>1, SetFollows
<1>10. \A t, q : t.pc \in {"work", "broken"} /\ t.step = i => TaskOK(e, r, q, t, effects[e], consents)
  BY <1>4, <1>7, <1>8, <1>9, Zenon DEF TaskOK, LivePcs
<1>11. "work" \in Pcs /\ "broken" \in Pcs /\ task[e].pc # "none"
  BY <1>1, Zenon DEF Pcs
<1>12. /\ \A t : t.pc = "work" /\ t.step = task[e].step => TaskOK(e, r, r, t, effects[e], consents)
       /\ \A t : t.pc = "broken" /\ t.step = task[e].step => TaskOK(e, r, disk[e], t, effects[e], consents)
  BY <1>2, <1>10, Zenon
<1>13. update_execution(e, r, "work", "broken")
  BY <1>5, <1>6, Zenon
<1> QED BY <1>1, <1>9, <1>11, <1>12, <1>13, TaskUpdates, Zenon

(* The work of a step ends. *)
LEMMA FinishStep ==
    ASSUME IInv, NEW e \in Executions, finish_step(e)
    PROVE  IInv'
<1>1. task[e].pc \in {"work", "broken"} /\ UNCHANGED <<running, late, dispatcher, clock, effects, calls>>
  BY Zenon DEF finish_step
<1>2. PICK i : i = task[e].step
  BY Zenon
<1>3. /\ Sound(e, executions[e], consents) /\ executions[e] \in Record(e) /\ task[e].pc # "none"
      /\ TaskOK(e, executions[e], disk[e], task[e], effects[e], consents)
  BY <1>1, AtWork, Zenon
<1>4. /\ i \in Numbers(e) /\ ~IsApproval(e, i) /\ Quiet(e, executions[e])
      /\ executions[e].state \notin {"Queued", "WaitingForApproval"}
  BY <1>1, <1>2, <1>3, Zenon DEF TaskOK, LivePcs
<1>5. /\ "Succeeded" \in StepStates /\ "Failed" \in StepStates /\ "Running" \in States
      /\ {"Succeeded", "Failed"} \subseteq StepStates \ {"Pending", "WaitingForApproval"}
      /\ "loop" \in Pcs /\ "error" \in Pcs
  BY Zenon DEF States, StepStates, Pcs
(* The loop goes on after the step. *)
<1>6. ASSUME NEW r, Follows(e, executions[e], r, consents), Quiet(e, r),
             r.state \notin {"Queued", "WaitingForApproval"}, update_execution(e, r, "loop", "error")
      PROVE  IInv'
  <2>1. \A t : t.pc = "loop" /\ t.step = task[e].step => TaskOK(e, r, r, t, effects[e], consents)
    BY <1>6, Zenon DEF TaskOK, LivePcs
  <2>2. \A t : t.pc = "error" /\ t.step = task[e].step => TaskOK(e, r, disk[e], t, effects[e], consents)
    BY RestOK
  <2> QED BY <1>1, <1>3, <1>5, <1>6, <2>1, <2>2, TaskUpdates, Zenon
<1>7. ASSUME NEW r, r = SetStep(executions[e], i, "Succeeded"), update_execution(e, r, "loop", "error")
      PROVE  IInv'
  <2>1. /\ r \in Record(e) /\ r.state = executions[e].state /\ r.cron = executions[e].cron
        /\ r.steps = [executions[e].steps EXCEPT ![i] = "Succeeded"]
    BY <1>3, <1>4, <1>5, <1>7, SetIs
  <2>2. Follows(e, executions[e], r, consents) /\ Quiet(e, r) /\ r.state \notin {"Queued", "WaitingForApproval"}
    BY <1>3, <1>4, <1>5, <2>1, SetFollows
  <2> QED BY <1>6, <1>7, <2>2, Zenon
<1>8. ASSUME NEW r, r = [SetStep(executions[e], i, "Failed") EXCEPT !.state = "Running"],
             update_execution(e, r, "loop", "error")
      PROVE  IInv'
  <2>1. PICK u : u = SetStep(executions[e], i, "Failed")
    BY Zenon
  <2>2. /\ u \in Record(e) /\ u.cron = executions[e].cron
        /\ u.steps = [executions[e].steps EXCEPT ![i] = "Failed"]
    BY <1>3, <1>4, <1>5, <2>1, SetIs
  <2>3. r \in Record(e) /\ r.state = "Running" /\ r.cron = u.cron /\ r.steps = u.steps
    BY <1>5, <1>8, <2>1, <2>2, Zenon DEF Record
  <2>4. r.state \notin {"Queued", "WaitingForApproval"} /\ r.cron = executions[e].cron
    BY <2>2, <2>3, Zenon
  <2>5. Follows(e, executions[e], r, consents) /\ Quiet(e, r)
    BY <1>3, <1>4, <1>5, <2>2, <2>3, <2>4, SetFollows
  <2> QED BY <1>6, <1>8, <2>4, <2>5, Zenon
<1>9. ASSUME NEW r, update_execution(e, r, "leave", "error"),
             \/ r = cancel_execution(executions[e])
             \/ r = [skip_pending_steps(SetStep(executions[e], i, "Failed")) EXCEPT !.state = "Failed"]
      PROVE  IInv'
  <2>1. Follows(e, executions[e], r, consents)
    <3>1. CASE r = cancel_execution(executions[e])
      BY <1>3, <3>1, CancelCloses, Zenon DEF Closes
    <3>2. CASE r = [skip_pending_steps(SetStep(executions[e], i, "Failed")) EXCEPT !.state = "Failed"]
      BY <1>3, <1>4, <3>2, RejectFollows, Zenon
    <3> QED BY <1>9, <3>1, <3>2, Zenon
  <2> QED BY <1>1, <1>3, <1>9, <2>1, LastUpdate, Zenon
<1>10. \/ update_execution(e, SetStep(executions[e], i, "Succeeded"), "loop", "error")
       \/ update_execution(e, cancel_execution(executions[e]), "leave", "error")
       \/ update_execution(e, [SetStep(executions[e], i, "Failed") EXCEPT !.state = "Running"], "loop", "error")
       \/ update_execution(e, [skip_pending_steps(SetStep(executions[e], i, "Failed"))
                                 EXCEPT !.state = "Failed"], "leave", "error")
  BY <1>2, Zenon DEF finish_step, fail_step
<1> QED BY <1>7, <1>8, <1>9, <1>10, Zenon

(* The task leaves the running map. *)
LEMMA LeaveStep ==
    ASSUME IInv, NEW e \in Executions, Leave(e)
    PROVE  IInv'
<1>1. /\ task[e].pc # "none" /\ task' = [task EXCEPT ![e] = NoTask]
      /\ running' = [running EXCEPT ![e] = "none"]
      /\ late' = late \/ late' = [late EXCEPT ![e] = @ + 1]
      /\ NoTrouble \/ Failure
      /\ UNCHANGED <<executions, disk, dispatcher, clock, effects, signalling, consents>>
  BY Zenon DEF Leave, calls
<1>2. Others /\ Maps /\ executions[e] # Absent /\ Kept(e, executions[e], disk[e], effects[e], consents)
  BY <1>1, AtWork, Zenon DEF IInv
<1>3. /\ running' \in [Executions -> {"none", "quiet", "cancel"}]
      /\ \A f \in Executions : f # e => running'[f] = running[f]
  BY <1>1, <1>2, Zenon DEF Others
<1>4. /\ task' \in [Executions -> [pc : Pcs, step : Nat]] /\ task'[e] = NoTask
      /\ \A f \in Executions : f # e => task'[f] = task[f]
  BY <1>1, <1>2, Zenon DEF Others, NoTask, Pcs
<1>5. /\ late' \in [Executions -> Nat]
      /\ \A f \in Executions : f # e => late'[f] = late[f]
  BY <1>1, <1>2 DEF Others
<1>6. Others' /\ Maps'
  BY <1>1, <1>2, <1>3, <1>4, <1>5, Uses DEF Others, Maps, PerExecution
<1>7. TaskOK(e, executions[e], disk[e], NoTask, effects[e], consents)
  BY RestOK DEF NoTask
<1>8. Good(e, executions'[e], disk'[e], running'[e], task'[e], effects'[e], consents')
  BY <1>1, <1>2, <1>4, <1>7, Zenon DEF Good
<1>9. \A f \in Executions : late'[f] > 0 \/ f \in dispatcher'.ids =>
               late[f] > 0 \/ f \in dispatcher.ids \/ executions[f] # Absent
  BY <1>1, <1>2, <1>5, Zenon
<1> QED BY <1>1, <1>3, <1>4, <1>6, <1>8, <1>9, Lifts, Zenon

(* Failing an execution, by whomever. *)
LEMMA Fails ==
    ASSUME IInv, NEW e \in Executions, executions[e] # Absent,
           Write(e, fail_execution(executions[e])) \/ WriteFails(e, fail_execution(executions[e])),
           late' \in [Executions -> Nat],
           dispatcher' \in [pc : {"select", "expire", "expiring", "claim"}, ids : SUBSET Executions],
           \A f \in Executions : late'[f] > 0 \/ f \in dispatcher'.ids => late[f] > 0 \/ f \in dispatcher.ids,
           UNCHANGED <<running, task, clock, effects, calls>>
    PROVE  IInv'
<1>1. PICK r : r = fail_execution(executions[e])
  BY Zenon
<1>2. /\ executions' = [executions EXCEPT ![e] = r] /\ (NoTrouble \/ Failure)
      /\ disk' = [disk EXCEPT ![e] = r] \/ disk' = disk
  BY <1>1, Zenon DEF Write, WriteFails
<1>3. Closes(e, executions[e], r, consents)
  BY <1>1, SoundRecord, FailCloses, Zenon
<1>4. Others'
  BY <1>2, Uses, Zenon DEF IInv, Others, PerExecution
<1>5. Follows(e, executions[e], r, consents') /\ consents' = consents
  BY <1>3, Zenon DEF Closes, calls
<1> QED BY <1>2, <1>3, <1>4, <1>5, OtherUpdates, Zenon

(* The task fails its execution after it left. *)
LEMMA FailLateStep ==
    ASSUME IInv, NEW e \in Executions, FailLate(e)
    PROVE  IInv'
<1>1. late \in [Executions -> Nat] /\ late[e] > 0 /\ late' = [late EXCEPT ![e] = @ - 1]
  BY Zenon DEF IInv, Others, FailLate
<1>2. late' \in [Executions -> Nat] /\ \A f \in Executions : late'[f] > 0 => late[f] > 0
  BY <1>1
<1>3. executions[e] # Absent /\ dispatcher' = dispatcher
  BY <1>1, Zenon DEF IInv, FailLate
<1>4. dispatcher' \in [pc : {"select", "expire", "expiring", "claim"}, ids : SUBSET Executions]
  BY <1>3, Zenon DEF IInv, Others
<1> QED BY <1>2, <1>3, <1>4, Fails, Zenon DEF FailLate

-----------------------------------------------------------------------------
(* The dispatcher, time and a new start.                                   *)

(* expire_waiting_executions. *)
LEMMA ExpireStep ==
    ASSUME IInv, expire_waiting_executions
    PROVE  IInv'
<1>1. /\ UNCHANGED <<running, task, late, clock, effects, calls>> /\ Others
      /\ late' \in [Executions -> Nat]
      /\ dispatcher \in [pc : {"select", "expire", "expiring", "claim"}, ids : SUBSET Executions]
  BY Zenon DEF expire_waiting_executions, IInv, Others
<1>2. CASE dispatcher.pc = "expire"
  <2>1. UNCHANGED <<executions, disk, used>>
    BY <1>2, Zenon DEF expire_waiting_executions
  <2>2. /\ dispatcher' \in [pc : {"select", "expire", "expiring", "claim"}, ids : SUBSET Executions]
        /\ dispatcher'.ids = {} \/ dispatcher'.ids = Expired
    BY <1>2 DEF expire_waiting_executions, Expired
  <2>3. \A f \in Expired : executions[f] # Absent
    BY DEF Expired, Absent
  <2>4. Others'
    BY <1>1, <2>1, <2>2, Zenon DEF Others, PerExecution
  <2> QED BY <1>1, <2>1, <2>2, <2>3, <2>4, Idles, Zenon DEF calls
<1>3. CASE dispatcher.pc # "expire"
  <2>1. PICK e \in dispatcher.ids :
           \/ /\ Write(e, fail_execution(executions[e]))
              /\ dispatcher' = IF dispatcher.ids = {e} THEN [pc |-> "claim", ids |-> {}]
                               ELSE [dispatcher EXCEPT !.ids = @ \ {e}]
           \/ /\ WriteFails(e, fail_execution(executions[e]))
              /\ dispatcher' = [pc |-> "claim", ids |-> {}]
    BY <1>3, Zenon DEF expire_waiting_executions
  <2>2. /\ dispatcher' \in [pc : {"select", "expire", "expiring", "claim"}, ids : SUBSET Executions]
        /\ dispatcher'.ids \subseteq dispatcher.ids
    BY <1>1, <2>1
  <2>3. e \in Executions /\ executions[e] # Absent
    BY <1>1, <2>1, Zenon DEF IInv
  <2>4. \A f \in Executions : late'[f] > 0 \/ f \in dispatcher'.ids => late[f] > 0 \/ f \in dispatcher.ids
    BY <1>1, <2>2, Zenon
  <2> QED BY <1>1, <2>1, <2>2, <2>3, <2>4, Fails, Zenon
<1> QED BY <1>2, <1>3, Zenon

(* What claim_queued makes of e: nothing, or a claimed execution. *)
Claimed(e) ==
    /\ e \in Claimable /\ executions'[e] = ClaimedRecord(e)
    /\ disk'[e] \in {disk[e], ClaimedRecord(e)}
    /\ task'[e].pc \in {"none", "start"} /\ (running'[e] = "none" => task'[e] = NoTask)

Unclaimed(e) ==
    executions'[e] = executions[e] /\ disk'[e] = disk[e] /\ running'[e] = running[e] /\ task'[e] = task[e]

Entries == [Executions -> {"none", "quiet", "cancel"}]
Tasks == [Executions -> [pc : Pcs, step : Nat]]

(* The claimed execution is as it should be. *)
LEMMA ClaimGood ==
    ASSUME IInv, NEW e \in Executions, Claimed(e)
    PROVE  /\ Good(e, executions'[e], disk'[e], running'[e], task'[e], effects[e], consents)
           /\ executions'[e] # Absent /\ executions'[e].cron = executions[e].cron
<1>c. PICK c : c = ClaimedRecord(e)
  BY Zenon
<1>q. /\ e \in Claimable /\ executions'[e] = c /\ disk'[e] \in {disk[e], c}
      /\ task'[e].pc \in {"none", "start"} /\ (running'[e] = "none" => task'[e] = NoTask)
  BY <1>c, Zenon DEF Claimed
<1>1. /\ e \in Executions /\ executions[e].state = "Queued" /\ running[e] = "none"
      /\ Good(e, executions[e], disk[e], running[e], task[e], effects[e], consents)
  BY <1>q, Zenon DEF Claimable, IInv
<1>2. executions[e] # Absent /\ Sound(e, executions[e], consents)
  BY <1>1, SoundRecord DEF Absent
<1>3. executions[e] \in Record(e)
  BY <1>2, Zenon DEF Sound
<1>4. /\ c \in Record(e) /\ c.state = "Running" /\ c.steps = executions[e].steps /\ c.cron = executions[e].cron
  BY <1>3, <1>c, Zenon DEF ClaimedRecord, Record, States
<1>5. Quiet(e, executions[e])
  BY <1>1, <1>2, Zenon DEF Sound
<1>6. Quiet(e, c)
  BY <1>4, <1>5, Zenon DEF Quiet
<1>7. Follows(e, executions[e], c, consents)
  BY <1>2, <1>4, Zenon DEF Follows, Sound
<1>8. Kept(e, c, disk'[e], effects[e], consents) /\ c # Absent
  <2>1. Kept(e, executions[e], disk[e], effects[e], consents)
    BY <1>1, Zenon DEF Good
  <2>2. Kept(e, c, c, effects[e], consents) /\ Kept(e, c, disk[e], effects[e], consents) /\ c # Absent
    BY <1>1, <1>2, <1>7, <2>1, KeptWrite
  <2> QED BY <1>q, <2>2, Zenon
<1>9. TaskOK(e, c, disk'[e], task'[e], effects[e], consents)
  BY <1>4, <1>6, <1>q, Zenon DEF TaskOK, LivePcs
<1> QED BY <1>4, <1>8, <1>9, <1>q, Zenon DEF Good

(* claim_queued, for one execution at a time. *)
LEMMA ClaimIs ==
    ASSUME IInv, claim_queued
    PROVE  /\ PerExecution(executions') /\ PerExecution(disk') /\ running' \in Entries /\ task' \in Tasks
           /\ \A e \in Executions : Unclaimed(e) \/ Claimed(e)
<1>1. /\ \A e \in Claimable : task[e] = NoTask
      /\ PerExecution(executions) /\ PerExecution(disk) /\ running \in Entries /\ task \in Tasks
  BY Zenon DEF Claimable, IInv, Good, Maps, Others, PerExecution, Entries, Tasks
<1>2. Claims \subseteq Claimable /\ Claimable \subseteq Executions
  BY Zenon DEF Claims, Claimable
<1>3. [NoTask EXCEPT !.pc = "start"].pc = "start" /\ NoTask.pc = "none"
  BY Zenon DEF NoTask
<1>4. PICK t : t = [NoTask EXCEPT !.pc = "start"]
  BY Zenon
<1>5. ASSUME executions' = [e \in Executions |-> IF e \in Claims THEN ClaimedRecord(e) ELSE executions[e]],
             disk' = [e \in Executions |-> IF e \in Claims THEN ClaimedRecord(e) ELSE disk[e]],
             running' = [e \in Executions |-> IF e \in Claims THEN "quiet" ELSE running[e]],
             task' = [e \in Executions |-> IF e \in Claims THEN t ELSE task[e]]
      PROVE  /\ PerExecution(executions') /\ PerExecution(disk') /\ running' \in Entries /\ task' \in Tasks
             /\ \A e \in Executions : Unclaimed(e) \/ Claimed(e)
  <2>1. PerExecution(executions') /\ PerExecution(disk') /\ running' \in Entries /\ task' \in Tasks
    <3>1. t \in [pc : Pcs, step : Nat]
      BY <1>4, Zenon DEF NoTask, Pcs
    <3> QED BY <1>1, <1>5, <3>1, Zenon DEF PerExecution, Entries, Tasks
  <2>2. ASSUME NEW e \in Executions PROVE Unclaimed(e) \/ Claimed(e)
    <3>1. CASE e \in Claims
      BY <1>2, <1>3, <1>4, <1>5, <3>1, Zenon DEF Claimed
    <3>2. CASE e \notin Claims
      BY <1>5, <3>2, Zenon DEF Unclaimed
    <3> QED BY <3>1, <3>2, Zenon
  <2> QED BY <2>1, <2>2, Zenon
<1>6. ASSUME NEW bad \in Claims, NEW before, before = {e \in Claims : e < bad},
             executions' = [e \in Executions |-> IF e \in before \cup {bad} THEN ClaimedRecord(e)
                                                  ELSE executions[e]],
             disk' = [e \in Executions |-> IF e \in before THEN ClaimedRecord(e) ELSE disk[e]],
             running' = [e \in Executions |-> IF e \in before THEN "quiet" ELSE running[e]],
             UNCHANGED task
      PROVE  /\ PerExecution(executions') /\ PerExecution(disk') /\ running' \in Entries /\ task' \in Tasks
             /\ \A e \in Executions : Unclaimed(e) \/ Claimed(e)
  <2>1. PerExecution(executions') /\ PerExecution(disk') /\ running' \in Entries
    BY <1>1, <1>6, Zenon DEF PerExecution, Entries
  <2>2. ASSUME NEW e \in Executions PROVE Unclaimed(e) \/ Claimed(e)
    <3>1. before \subseteq Claims /\ task'[e] = task[e]
      BY <1>6, Zenon
    <3>2. CASE e \in before
      BY <1>1, <1>2, <1>3, <1>6, <3>1, <3>2, Zenon DEF Claimed
    <3>3. CASE e = bad /\ e \notin before
      BY <1>1, <1>2, <1>3, <1>6, <3>1, <3>3, Zenon DEF Claimed
    <3>4. CASE e # bad /\ e \notin before
      BY <1>6, <3>1, <3>4, Zenon DEF Unclaimed
    <3> QED BY <3>2, <3>3, <3>4, Zenon
  <2>3. task' \in Tasks
    BY <1>1, <1>6, Zenon
  <2> QED BY <2>1, <2>2, <2>3, Zenon
<1> QED BY <1>4, <1>5, <1>6, Zenon DEF claim_queued

(* claim_queued. *)
LEMMA ClaimStep ==
    ASSUME IInv, claim_queued
    PROVE  IInv'
<1>1. /\ dispatcher' = Idle /\ UNCHANGED <<late, clock, effects, signalling, consents>>
      /\ NoTrouble \/ Failure
  BY Zenon DEF claim_queued, calls
<1>2. /\ PerExecution(executions') /\ PerExecution(disk') /\ running' \in Entries /\ task' \in Tasks
      /\ \A e \in Executions : Unclaimed(e) \/ Claimed(e)
  BY ClaimIs, Zenon
<1>3. Others
  BY Zenon DEF IInv
<1>4. ASSUME NEW e \in Executions
      PROVE  /\ Good(e, executions'[e], disk'[e], running'[e], task'[e], effects'[e], consents')
             /\ executions'[e].cron = executions[e].cron
             /\ (executions[e] # Absent => executions'[e] # Absent)
  <2>1. CASE Unclaimed(e)
    BY <1>1, <2>1, Zenon DEF Unclaimed, IInv
  <2>2. CASE Claimed(e)
    BY <1>1, <2>2, ClaimGood, Zenon
  <2> QED BY <1>2, <2>1, <2>2, Zenon
<1>6. Others'
  <2>1. used' \in [cancels : Nat, failures : Nat, crashes : Nat]
    BY <1>1, <1>3, Uses, Zenon
  <2>2. dispatcher' \in [pc : {"select", "expire", "expiring", "claim"}, ids : SUBSET Executions]
    BY <1>1, Zenon DEF Idle
  <2> QED BY <1>1, <1>2, <1>3, <2>1, <2>2, Zenon DEF Others, PerExecution, Entries, Tasks
<1>7. \A e \in Executions : ~(late'[e] > 0 \/ e \in dispatcher'.ids) \/ executions'[e] # Absent
  BY <1>1, <1>4, Zenon DEF IInv, Idle
<1>8. \A e, f \in Executions : executions'[e].cron /\ executions'[f].cron => e = f
  BY <1>4, Zenon DEF IInv
<1> QED BY <1>2, <1>4, <1>6, <1>7, <1>8, Zenon DEF IInv, Maps

(* Time passes. *)
LEMMA TickStep ==
    ASSUME IInv, NEW e \in Executions, Tick(e)
    PROVE  IInv'
<1>1. /\ clock' \in [Executions -> {"no", "soon", "over"}]
      /\ UNCHANGED <<executions, disk, running, task, late, dispatcher, effects, signalling, consents, used>>
  BY Zenon DEF Tick, IInv, Others, calls
<1>2. Others'
  BY <1>1, Zenon DEF IInv, Others, PerExecution
<1> QED BY <1>1, <1>2, Idles, Zenon

(* What a new start makes of a stored record. *)
LEMMA ReconcileIs ==
    ASSUME NEW e \in Executions, NEW p, NEW q, NEW eff, NEW given, Kept(e, p, q, eff, given),
           eff \in [Numbers(e) -> Nat], NEW s, s = reconcile_after_restart(q)
    PROVE  Good(e, s, s, "none", NoTask, eff, given) /\ s.cron = p.cron
<1>1. TaskOK(e, s, s, NoTask, eff, given)
  BY RestOK DEF NoTask
<1>2. CASE q = Absent
  <2>1. s = Absent
    BY <1>2, Zenon DEF reconcile_after_restart, Absent
  <2>2. Kept(e, s, s, eff, given) /\ s.cron = p.cron
    BY <1>2, <2>1, Zenon DEF Kept, Begun
  <2> QED BY <1>1, <2>2, Zenon DEF Good
<1>3. CASE q # Absent
  <2>1. Sound(e, q, given)
    BY <1>3, Zenon DEF Kept
  <2>2. Follows(e, q, s, given)
    <3>1. CASE q.state \in {"Running", "WaitingForInput"}
      <4>1. PICK from : from = {"Running", "WaitingForInput"}
        BY Zenon
      <4>2. s = [skip_pending_steps(Turn(q, from, "Failed")) EXCEPT !.state = "Interrupted"]
        BY <3>1, <4>1, Zenon DEF reconcile_after_restart
      <4> QED BY <2>1, <4>2, FailIs
    <3>2. CASE q.state \notin {"Running", "WaitingForInput"}
      <4>1. s = q
        BY <3>2, Zenon DEF reconcile_after_restart
      <4> QED BY <2>1, <4>1, Zenon DEF Follows
    <3> QED BY <3>1, <3>2, Zenon
  <2>3. s # Absent /\ s.cron = p.cron
    BY <2>2, NotAbsent, Zenon DEF Follows, Sound, Kept
  <2>4. Kept(e, s, s, eff, given)
    BY <2>2, <2>3, Zenon DEF Kept, Follows, Begun
  <2> QED BY <1>1, <2>3, <2>4, Zenon DEF Good
<1> QED BY <1>2, <1>3, Zenon

(* The daemon ends and is started again. *)
LEMMA RestartStep ==
    ASSUME IInv, Restart
    PROVE  IInv'
<1>1. /\ executions' = [e \in Executions |-> reconcile_after_restart(disk[e])] /\ disk' = executions'
      /\ running' = [e \in Executions |-> "none"] /\ task' = [e \in Executions |-> NoTask]
      /\ late' = [e \in Executions |-> 0] /\ dispatcher' = Idle
      /\ clock' = [e \in Executions |-> IF disk[e].started THEN clock[e] ELSE "no"]
      /\ UNCHANGED <<effects, consents>> /\ used' = [used EXCEPT !.crashes = @ + 1]
  BY Zenon DEF Restart
<1>2. PerExecution(executions') /\ PerExecution(disk')
  BY <1>1, Zenon DEF PerExecution
<1>3. Others'
  <2>1. Others
    BY Zenon DEF IInv
  <2>2. running' \in [Executions -> {"none", "quiet", "cancel"}] /\ late' \in [Executions -> Nat]
    BY <1>1, Zenon
  <2>3. task' \in [Executions -> [pc : Pcs, step : Nat]]
    BY <1>1, Zenon DEF NoTask, Pcs
  <2>4. dispatcher' \in [pc : {"select", "expire", "expiring", "claim"}, ids : SUBSET Executions]
    BY <1>1, Zenon DEF Idle
  <2>5. clock' \in [Executions -> {"no", "soon", "over"}]
    BY <1>1, <2>1, Zenon DEF Others
  <2>6. used' \in [cancels : Nat, failures : Nat, crashes : Nat]
    BY <1>1, <2>1 DEF Others
  <2> QED BY <1>1, <2>1, <2>2, <2>3, <2>4, <2>5, <2>6, Zenon DEF Others, PerExecution
<1>4. ASSUME NEW e \in Executions
      PROVE  /\ Good(e, executions'[e], disk'[e], running'[e], task'[e], effects'[e], consents')
             /\ executions'[e].cron = executions[e].cron
             /\ ~(late'[e] > 0 \/ e \in dispatcher'.ids)
  <2>1. Kept(e, executions[e], disk[e], effects[e], consents) /\ effects[e] \in [Numbers(e) -> Nat]
    BY Zenon DEF IInv, Good, Others
  <2>2. PICK s : s = reconcile_after_restart(disk[e])
    BY Zenon
  <2>3. /\ executions'[e] = s /\ disk'[e] = s /\ running'[e] = "none" /\ task'[e] = NoTask
        /\ late'[e] = 0 /\ dispatcher'.ids = {}
    BY <1>1, <2>2, Zenon DEF Idle
  <2>4. Good(e, s, s, "none", NoTask, effects[e], consents) /\ s.cron = executions[e].cron
    BY <2>1, <2>2, ReconcileIs
  <2> QED BY <1>1, <2>3, <2>4
<1>5. \A e, f \in Executions : executions'[e].cron /\ executions'[f].cron => e = f
  BY <1>4, Zenon DEF IInv
<1> QED BY <1>2, <1>3, <1>4, <1>5, Zenon DEF IInv, Maps

HasAgent(e) == \E i \in Numbers(e) : Steps[e][i].kind = "agent"

(* An agent step makes its execution wait for input, and a timeout may end it there. *)
TimedAgents == {e \in Timeouts : HasAgent(e)}

(* What the dispatcher may expire. *)
Clocks ==
    /\ dispatcher.pc # "expiring" => dispatcher.ids = {}
    /\ \A e \in Executions : /\ clock[e] # "no" => e \in Timeouts
                             /\ executions[e].state = "WaitingForInput" => HasAgent(e)

(* What the task of e and the dispatcher know of e while no write failed. *)
Tight(e) ==
    /\ late[e] = 0 /\ task[e].pc # "error"
    /\ task[e].pc \in LivePcs => e \in Active
    /\ e \in dispatcher.ids => task[e].pc \notin LivePcs

(* What the limit rests on, besides IInv. *)
Slots ==
    /\ Clocks
    /\ used.failures = 0 => disk = executions /\ \A e \in Executions : Tight(e)

(* A step that takes no slot. *)
TakesNone == Slots' /\ (used'.failures = 0 => used.failures = 0 /\ Active' \subseteq Active)

-----------------------------------------------------------------------------
(* The steps that take no slot.                                            *)

(* The steps that only concern one execution, and do not begin its task. *)
LEMMA SlotsOne ==
    ASSUME IInv, Slots, NEW e \in Executions, NEW r, executions' = [executions EXCEPT ![e] = r],
           used'.failures = 0 => used.failures = 0 /\ disk' = [disk EXCEPT ![e] = r] /\ late' = late,
           r.state = "WaitingForInput" => executions[e].state = "WaitingForInput" \/ HasAgent(e),
           used.failures = 0 /\ r.state \in InProgress => e \in Active,
           \A f \in Executions : f # e => task'[f] = task[f],
           used'.failures = 0 =>
               /\ task'[e].pc # "error"
               /\ task'[e].pc \in LivePcs => task[e].pc \in LivePcs /\ r.state \in InProgress,
           dispatcher'.pc # "expiring" => dispatcher'.ids = {}, dispatcher'.ids \subseteq dispatcher.ids,
           UNCHANGED clock
    PROVE  TakesNone
<1>1. PerExecution(executions) /\ Clocks
  BY Zenon DEF IInv, Maps, Slots
<1>2. executions'[e] = r /\ \A f \in Executions : f # e => executions'[f] = executions[f]
  BY <1>1, Zenon DEF PerExecution
<1>3. Clocks'
  BY <1>1, <1>2, Zenon DEF Clocks
<1>4. ASSUME used'.failures = 0
      PROVE  /\ disk' = executions' /\ \A f \in Executions : Tight(f)'
             /\ used.failures = 0 /\ Active' \subseteq Active
  <2>1. /\ disk = executions /\ \A f \in Executions : Tight(f)
        /\ late' = late /\ used.failures = 0
    BY <1>4, Zenon DEF Slots
  <2>2. disk' = executions'
    BY <1>4, <2>1, Zenon
  <2>3. Active' \subseteq Active
    BY <1>2, <2>1, Zenon DEF Active
  <2>5. ASSUME NEW f \in Executions PROVE Tight(f)'
    <3>1. CASE f = e
      BY <1>2, <1>4, <2>1, <3>1, Zenon DEF Tight, Active
    <3>2. CASE f # e
      BY <1>2, <2>1, <3>2, Zenon DEF Tight, Active
    <3> QED BY <3>1, <3>2, Zenon
  <2> QED BY <2>1, <2>2, <2>3, <2>5, Zenon
<1> QED BY <1>3, <1>4, Zenon DEF Slots, TakesNone

(* Whether a write failed. *)
LEMMA Failing ==
    ASSUME IInv
    PROVE  /\ NoTrouble => used'.failures = used.failures
           /\ Failure => used'.failures # 0
BY DEF IInv, Others, NoTrouble, Failure

(* A task at work has an execution in progress. *)
LEMMA LiveIsActive ==
    ASSUME IInv, Slots, NEW e \in Executions, task[e].pc \in LivePcs
    PROVE  used.failures = 0 => e \in Active /\ executions[e].state \in InProgress
BY Zenon DEF Slots, Tight, Active

(* The updates of a task. *)
LEMMA SlotsUpdate ==
    ASSUME IInv, Slots, NEW e \in Executions, task[e].pc \in LivePcs,
           NEW r, NEW next \in Pcs \ {"error"}, NEW error \in Pcs, update_execution(e, r, next, error),
           r.state = "WaitingForInput" => executions[e].state = "WaitingForInput" \/ HasAgent(e),
           used.failures = 0 /\ next \in LivePcs => r.state \in InProgress,
           UNCHANGED <<running, late, dispatcher, clock, effects, calls>>
    PROVE  TakesNone
<1>1. used.failures = 0 => e \in Active
  BY LiveIsActive, Zenon
<1>2. PICK pc \in Pcs : /\ Goto(e, pc) /\ executions' = [executions EXCEPT ![e] = r]
                        /\ (Write(e, r) /\ pc = next) \/ (WriteFails(e, r) /\ pc = error)
  BY Zenon DEF update_execution, Write, WriteFails
<1>3. used'.failures = 0 => used.failures = 0 /\ disk' = [disk EXCEPT ![e] = r] /\ pc = next
  BY <1>2, Failing, Zenon DEF Write, WriteFails
<1>4. task'[e].pc = pc /\ \A f \in Executions : f # e => task'[f] = task[f]
  BY <1>2 DEF IInv, Others, Goto
<1>5. dispatcher.pc # "expiring" => dispatcher.ids = {}
  BY Zenon DEF Slots, Clocks
<1> QED BY <1>1, <1>2, <1>3, <1>4, <1>5, SlotsOne, Zenon

(* The steps that change no record. *)
LEMMA SlotsStay ==
    ASSUME IInv, Slots, NEW e \in Executions, UNCHANGED <<executions, clock>>,
           used'.failures = 0 => used.failures = 0 /\ disk' = disk /\ late' = late,
           \A f \in Executions : f # e => task'[f] = task[f],
           used'.failures = 0 =>
               task'[e].pc # "error" /\ (task'[e].pc \in LivePcs => task[e].pc \in LivePcs),
           dispatcher'.pc # "expiring" => dispatcher'.ids = {}, dispatcher'.ids \subseteq dispatcher.ids
    PROVE  TakesNone
<1>1. PerExecution(executions) /\ PerExecution(disk)
  BY Zenon DEF IInv, Maps
<1>2. PICK r : r = executions[e]
  BY Zenon
<1>3. executions' = [executions EXCEPT ![e] = r]
  BY <1>1, <1>2, Zenon DEF PerExecution
<1>4. used'.failures = 0 => disk' = [disk EXCEPT ![e] = r]
  <2>1. used'.failures = 0 => disk[e] = r
    BY <1>2, Zenon DEF Slots
  <2> QED BY <1>1, <2>1, Zenon DEF PerExecution
<1>5. used.failures = 0 /\ r.state \in InProgress => e \in Active
  BY <1>2, Zenon DEF Active
<1>6. used'.failures = 0 /\ task'[e].pc \in LivePcs => r.state \in InProgress
  BY <1>2, LiveIsActive, Zenon
<1> QED BY <1>2, <1>3, <1>4, <1>5, <1>6, SlotsOne, Zenon

(* A step that is not the dispatcher's leaves what it is about to expire. *)
LEMMA DispatcherRests ==
    ASSUME Slots, UNCHANGED dispatcher
    PROVE  (dispatcher'.pc # "expiring" => dispatcher'.ids = {}) /\ dispatcher'.ids \subseteq dispatcher.ids
BY Zenon DEF Slots, Clocks

(* cancel and resolve_approval take no slot. *)
LEMMA SlotsCalls ==
    ASSUME IInv, Slots, NEW e \in Executions, NEW approve \in BOOLEAN,
           cancel(e) \/ signal(e) \/ resolve_approval(e, approve)
    PROVE  TakesNone
<1>1. /\ UNCHANGED <<task, late, dispatcher, clock>> /\ task' = task
      /\ dispatcher'.pc # "expiring" => dispatcher'.ids = {}
      /\ dispatcher'.ids \subseteq dispatcher.ids
      /\ task[e].pc = "error" => used.failures # 0
  BY DispatcherRests, Zenon DEF cancel, signal, resolve_approval, Slots, Tight
<1>2. CASE cancel(e)
  <2>1. executions[e] # Absent /\ executions[e] \in Record(e) /\ Sound(e, executions[e], consents)
    BY <1>2, SoundRecord, Zenon DEF cancel, Sound
  <2>2. PICK r : r = [executions[e] EXCEPT !.cancellation_requested = TRUE]
    BY Zenon
  <2>3. PICK s : s = IF r.state \in {"Queued", "WaitingForApproval"} THEN cancel_execution(r) ELSE r
    BY Zenon
  <2>4. r.state = executions[e].state
    BY <2>1, <2>2, Zenon DEF Record
  <2>5. s.state = executions[e].state \/ (s.state = "Canceled" /\ executions[e].state \in {"Queued", "WaitingForApproval"})
    <3>1. CASE r.state \in {"Queued", "WaitingForApproval"}
      <4>1. r \in Record(e) /\ Sound(e, r, consents)
        BY <2>1, <2>2, AskedSound, Zenon
      <4>2. s.state = "Canceled"
        BY <2>3, <3>1, <4>1, FailIs DEF cancel_execution
      <4> QED BY <2>4, <3>1, <4>2, Zenon
    <3>2. CASE r.state \notin {"Queued", "WaitingForApproval"}
      BY <2>3, <2>4, <3>2, Zenon
    <3> QED BY <3>1, <3>2, Zenon
  <2>6. /\ executions' = [executions EXCEPT ![e] = s]
        /\ disk' = [disk EXCEPT ![e] = s] \/ used'.failures # 0
        /\ used'.failures = 0 => used.failures = 0
    <3>1. executions' = [executions EXCEPT ![e] = s]
      BY <1>2, <2>2, <2>3, Zenon DEF cancel
    <3>2. \/ disk' = [disk EXCEPT ![e] = s] /\ used' = [used EXCEPT !.cancels = @ + 1]
          \/ used' = [used EXCEPT !.cancels = @ + 1, !.failures = @ + 1]
      BY <1>2, <2>2, <2>3, Zenon DEF cancel
    <3>3. used \in [cancels : Nat, failures : Nat, crashes : Nat]
      BY Zenon DEF IInv, Others
    <3>4. /\ [used EXCEPT !.cancels = @ + 1].failures = used.failures
          /\ [used EXCEPT !.cancels = @ + 1, !.failures = @ + 1].failures = used.failures + 1
          /\ used.failures + 1 # 0
      BY <3>3
    <3> QED BY <3>1, <3>2, <3>4, Zenon
  <2>7. task[e].pc \in LivePcs => executions[e].state \notin {"Queued", "WaitingForApproval"}
    BY Zenon DEF IInv, Good, TaskOK
  <2>8. used.failures = 0 /\ task[e].pc \in LivePcs => s.state \in InProgress
    BY <2>5, <2>7, LiveIsActive, Zenon
  <2>9. s.state \in InProgress => e \in Active
    BY <2>5, Zenon DEF Active, InProgress
  <2>10. s.state = "WaitingForInput" => executions[e].state = "WaitingForInput"
    BY <2>5, Zenon
  <2> QED BY <1>1, <2>6, <2>8, <2>9, <2>10, SlotsOne, Zenon
<1>3. CASE signal(e)
  <2>1. /\ UNCHANGED <<executions, disk>> /\ (NoTrouble \/ Failure)
    BY <1>3, Zenon DEF signal
  <2> QED BY <1>1, <2>1, Failing, SlotsStay, Zenon
<1>4. CASE resolve_approval(e, approve)
  <2>1. PICK i : i = Waiting(e)
    BY Zenon
  <2>2. /\ Sound(e, executions[e], consents) /\ executions[e] \in Record(e)
        /\ i \in Numbers(e) /\ task[e].pc \notin LivePcs
    BY <1>4, <2>1, WaitingIs, Zenon DEF resolve_approval, Sound
  <2>3. PICK r : r = IF approve THEN [SetStep(executions[e], i, "Succeeded") EXCEPT !.state = "Queued"]
                     ELSE Rejected(executions[e], i)
    BY Zenon
  <2>4. r.state \in {"Queued", "Failed"}
    <3>1. CASE approve
      <4>1. DOMAIN executions[e] = DOMAIN SetStep(executions[e], i, "Succeeded") /\ "state" \in DOMAIN executions[e]
        BY <2>2, Zenon DEF SetStep, Record
      <4> QED BY <2>3, <3>1, <4>1, Zenon
    <3>2. CASE ~approve
      BY <2>2, <2>3, <3>2, RejectFollows, Zenon DEF Rejected
    <3> QED BY <3>1, <3>2, Zenon
  <2>5. Write(e, r) \/ WriteFails(e, r)
    BY <1>4, <2>1, <2>3, Zenon DEF resolve_approval
  <2>6. executions' = [executions EXCEPT ![e] = r] /\ (used'.failures = 0 => used.failures = 0 /\ disk' = [disk EXCEPT ![e] = r])
    BY <2>5, Failing, Zenon DEF Write, WriteFails
  <2>7. r.state \notin InProgress /\ r.state # "WaitingForInput"
    BY <2>4, Zenon DEF InProgress
  <2> QED BY <1>1, <2>2, <2>6, <2>7, SlotsOne, Zenon
<1> QED BY <1>2, <1>3, <1>4, Zenon

(* A record that ended is not in progress. *)
LEMMA EndStates ==
    ASSUME NEW e \in Executions, NEW given, NEW p, Sound(e, p, given)
    PROVE  /\ cancel_execution(p).state \notin InProgress
           /\ fail_execution(p).state \notin InProgress
<1>1. PICK c : c = cancel_execution(p)
  BY Zenon
<1>2. c.state = "Canceled"
  BY <1>1, FailIs DEF cancel_execution
<1>3. PICK f : f = fail_execution(p)
  BY Zenon
<1>4. is_terminal(f)
  <2>1. CASE is_terminal(p)
    BY <1>3, <2>1, Zenon DEF fail_execution
  <2>2. CASE ~is_terminal(p)
    <3>1. f.state = "Failed"
      BY <1>3, <2>2, FailIs DEF fail_execution
    <3> QED BY <3>1, Zenon DEF is_terminal
  <2> QED BY <2>1, <2>2, Zenon
<1> QED BY <1>1, <1>2, <1>3, <1>4, Zenon DEF is_terminal, InProgress

(* The states that the work of a step gives its record. *)
LEMMA SetStateIs ==
    ASSUME NEW e \in Executions, NEW p \in Record(e), NEW i, NEW to, NEW state
    PROVE  /\ [SetStep(p, i, to) EXCEPT !.state = state].state = state
           /\ SetStep(p, i, to).state = p.state
           /\ [skip_pending_steps(SetStep(p, i, to)) EXCEPT !.state = state].state = state
<1>1. DOMAIN p = {"state", "steps", "cancellation_requested", "started", "cron"}
  BY Zenon DEF Record
<1>2. /\ "state" \in DOMAIN SetStep(p, i, to) /\ SetStep(p, i, to).state = p.state
      /\ DOMAIN SetStep(p, i, to) = DOMAIN p
  BY <1>1, Zenon DEF SetStep
<1>3. PICK u : u = SetStep(p, i, to)
  BY Zenon
<1>4. DOMAIN skip_pending_steps(u) = DOMAIN u
  BY Zenon DEF skip_pending_steps, Turn
<1> QED BY <1>1, <1>2, <1>3, <1>4, Zenon

(* The last update of a task gives the slot back. *)
LEMMA SlotsLast ==
    ASSUME IInv, Slots, NEW e \in Executions, task[e].pc \in LivePcs, NEW r, r.state \notin InProgress,
           update_execution(e, r, "leave", "error"),
           UNCHANGED <<running, late, dispatcher, clock, effects, calls>>
    PROVE  TakesNone
<1>1. "leave" \in Pcs \ {"error"} /\ "error" \in Pcs /\ "leave" \notin LivePcs /\ r.state # "WaitingForInput"
  BY Zenon DEF Pcs, LivePcs, InProgress
<1> QED BY <1>1, SlotsUpdate, Zenon

(* run_execution and the head of its loop. *)
LEMMA SlotsRuns ==
    ASSUME IInv, Slots, NEW e \in Executions, run_execution(e) \/ run(e)
    PROVE  TakesNone
<1>1. /\ task[e].pc \in LivePcs /\ UNCHANGED <<running, late, dispatcher, clock, effects, calls>>
      /\ Sound(e, executions[e], consents)
  BY AtWork, Zenon DEF run_execution, run, LivePcs
<1>2. CASE run_execution(e)
  <2>1. /\ UNCHANGED <<executions, disk>>
        /\ (Goto(e, "loop") /\ NoTrouble) \/ (Goto(e, "error") /\ Failure)
    BY <1>2, Zenon DEF run_execution
  <2>2. /\ \A f \in Executions : f # e => task'[f] = task[f]
        /\ NoTrouble \/ Failure
        /\ ~Failure => task'[e].pc = "loop"
    BY <2>1 DEF Goto, IInv, Others
  <2> QED BY <1>1, <2>1, <2>2, Failing, DispatcherRests, SlotsStay, Zenon
<1>3. CASE run(e)
  <2>1. \/ update_execution(e, cancel_execution(executions[e]), "leave", "error")
        \/ update_execution(e, fail_execution(executions[e]), "leave", "error")
        \/ /\ NoTrouble /\ UNCHANGED <<executions, disk>>
           /\ \E t : task' = [task EXCEPT ![e] = t] /\ t.pc # "error"
    <3>1. task[e] \in [pc : Pcs, step : Nat]
      BY Zenon DEF IInv, Others
    <3>2. [task[e] EXCEPT !.pc = "leave"].pc = "leave" /\ \A n : [pc |-> "begin", step |-> n].pc = "begin"
      BY <3>1, Zenon
    <3> QED BY <1>3, <3>2, Zenon DEF run
  <2>2. ASSUME NEW r, update_execution(e, r, "leave", "error"), r.state \notin InProgress PROVE TakesNone
    BY <1>1, <2>2, SlotsLast, Zenon
  <2>3. ASSUME NEW t, NoTrouble, UNCHANGED <<executions, disk>>, task' = [task EXCEPT ![e] = t], t.pc # "error"
        PROVE  TakesNone
    <3>1. task'[e] = t /\ \A f \in Executions : f # e => task'[f] = task[f]
      BY <2>3, Zenon DEF IInv, Others
    <3> QED BY <1>1, <2>3, <3>1, Failing, DispatcherRests, SlotsStay, Zenon
  <2> QED BY <1>1, <2>1, <2>2, <2>3, EndStates, Zenon
<1> QED BY <1>2, <1>3, Zenon

(* A step is begun, and its work starts or asks for an approval. *)
LEMMA SlotsBegin ==
    ASSUME IInv, Slots, NEW e \in Executions, Begin(e) \/ execute_step(e)
    PROVE  TakesNone
<1>1. /\ task[e].pc \in LivePcs /\ UNCHANGED <<running, late, dispatcher, clock, calls>>
      /\ executions[e] \in Record(e)
  BY AtWork, Zenon DEF Begin, execute_step, LivePcs
<1>2. PICK i : i = task[e].step
  BY Zenon
<1>3. ASSUME NEW r, NEW next \in {"leave", "begun"}, update_execution(e, r, next, "error"), UNCHANGED effects,
             r.state # "WaitingForInput", next = "begun" => r.state = "Running"
      PROVE  TakesNone
  <2>1. next \in Pcs \ {"error"} /\ "error" \in Pcs /\ (next \in LivePcs => r.state \in InProgress)
    BY <1>3, Zenon DEF Pcs, LivePcs, InProgress
  <2> QED BY <1>1, <1>3, <2>1, SlotsUpdate, Zenon
<1>4. CASE Begin(e)
  <2>1. PICK r : r = [executions[e] EXCEPT !.state = "Succeeded"]
    BY Zenon
  <2>2. PICK s : s = [SetStep(executions[e], i, "Running") EXCEPT !.state = "Running"]
    BY Zenon
  <2>3. r.state = "Succeeded" /\ s.state = "Running"
    BY <1>1, <2>1, <2>2, SetStateIs DEF Record
  <2>4. UNCHANGED effects /\ (update_execution(e, r, "leave", "error") \/ update_execution(e, s, "begun", "error"))
    BY <1>2, <1>4, <2>1, <2>2, Zenon DEF Begin
  <2> QED BY <1>3, <2>3, <2>4, Zenon
<1>5. CASE execute_step(e)
  <2>1. PICK r : r = [SetStep(executions[e], i, "WaitingForApproval") EXCEPT !.state = "WaitingForApproval"]
    BY Zenon
  <2>2. r.state = "WaitingForApproval"
    BY <1>1, <2>1, SetStateIs
  <2>3. \/ update_execution(e, r, "leave", "error") /\ UNCHANGED effects
        \/ UNCHANGED <<executions, disk>> /\ ((Goto(e, "work") /\ NoTrouble) \/ (Goto(e, "error") /\ Failure))
    BY <1>2, <1>5, <2>1, Zenon DEF execute_step
  <2>4. CASE update_execution(e, r, "leave", "error") /\ UNCHANGED effects
    BY <1>3, <2>2, <2>4, Zenon
  <2>5. CASE UNCHANGED <<executions, disk>> /\ ((Goto(e, "work") /\ NoTrouble) \/ (Goto(e, "error") /\ Failure))
    <3>1. /\ \A f \in Executions : f # e => task'[f] = task[f]
          /\ NoTrouble \/ Failure
          /\ ~Failure => task'[e].pc = "work"
      BY <2>5 DEF Goto, IInv, Others
    <3> QED BY <1>1, <2>5, <3>1, Failing, DispatcherRests, SlotsStay, Zenon
  <2> QED BY <2>3, <2>4, <2>5, Zenon
<1> QED BY <1>4, <1>5, Zenon

(* The work of a step goes on or ends. *)
LEMMA SlotsWork ==
    ASSUME IInv, Slots, NEW e \in Executions, wait_for_turn(e) \/ finish_step(e)
    PROVE  TakesNone
<1>1. /\ task[e].pc \in {"work", "broken"} /\ task[e].pc \in LivePcs
      /\ UNCHANGED <<running, late, dispatcher, clock, effects, calls>>
  BY Zenon DEF wait_for_turn, finish_step, LivePcs
<1>2. PICK i : i = task[e].step
  BY Zenon
<1>3. /\ executions[e] \in Record(e) /\ Sound(e, executions[e], consents)
      /\ TaskOK(e, executions[e], disk[e], task[e], effects[e], consents)
  BY <1>1, AtWork, Zenon
<1>4. i \in Numbers(e) /\ (used.failures = 0 => executions[e].state \in InProgress)
  BY <1>1, <1>2, <1>3, LiveIsActive, Zenon DEF TaskOK
<1>5. CASE wait_for_turn(e)
  <2>1. PICK state \in {"WaitingForInput", "Running"} :
           update_execution(e, [SetStep(executions[e], i, state) EXCEPT !.state = state], "work", "broken")
    BY <1>2, <1>5, Zenon DEF wait_for_turn
  <2>2. PICK r : r = [SetStep(executions[e], i, state) EXCEPT !.state = state]
    BY Zenon
  <2>3. r.state = state
    BY <1>3, <2>2, SetStateIs
  <2>4. HasAgent(e)
    BY <1>2, <1>4, <1>5, Zenon DEF HasAgent, wait_for_turn
  <2>5. "work" \in Pcs \ {"error"} /\ "broken" \in Pcs /\ r.state \in InProgress
    BY <2>1, <2>3, Zenon DEF Pcs, InProgress
  <2> QED BY <1>1, <2>1, <2>2, <2>4, <2>5, SlotsUpdate, Zenon
<1>6. CASE finish_step(e)
  <2>1. PICK r : r = SetStep(executions[e], i, "Succeeded")
    BY Zenon
  <2>2. PICK s : s = [SetStep(executions[e], i, "Failed") EXCEPT !.state = "Running"]
    BY Zenon
  <2>3. PICK u : u = [skip_pending_steps(SetStep(executions[e], i, "Failed")) EXCEPT !.state = "Failed"]
    BY Zenon
  <2>4. r.state = executions[e].state /\ s.state = "Running" /\ u.state = "Failed"
    BY <1>3, <2>1, <2>2, <2>3, SetStateIs
  <2>5. \/ update_execution(e, r, "loop", "error") \/ update_execution(e, s, "loop", "error")
        \/ update_execution(e, cancel_execution(executions[e]), "leave", "error")
        \/ update_execution(e, u, "leave", "error")
    BY <1>2, <1>6, <2>1, <2>2, <2>3, Zenon DEF finish_step, fail_step
  <2>6. /\ "loop" \in Pcs \ {"error"} /\ "error" \in Pcs /\ u.state \notin InProgress
        /\ s.state \in InProgress /\ s.state # "WaitingForInput"
    BY <2>4, Zenon DEF Pcs, InProgress
  <2>7. ASSUME NEW v \in {r, s}, update_execution(e, v, "loop", "error") PROVE TakesNone
    <3>1. /\ v.state = "WaitingForInput" => executions[e].state = "WaitingForInput"
          /\ used.failures = 0 => v.state \in InProgress
      BY <1>4, <2>4, <2>6, <2>7, Zenon
    <3> QED BY <1>1, <2>6, <2>7, <3>1, SlotsUpdate, Zenon
  <2>8. ASSUME NEW v, update_execution(e, v, "leave", "error"), v.state \notin InProgress PROVE TakesNone
    BY <1>1, <2>8, SlotsLast, Zenon
  <2> QED BY <1>3, <2>5, <2>6, <2>7, <2>8, EndStates, Zenon
<1> QED BY <1>5, <1>6, Zenon

(* The task leaves the running map. *)
LEMMA SlotsLeave ==
    ASSUME IInv, Slots, NEW e \in Executions, Leave(e)
    PROVE  TakesNone
<1>1. /\ UNCHANGED <<executions, disk, dispatcher, clock>> /\ task' = [task EXCEPT ![e] = NoTask]
      /\ task[e].pc = "error" \/ (NoTrouble /\ UNCHANGED late) \/ Failure
      /\ NoTrouble \/ Failure
  BY Zenon DEF Leave
<1>2. used.failures = 0 => task[e].pc # "error"
  BY Zenon DEF Slots, Tight
<1>3. task'[e].pc = "none" /\ "none" \notin LivePcs /\ \A f \in Executions : f # e => task'[f] = task[f]
  BY <1>1, Zenon DEF IInv, Others, NoTask, LivePcs
<1>4. used'.failures = 0 => used.failures = 0 /\ disk' = disk /\ late' = late
  BY <1>1, <1>2, Failing, Zenon
<1> QED BY <1>1, <1>3, <1>4, DispatcherRests, SlotsStay, Zenon

(* The task fails its execution after it left. *)
LEMMA SlotsFailLate ==
    ASSUME IInv, Slots, NEW e \in Executions, FailLate(e)
    PROVE  TakesNone
<1>1. PICK r : r = fail_execution(executions[e])
  BY Zenon
<1>2. /\ (Write(e, r) \/ WriteFails(e, r)) /\ late[e] > 0 /\ UNCHANGED <<task, dispatcher, clock>>
  BY <1>1, Zenon DEF FailLate
<1>3. used.failures # 0
  BY <1>2 DEF Slots, Tight, IInv, Others
<1>4. executions' = [executions EXCEPT ![e] = r] /\ used'.failures # 0
  BY <1>2, <1>3, Failing, Zenon DEF Write, WriteFails
<1>5. r.state \notin InProgress /\ r.state # "WaitingForInput"
  <2>1. executions[e] # Absent
    BY <1>2, Zenon DEF IInv
  <2>2. r.state \notin InProgress
    BY <1>1, <2>1, SoundRecord, EndStates, Zenon
  <2> QED BY <2>2, Zenon DEF InProgress
<1> QED BY <1>2, <1>4, <1>5, DispatcherRests, SlotsOne, Zenon

(* expire_waiting_executions ends no execution whose task works. *)
LEMMA SlotsExpire ==
    ASSUME TimedAgents = {}, IInv, Slots, expire_waiting_executions
    PROVE  TakesNone
<1>1. UNCHANGED <<task, late, clock>>
  BY Zenon DEF expire_waiting_executions
<1>2. CASE dispatcher.pc = "expire"
  <2>1. UNCHANGED <<executions, disk, used>>
    BY <1>2, Zenon DEF expire_waiting_executions
  <2>2. /\ dispatcher'.pc # "expiring" => dispatcher'.ids = {}
        /\ dispatcher'.ids \subseteq Expired
    BY <1>2 DEF expire_waiting_executions
  <2>3. ASSUME NEW e \in Expired PROVE e \in Executions /\ task[e].pc \notin LivePcs
    <3>1. /\ e \in Executions /\ clock[e] # "no"
          /\ executions[e].state \in {"Queued", "WaitingForApproval", "WaitingForInput"}
      BY Zenon DEF Expired
    <3>2. executions[e].state # "WaitingForInput"
      BY <3>1, Zenon DEF Slots, Clocks, TimedAgents
    <3>3. TaskOK(e, executions[e], disk[e], task[e], effects[e], consents)
      BY <3>1, Zenon DEF IInv, Good
    <3> QED BY <3>1, <3>2, <3>3, Zenon DEF TaskOK
  <2>4. Clocks'
    BY <1>1, <2>1, <2>2, Zenon DEF Slots, Clocks
  <2>5. \A e \in Executions : Tight(e) => Tight(e)'
    BY <1>1, <2>1, <2>2, <2>3, Zenon DEF Tight, Active
  <2>6. Active' = Active
    BY <2>1, Zenon DEF Active
  <2> QED BY <2>1, <2>4, <2>5, <2>6, Zenon DEF Slots, TakesNone
<1>3. CASE dispatcher.pc # "expire"
  <2>1. PICK e \in dispatcher.ids :
           \/ /\ Write(e, fail_execution(executions[e]))
              /\ dispatcher' = IF dispatcher.ids = {e} THEN [pc |-> "claim", ids |-> {}]
                               ELSE [dispatcher EXCEPT !.ids = @ \ {e}]
           \/ /\ WriteFails(e, fail_execution(executions[e]))
              /\ dispatcher' = [pc |-> "claim", ids |-> {}]
    BY <1>3, Zenon DEF expire_waiting_executions
  <2>2. PICK r : r = fail_execution(executions[e])
    BY Zenon
  <2>3. dispatcher \in [pc : {"select", "expire", "expiring", "claim"}, ids : SUBSET Executions]
    BY Zenon DEF IInv, Others
  <2>4. dispatcher.pc = "expiring"
    BY <1>3, Zenon DEF expire_waiting_executions
  <2>5. (dispatcher'.pc # "expiring" => dispatcher'.ids = {}) /\ dispatcher'.ids \subseteq dispatcher.ids
    BY <2>1, <2>3, <2>4
  <2>6. e \in Executions /\ executions[e] # Absent
    BY <2>1, <2>3, Zenon DEF IInv
  <2>7. r.state \notin InProgress
    BY <2>2, <2>6, SoundRecord, EndStates, Zenon
  <2>8. r.state # "WaitingForInput"
    BY <2>7, Zenon DEF InProgress
  <2>9. executions' = [executions EXCEPT ![e] = r] /\ (Write(e, r) \/ Failure)
    BY <2>1, <2>2, Zenon DEF Write, WriteFails
  <2>10. used'.failures = 0 => used.failures = 0 /\ disk' = [disk EXCEPT ![e] = r] /\ late' = late
    BY <1>1, <2>9, Failing, Zenon DEF Write
  <2>11. used'.failures = 0 => task'[e].pc # "error" /\ task'[e].pc \notin LivePcs
    BY <1>1, <2>1, <2>6, <2>10, Zenon DEF Slots, Tight
  <2> QED BY <1>1, <2>5, <2>6, <2>7, <2>8, <2>9, <2>10, <2>11, SlotsOne, Zenon
<1> QED BY <1>2, <1>3, Zenon

(* Time passes. *)
LEMMA SlotsTick ==
    ASSUME IInv, Slots, NEW e \in Executions, Tick(e)
    PROVE  TakesNone
<1>1. e \in Timeouts /\ UNCHANGED <<executions, disk, task, late, dispatcher, used>>
  BY Zenon DEF Tick
<1>2. \A f \in Executions : f # e => clock'[f] = clock[f]
  BY Zenon DEF Tick, IInv, Others
<1>3. Clocks'
  BY <1>1, <1>2, Zenon DEF Slots, Clocks
<1>4. Active' = Active /\ \A f \in Executions : Tight(f) => Tight(f)'
  BY <1>1, Zenon DEF Active, Tight
<1> QED BY <1>1, <1>3, <1>4, Zenon DEF Slots, TakesNone

(* A new start leaves no execution waiting for input, and starts none. *)
LEMMA ReconcileState ==
    ASSUME NEW e \in Executions, NEW given, NEW q, q = Absent \/ Sound(e, q, given), NEW s,
           s = reconcile_after_restart(q)
    PROVE  s.state # "WaitingForInput" /\ (s.state \in InProgress => s = q)
<1>1. CASE q.state \in {"Running", "WaitingForInput"}
  <2>1. Sound(e, q, given)
    BY <1>1 DEF Absent
  <2>2. PICK from : from = {"Running", "WaitingForInput"}
    BY Zenon
  <2>3. s = [skip_pending_steps(Turn(q, from, "Failed")) EXCEPT !.state = "Interrupted"]
    BY <1>1, <2>2, Zenon DEF reconcile_after_restart
  <2>4. s.state = "Interrupted"
    BY <2>1, <2>3, FailIs
  <2> QED BY <2>4, Zenon DEF InProgress
<1>2. CASE q.state \notin {"Running", "WaitingForInput"}
  <2>1. s = q
    BY <1>2, Zenon DEF reconcile_after_restart
  <2> QED BY <1>2, <2>1, Zenon
<1> QED BY <1>1, <1>2, Zenon

(* The daemon ends and is started again. *)
LEMMA SlotsRestart ==
    ASSUME IInv, Slots, Restart
    PROVE  TakesNone
<1>1. /\ executions' = [e \in Executions |-> reconcile_after_restart(disk[e])] /\ disk' = executions'
      /\ task' = [e \in Executions |-> NoTask] /\ late' = [e \in Executions |-> 0] /\ dispatcher' = Idle
      /\ clock' = [e \in Executions |-> IF disk[e].started THEN clock[e] ELSE "no"]
      /\ used' = [used EXCEPT !.crashes = @ + 1]
  BY Zenon DEF Restart
<1>2. used'.failures = used.failures
  BY <1>1, Zenon DEF IInv, Others
<1>3. ASSUME NEW e \in Executions
      PROVE  /\ executions'[e].state # "WaitingForInput"
             /\ executions'[e].state \in InProgress => executions'[e] = disk[e]
  <2>1. disk[e] = Absent \/ Sound(e, disk[e], consents)
    BY Zenon DEF IInv, Good, Kept
  <2>2. executions'[e] = reconcile_after_restart(disk[e])
    BY <1>1, Zenon
  <2> QED BY <2>1, <2>2, ReconcileState, Zenon
<1>4. Clocks'
  <2>1. \A e \in Executions : clock'[e] # "no" => clock[e] # "no"
    BY <1>1, Zenon
  <2>3. \A e \in Executions : clock'[e] # "no" => e \in Timeouts
    BY <2>1, Zenon DEF Slots, Clocks
  <2>2. dispatcher'.ids = {}
    BY <1>1, Zenon DEF Idle
  <2> QED BY <1>3, <2>2, <2>3, Zenon DEF Clocks
<1>5. \A e \in Executions : Tight(e)'
  BY <1>1, Zenon DEF Tight, NoTask, LivePcs
<1>6. ASSUME used.failures = 0 PROVE Active' \subseteq Active
  <2>1. disk = executions
    BY <1>6, Zenon DEF Slots
  <2> QED BY <1>3, <2>1, Zenon DEF Active
<1> QED BY <1>1, <1>2, <1>4, <1>5, <1>6, Zenon DEF Slots, TakesNone

(* claim_queued takes the slots of what it claims. *)
LEMMA SlotsClaim ==
    ASSUME IInv, Slots, claim_queued
    PROVE  /\ Slots'
           /\ used'.failures = 0 => used.failures = 0 /\ Active' = Active \cup Claims
<1>1. /\ UNCHANGED <<late, clock>> /\ dispatcher'.ids = {}
      /\ \A e \in Executions : Unclaimed(e) \/ Claimed(e)
  BY ClaimIs, Zenon DEF claim_queued, Idle
<1>2. \A e \in Claimable : ClaimedRecord(e).state = "Running" /\ e \in Executions
  <2> SUFFICES ASSUME NEW e \in Claimable PROVE ClaimedRecord(e).state = "Running" /\ e \in Executions
    BY Zenon
  <2>1. e \in Executions /\ executions[e].state = "Queued"
    BY Zenon DEF Claimable
  <2>2. executions[e] # Absent
    BY <2>1 DEF Absent
  <2>3. executions[e] \in Record(e)
    BY <2>1, <2>2, SoundRecord, Zenon DEF Sound
  <2> QED BY <2>1, <2>3, Zenon DEF ClaimedRecord, Record
<1>3. Clocks'
  <2>1. \A e \in Executions : executions'[e].state = "WaitingForInput" => executions[e].state = "WaitingForInput"
    BY <1>1, <1>2, Zenon DEF Unclaimed, Claimed
  <2> QED BY <1>1, <2>1, Zenon DEF Slots, Clocks
<1>4. ASSUME used'.failures = 0
      PROVE  /\ disk' = executions' /\ \A e \in Executions : Tight(e)'
             /\ used.failures = 0 /\ Active' = Active \cup Claims
  <2>1. /\ executions' = [e \in Executions |-> IF e \in Claims THEN ClaimedRecord(e) ELSE executions[e]]
        /\ disk' = [e \in Executions |-> IF e \in Claims THEN ClaimedRecord(e) ELSE disk[e]]
        /\ task' = [e \in Executions |-> IF e \in Claims THEN [NoTask EXCEPT !.pc = "start"] ELSE task[e]]
        /\ NoTrouble
    BY <1>4, Failing, Zenon DEF claim_queued
  <2>2. used.failures = 0 /\ disk = executions /\ \A e \in Executions : Tight(e)
    BY <1>4, <2>1, Failing, Zenon DEF Slots
  <2>3. disk' = executions'
    BY <2>1, <2>2, Zenon
  <2>4. Claims \subseteq Claimable
    BY Zenon DEF Claims
  <2>5. Active' = Active \cup Claims
    <3>1. \A e \in Claims : e \in Executions /\ executions'[e].state = "Running"
      BY <1>2, <2>1, <2>4, Zenon
    <3>2. \A e \in Executions : e \notin Claims => executions'[e] = executions[e]
      BY <2>1, Zenon
    <3> QED BY <3>1, <3>2, Zenon DEF Active, InProgress
  <2>6. ASSUME NEW e \in Executions PROVE Tight(e)'
    <3>1. CASE e \in Claims
      <4>1. task'[e].pc = "start"
        BY <2>1, <3>1, Zenon DEF NoTask
      <4> QED BY <1>1, <2>2, <2>5, <3>1, <4>1, Zenon DEF Tight
    <3>2. CASE e \notin Claims
      <4>1. task'[e] = task[e]
        BY <2>1, <3>2, Zenon
      <4> QED BY <1>1, <2>2, <2>5, <4>1, Zenon DEF Tight
    <3> QED BY <3>1, <3>2, Zenon
  <2> QED BY <2>2, <2>3, <2>5, <2>6, Zenon
<1> QED BY <1>3, <1>4, Zenon DEF Slots

-----------------------------------------------------------------------------
(* Admission, and the next step: both take the least of a set of numbers.  *)

INSTANCE FiniteSetTheorems

(* A set of numbers has a least element. *)
LEMMA LeastIs ==
    ASSUME NEW S \in SUBSET Nat, S # {}
    PROVE  \E x \in S : \A y \in S : x <= y
<1>1. PICK x \in S : \A y \in S : ~(<<y, x>> \in OpToRel(<, Nat))
  BY NatLessThanWellFounded, WFMin, Zenon
<1>2. \A y \in S : ~(y < x)
  BY <1>1, Zenon DEF OpToRel
<1> QED BY <1>2

(* The next identifier was not used. *)
LEMMA NextIs ==
    ASSUME Fresh # {}
    PROVE  Next_id \in Fresh
<1>1. Fresh \in SUBSET Nat
  BY NumbersAre, Zenon DEF Fresh
<1>2. \E e \in Fresh : \A f \in Fresh : e <= f
  BY <1>1, LeastIs, Zenon
<1> QED BY <1>2, Zenon DEF Next_id

(* An admitted record is sound. *)
LEMMA QueuedIs ==
    ASSUME NEW e \in Executions, NEW cron \in BOOLEAN, NEW given, NEW r, r = Queued(e, cron)
    PROVE  Sound(e, r, given) /\ r.state = "Queued" /\ r.cron = cron /\ r # Absent
<1> DEFINE steps == [i \in 1 .. Len(Steps[e]) |-> "Pending"]
<1>1. /\ steps \in [Numbers(e) -> StepStates]
      /\ \A i \in Numbers(e) : steps[i] = "Pending"
  BY Zenon DEF Numbers, StepStates
<1>2. r = [state |-> "Queued", steps |-> steps, cancellation_requested |-> FALSE,
           started |-> FALSE, cron |-> cron]
  BY Zenon DEF Queued, Absent
<1> HIDE DEF steps
<1>3. r \in Record(e) /\ r.state = "Queued" /\ r.cron = cron /\ r.steps = steps
  BY <1>1, <1>2 DEF Record, States
<1>4. Quiet(e, r)
  BY <1>1, <1>3, Zenon DEF Quiet
<1>5. Sound(e, r, given)
  BY <1>1, <1>3, <1>4, NumbersAre, Zenon DEF Sound
<1>6. r # Absent
  BY <1>3, NotAbsent, Zenon
<1> QED BY <1>3, <1>5, <1>6, Zenon

(* The admission of one execution, by a caller or by the schedule. *)
LEMMA Admits ==
    ASSUME IInv, NEW e \in Fresh, NEW cron \in BOOLEAN, cron => NotAdmitted, NEW r, r = Queued(e, cron),
           disk' = [disk EXCEPT ![e] = r],
           executions' = [executions EXCEPT ![e] = r] \/ (executions' = executions /\ ~cron),
           Others', late' = late, dispatcher'.ids = dispatcher.ids,
           UNCHANGED <<running, task, effects, consents>>
    PROVE  IInv'
<1>1. /\ e \in Executions /\ executions[e] = Absent /\ disk[e] = Absent /\ Maps
      /\ Good(e, executions[e], disk[e], running[e], task[e], effects[e], consents)
      /\ effects[e] \in [Numbers(e) -> Nat]
  BY Zenon DEF Fresh, IInv, Others
<1>2. Sound(e, r, consents) /\ r.cron = cron /\ r # Absent
  BY <1>1, QueuedIs, Zenon
<1>3. /\ Maps' /\ disk'[e] = r /\ (executions'[e] = r \/ (executions'[e] = Absent /\ ~cron))
      /\ \A f \in Executions : f # e => executions'[f] = executions[f] /\ disk'[f] = disk[f]
  <2>1. PerExecution(disk') /\ disk'[e] = r /\ \A f \in Executions : f # e => disk'[f] = disk[f]
    BY <1>1, Zenon DEF PerExecution, Maps
  <2>2. /\ PerExecution(executions') /\ (executions'[e] = r \/ (executions'[e] = Absent /\ ~cron))
        /\ \A f \in Executions : f # e => executions'[f] = executions[f]
    BY <1>1, Zenon DEF PerExecution, Maps
  <2> QED BY <2>1, <2>2, Zenon DEF Maps
<1>4. task[e] = NoTask /\ \A i \in Numbers(e) : ~(effects[e][i] > 0)
  BY <1>1, Zenon DEF Good, Kept, Begun
<1>5. Absent.cron = FALSE
  BY Zenon DEF Absent
<1>6. Kept(e, executions'[e], disk'[e], effects[e], consents)
  BY <1>2, <1>3, <1>4, <1>5, Zenon DEF Kept
<1>7. TaskOK(e, executions'[e], disk'[e], NoTask, effects[e], consents)
  BY Zenon DEF TaskOK, NoTask, LivePcs
<1>8. Good(e, executions'[e], disk'[e], running'[e], task'[e], effects'[e], consents')
  BY <1>4, <1>6, <1>7, Zenon DEF Good
<1>9. executions'[e].cron => \A f \in Executions : ~executions[f].cron
  BY <1>2, <1>3, <1>5, Zenon DEF NotAdmitted
<1> QED BY <1>1, <1>3, <1>8, <1>9, Lifts

(* start. *)
LEMMA StartStep ==
    ASSUME IInv, start
    PROVE  IInv'
<1>1. Next_id \in Fresh
  BY NextIs, Zenon DEF start
<1>2. PICK e : e = Next_id
  BY Zenon
<1>3. PICK r : r = Queued(e, FALSE)
  BY Zenon
<1>4. /\ disk' = [disk EXCEPT ![e] = r]
      /\ executions' = [executions EXCEPT ![e] = r] \/ executions' = executions
      /\ NoTrouble \/ Failure
      /\ UNCHANGED <<running, task, late, dispatcher, clock, effects, signalling, consents>>
  BY <1>2, <1>3, Zenon DEF start, calls
<1>5. Others'
  BY <1>4, Uses, Zenon DEF IInv, Others, PerExecution
<1> QED BY <1>1, <1>2, <1>3, <1>4, <1>5, Admits, Zenon

(* admit_schedules. *)
LEMMA AdmitStep ==
    ASSUME IInv, admit_schedules
    PROVE  IInv'
<1>1. /\ UNCHANGED <<running, task, late, clock, effects, signalling, consents, used>>
      /\ dispatcher' = [dispatcher EXCEPT !.pc = "expire"] /\ Others
  BY Zenon DEF admit_schedules, calls, IInv
<1>2. /\ dispatcher' \in [pc : {"select", "expire", "expiring", "claim"}, ids : SUBSET Executions]
      /\ dispatcher'.ids = dispatcher.ids
  BY <1>1, Zenon DEF Others
<1>3. Others'
  BY <1>1, <1>2, Zenon DEF Others, PerExecution
<1>4. CASE UNCHANGED <<executions, disk>>
  BY <1>1, <1>2, <1>3, <1>4, Idles, Zenon
<1>5. CASE ~UNCHANGED <<executions, disk>>
  <2>1. Fresh # {} /\ NotAdmitted
    BY <1>5, Zenon DEF admit_schedules
  <2>2. PICK e : e = Next_id
    BY Zenon
  <2>3. PICK r : r = Queued(e, TRUE)
    BY Zenon
  <2>4. disk' = [disk EXCEPT ![e] = r] /\ executions' = [executions EXCEPT ![e] = r]
    BY <1>5, <2>2, <2>3, Zenon DEF admit_schedules
  <2> QED BY <1>1, <1>2, <1>3, <2>1, <2>2, <2>3, <2>4, NextIs, Admits, Zenon
<1> QED BY <1>4, <1>5, Zenon

(* The first pending step was not started, and stands behind no open approval. *)
LEMMA LoopsOn ==
    ASSUME IInv, NEW e \in Executions, task[e].pc = "loop", NEW next,
           next = IF Pending(e) = {} THEN 0
                  ELSE CHOOSE i \in Pending(e) : \A j \in Pending(e) : i <= j
    PROVE  /\ next \in Nat
           /\ next # 0 => next \in Numbers(e) /\ Cleared(e, next, consents) /\ effects[e][next] = 0
<1>1. /\ Sound(e, executions[e], consents) /\ Kept(e, executions[e], disk[e], effects[e], consents)
      /\ executions[e] \in Record(e)
      /\ TaskOK(e, executions[e], disk[e], task[e], effects[e], consents)
  BY AtWork, Zenon
<1>2. Quiet(e, executions[e]) /\ effects[e] \in [Numbers(e) -> Nat]
  BY <1>1, Zenon DEF TaskOK, LivePcs, IInv, Others
<1>3. Pending(e) = {i \in Numbers(e) : executions[e].steps[i] = "Pending"}
  BY <1>1, Zenon DEF Record, Pending
<1>4. CASE Pending(e) = {}
  BY <1>4, Zenon
<1>5. CASE Pending(e) # {}
  <2>1. Pending(e) \in SUBSET Nat
    BY <1>3, NumbersAre, Zenon
  <2>2. \E i \in Pending(e) : \A j \in Pending(e) : i <= j
    BY <1>5, <2>1, LeastIs, Zenon
  <2>3. next \in Pending(e) /\ \A j \in Pending(e) : next <= j
    BY <1>5, <2>2, Zenon
  <2>4. next \in Numbers(e) /\ executions[e].steps[next] = "Pending" /\ next \in Nat
    BY <1>3, <2>1, <2>3, Zenon
  <2>5. \A j \in 1 .. next - 1 : executions[e].steps[j] # "Pending"
    <3> SUFFICES ASSUME NEW j \in 1 .. next - 1 PROVE j \notin Pending(e) /\ j \in Numbers(e)
      BY <1>3, Zenon
    <3>1. j \in Numbers(e)
      BY <2>4, NumbersAre, Zenon
    <3>2. j \in Nat /\ ~(next <= j)
      BY <2>4
    <3> QED BY <2>3, <3>1, <3>2
  <2>6. effects[e][next] = 0
    BY <1>1, <1>2, <2>4 DEF Kept, Begun
  <2>7. Cleared(e, next, consents)
    BY <1>1, <1>2, <2>4, <2>5, NumbersAre, Zenon DEF Cleared, Sound, Quiet
  <2> QED BY <2>4, <2>6, <2>7, Zenon
<1> QED BY <1>4, <1>5, Zenon

(* The head of its loop: cancellation, deadline, the next pending step. *)
LEMMA RunStep ==
    ASSUME IInv, NEW e \in Executions, run(e)
    PROVE  IInv'
<1>1. task[e].pc = "loop" /\ UNCHANGED <<running, late, dispatcher, clock, effects, calls>>
  BY Zenon DEF run
<1>2. /\ executions[e] # Absent /\ Sound(e, executions[e], consents) /\ task[e] \in [pc : Pcs, step : Nat]
      /\ TaskOK(e, executions[e], disk[e], task[e], effects[e], consents)
  BY <1>1, AtWork, Zenon
<1>3. ASSUME NEW r, r = cancel_execution(executions[e]) \/ r = fail_execution(executions[e]),
             update_execution(e, r, "leave", "error")
      PROVE  IInv'
  <2>1. Follows(e, executions[e], r, consents)
    BY <1>2, <1>3, CancelCloses, FailCloses, Zenon DEF Closes
  <2> QED BY <1>1, <1>3, <2>1, LastUpdate, Zenon
<1>4. PICK next : next = IF Pending(e) = {} THEN 0
                         ELSE CHOOSE i \in Pending(e) : \A j \in Pending(e) : i <= j
  OBVIOUS
<1>5. ASSUME NEW t, task' = [task EXCEPT ![e] = t], NoTrouble, UNCHANGED <<executions, disk>>,
             t = IF is_terminal(executions[e]) THEN [task[e] EXCEPT !.pc = "leave"]
                 ELSE [pc |-> "begin", step |-> next]
      PROVE  IInv'
  <2>1. /\ next \in Nat
        /\ next # 0 => next \in Numbers(e) /\ Cleared(e, next, consents) /\ effects[e][next] = 0
    BY <1>1, <1>4, LoopsOn
  <2>2. /\ t \in [pc : Pcs, step : Nat]
        /\ t.pc = "leave" \/ (t.pc = "begin" /\ t.step = next)
    BY <1>2, <1>5, <2>1, Zenon DEF Pcs
  <2>3. TaskOK(e, executions[e], disk[e], t, effects[e], consents)
    BY <1>1, <1>2, <2>1, <2>2, Zenon DEF TaskOK, LivePcs
  <2> QED BY <1>1, <1>5, <2>2, <2>3, TaskGoes, Zenon
<1>6. \/ update_execution(e, cancel_execution(executions[e]), "leave", "error")
      \/ update_execution(e, fail_execution(executions[e]), "leave", "error")
      \/ /\ NoTrouble /\ UNCHANGED <<executions, disk>>
         /\ task' = [task EXCEPT ![e] = IF is_terminal(executions[e]) THEN [task[e] EXCEPT !.pc = "leave"]
                                        ELSE [pc |-> "begin", step |-> next]]
  BY <1>4, Zenon DEF run
<1> QED BY <1>3, <1>5, <1>6, Zenon

(* The steps of a task. *)
LEMMA TaskSteps ==
    ASSUME IInv, NEW e \in Executions, TaskStep(e) \/ finish_step(e) \/ wait_for_turn(e)
    PROVE  IInv'
BY RunExecutionStep, RunStep, BeginStep, ExecuteStep, LeaveStep, FailLateStep, FinishStep, WaitForTurnStep, Zenon
   DEF TaskStep

(* An admitted execution is queued, and takes no slot. *)
LEMMA SlotsAdmit ==
    ASSUME IInv, Slots, start \/ admit_schedules
    PROVE  TakesNone
<1>1. /\ UNCHANGED <<task, late, clock>>
      /\ dispatcher'.ids = dispatcher.ids /\ (dispatcher'.pc # "expiring" => dispatcher'.ids = {})
  BY Zenon DEF start, admit_schedules, IInv, Others, Slots, Clocks
<1>2. \A e \in Executions : used.failures = 0 => task[e].pc # "error"
  BY Zenon DEF Slots, Tight
<1>5. used'.failures = 0 => used.failures = 0 /\ late' = late
  BY <1>1, Failing, Zenon DEF start, admit_schedules
<1>6. /\ \A e, f \in Executions : f # e => task'[f] = task[f]
      /\ \A e \in Executions : used'.failures = 0 =>
            task'[e].pc # "error" /\ (task'[e].pc \in LivePcs => task[e].pc \in LivePcs)
      /\ dispatcher'.ids \subseteq dispatcher.ids /\ clock' = clock
  BY <1>1, <1>2, <1>5, Zenon
<1>3. CASE UNCHANGED <<executions, disk>>
  <2>2. CASE Executions = {}
    BY <1>1, <1>3, <1>5, <2>2, Zenon DEF Slots, Clocks, Active, TakesNone
  <2>3. CASE Executions # {}
    <3>1. PICK e \in Executions : TRUE
      BY <2>3, Zenon
    <3> QED BY <1>1, <1>3, <1>5, <1>6, <3>1, SlotsStay, Zenon
  <2> QED BY <2>2, <2>3, Zenon
<1>4. CASE ~UNCHANGED <<executions, disk>>
  <2>1. Fresh # {}
    BY <1>4, Zenon DEF start, admit_schedules
  <2>2. PICK e : e = Next_id
    BY Zenon
  <2>3. PICK cron \in BOOLEAN :
           /\ disk' = [disk EXCEPT ![e] = Queued(e, cron)]
           /\ \/ executions' = [executions EXCEPT ![e] = Queued(e, cron)] /\ NoTrouble
              \/ executions' = executions /\ Failure
    BY <1>4, <2>2, Zenon DEF start, admit_schedules, NoTrouble
  <2>4. PICK r : r = Queued(e, cron)
    BY Zenon
  <2>5. e \in Executions /\ executions[e] = Absent /\ task[e] = NoTask
    BY <2>1, <2>2, NextIs, Zenon DEF Fresh, IInv, Good
  <2>6. r.state = "Queued" /\ r.state \notin InProgress /\ task[e].pc \notin LivePcs
    BY <2>4, <2>5, QueuedIs DEF InProgress, LivePcs, NoTask
  <2>7. CASE executions' = [executions EXCEPT ![e] = r] /\ NoTrouble
    <3>1. used'.failures = 0 => used.failures = 0 /\ disk' = [disk EXCEPT ![e] = r] /\ late' = late
      BY <1>5, <2>3, <2>4, Zenon
    <3>2. r.state # "WaitingForInput"
      BY <2>6, Zenon
    <3>3. used'.failures = 0 =>
               /\ task'[e].pc # "error"
               /\ task'[e].pc \in LivePcs => task[e].pc \in LivePcs /\ r.state \in InProgress
      BY <1>6, <2>5, <2>6, Zenon
    <3> QED BY <1>1, <1>6, <2>5, <2>6, <2>7, <3>1, <3>2, <3>3, SlotsOne, Zenon
  <2>8. CASE executions' = executions /\ Failure
    <3>1. used'.failures # 0
      BY <2>8, Failing, Zenon
    <3> QED BY <1>1, <1>6, <2>5, <2>8, <3>1, SlotsStay, Zenon
  <2> QED BY <2>3, <2>4, <2>7, <2>8, Zenon
<1> QED BY <1>3, <1>4, Zenon

-----------------------------------------------------------------------------
(* The invariant holds.                                                    *)

(* It holds at first. *)
LEMMA InitIInv == Init => IInv
<1> SUFFICES ASSUME Init PROVE IInv
  BY Zenon
<1>1. Maps
  BY Zenon DEF Init, Maps, PerExecution
<1>2. Others
  <2>1. task \in [Executions -> [pc : Pcs, step : Nat]]
    BY Zenon DEF Init, NoTask, Pcs
  <2>2. PerExecution(effects) /\ \A e \in Executions : effects[e] \in [Numbers(e) -> Nat]
    BY Zenon DEF Init, PerExecution, Numbers
  <2>3. dispatcher \in [pc : {"select", "expire", "expiring", "claim"}, ids : SUBSET Executions]
    BY Zenon DEF Init, Idle
  <2> QED BY <2>1, <2>2, <2>3, Zenon DEF Init, Others
<1>3. ASSUME NEW e \in Executions
      PROVE  /\ Good(e, executions[e], disk[e], running[e], task[e], effects[e], consents)
             /\ ~(late[e] > 0 \/ e \in dispatcher.ids) /\ ~executions[e].cron
  <2>1. /\ executions[e] = Absent /\ disk[e] = Absent /\ running[e] = "none" /\ task[e] = NoTask
        /\ late[e] = 0 /\ dispatcher.ids = {} /\ \A i \in Numbers(e) : effects[e][i] = 0
    BY Zenon DEF Init, Idle, Numbers
  <2>2. Kept(e, executions[e], disk[e], effects[e], consents)
    BY <2>1 DEF Kept
  <2>3. TaskOK(e, executions[e], disk[e], task[e], effects[e], consents)
    BY <2>1, RestOK DEF NoTask
  <2> QED BY <2>1, <2>2, <2>3 DEF Good, Absent
<1> QED BY <1>1, <1>2, <1>3, Zenon DEF IInv

(* Every step keeps it. *)
LEMMA IInvStep == IInv /\ [Next]_vars => IInv'
<1> SUFFICES ASSUME IInv, [Next]_vars PROVE IInv'
  BY Zenon
<1>1. CASE UNCHANGED vars
  <2>1. Others'
    BY <1>1 DEF vars, IInv, Others, PerExecution
  <2> QED BY <1>1, <2>1, Idles, Zenon DEF vars
<1>2. ASSUME NEW e \in Executions, cancel(e) \/ signal(e) \/ Tick(e) PROVE IInv'
  BY <1>2, CancelStep, SignalStep, TickStep, Zenon
<1>3. ASSUME NEW e \in Executions, NEW approve \in BOOLEAN, resolve_approval(e, approve) PROVE IInv'
  BY <1>3, ResolveStep, Zenon
<1>4. ASSUME NEW e \in Executions, TaskStep(e) \/ finish_step(e) \/ wait_for_turn(e) PROVE IInv'
  BY <1>4, TaskSteps, Zenon
<1>5. CASE start \/ DispatcherStep \/ Restart
  BY <1>5, StartStep, AdmitStep, ExpireStep, ClaimStep, RestartStep, Zenon DEF DispatcherStep
<1> QED BY <1>1, <1>2, <1>3, <1>4, <1>5, Zenon DEF Next

(* It holds always. *)
LEMMA Invariance == Spec => []IInv
BY InitIInv, IInvStep, PTL DEF Spec

(* The work of a step is started at most once: whatever run_execution, the approvals, *)
(* failed writes and restarts do, a step that was handed out is never pending again,  *)
(* neither in memory nor on disk.                                                     *)
THEOREM WorkStartsOnce == Spec => []StepsRunOnce
<1>1. IInv => StepsRunOnce
  <2> SUFFICES ASSUME IInv, NEW e \in Executions, NEW i \in DOMAIN effects[e] PROVE effects[e][i] <= 1
    BY Zenon DEF StepsRunOnce
  <2>1. effects[e] \in [Numbers(e) -> Nat] /\ Kept(e, executions[e], disk[e], effects[e], consents)
    BY DEF IInv, Others, Good
  <2>2. effects[e][i] \in Nat /\ (effects[e][i] > 0 => effects[e][i] = 1)
    BY <2>1, Zenon DEF Kept
  <2> QED BY <2>2
<1> QED BY <1>1, Invariance, PTL

(* No step starts before every approval in front of it was given to resolve_approval. *)
THEOREM ApprovalsHold == Spec => []ApprovalGate
<1>1. IInv => ApprovalGate
  <2> SUFFICES ASSUME IInv, NEW e \in Executions, NEW i \in DOMAIN effects[e], NEW j \in 1 .. i - 1,
                      effects[e][i] > 0, Steps[e][j].kind = "approval"
               PROVE  <<e, j>> \in consents
    BY Zenon DEF ApprovalGate
  <2>1. effects[e] \in [Numbers(e) -> Nat] /\ Kept(e, executions[e], disk[e], effects[e], consents)
    BY Zenon DEF IInv, Others, Good
  <2>2. Cleared(e, i, consents)
    BY <2>1, Zenon DEF Kept
  <2> QED BY <2>2, Zenon DEF Cleared, IsApproval
<1> QED BY <1>1, Invariance, PTL

(* admit_schedules admits an occurrence at most once, in memory and on disk. *)
THEOREM OccurrenceOnce == Spec => []ScheduledOnce
<1>1. IInv => ScheduledOnce
  <2> SUFFICES ASSUME IInv PROVE ScheduledOnce
    BY Zenon
  <2> DEFINE S == {e \in Executions : executions[e].cron \/ disk[e].cron}
  <2>1. \A e \in Executions : disk[e].cron = executions[e].cron
    BY Zenon DEF IInv, Good, Kept
  <2>2. \A e, f \in S : e = f
    BY <2>1, Zenon DEF IInv
  <2> HIDE DEF S
  <2>3. CASE S = {}
    <3>1. Cardinality(S) = 0
      BY <2>3, FS_EmptySet, Zenon
    <3> QED BY <3>1 DEF ScheduledOnce, S
  <2>4. CASE S # {}
    <3>1. PICK e : S = {e}
      BY <2>2, <2>4
    <3>2. Cardinality(S) = 1
      BY <3>1, FS_Singleton, Zenon
    <3> QED BY <3>2 DEF ScheduledOnce, S
  <2> QED BY <2>3, <2>4, Zenon
<1> QED BY <1>1, Invariance, PTL

-----------------------------------------------------------------------------
(* The limit.                                                              *)

(* Fewer executions in progress stay within the limit. *)
LEMMA FewerActive ==
    ASSUME NEW S, NEW T \in SUBSET Executions, S \subseteq T, Cardinality(T) <= Limit
    PROVE  Cardinality(S) <= Limit
<1>1. N \in Nat /\ Limit \in Nat
  BY AutomationsAssumption, Zenon
<1>2. IsFiniteSet(Executions)
  BY <1>1, FS_Interval DEF Executions
<1>3. IsFiniteSet(T)
  BY <1>2, FS_Subset, Zenon
<1>4. IsFiniteSet(S) /\ Cardinality(S) <= Cardinality(T)
  BY <1>3, FS_Subset, Zenon
<1>5. Cardinality(S) \in Nat /\ Cardinality(T) \in Nat
  BY <1>3, <1>4, FS_CardinalityType, Zenon
<1> QED BY <1>1, <1>4, <1>5

(* What is claimed fits under the limit: the last claim counts the ones before it. *)
LEMMA ClaimsFit ==
    ASSUME Cardinality(Active) <= Limit
    PROVE  Cardinality(Active \cup Claims) <= Limit
<1>1. N \in Nat /\ Limit \in Nat /\ Executions = 1 .. N
  BY AutomationsAssumption, Zenon DEF Executions
<1>2. IsFiniteSet(Executions)
  BY <1>1, FS_Interval
<1>3. Active \subseteq Executions /\ Claims \subseteq Claimable /\ Claimable \subseteq Executions
  BY Zenon DEF Active, Claims, Claimable
<1>4. CASE Claims = {}
  <2>1. Active \cup Claims = Active
    BY <1>4, Zenon
  <2> QED BY <2>1, Zenon
<1>5. CASE Claims # {}
  <2>1. PICK S : S = {N - e : e \in Claims}
    BY Zenon
  <2>2. S \in SUBSET Nat /\ S # {}
    <3>1. \A e \in Claims : N - e \in Nat
      BY <1>1, <1>3
    <3> QED BY <1>5, <2>1, <3>1, Zenon
  <2>3. PICK x \in S : \A y \in S : x <= y
    BY <2>2, LeastIs, Zenon
  <2>4. PICK m \in Claims : x = N - m
    BY <2>1, <2>3, Zenon
  <2>5. \A e \in Claims : e <= m
    <3> SUFFICES ASSUME NEW e \in Claims PROVE e <= m
      BY Zenon
    <3>1. N - e \in S
      BY <2>1, Zenon
    <3>2. N - m <= N - e
      BY <2>3, <2>4, <3>1, Zenon
    <3>3. e \in 1 .. N /\ m \in 1 .. N
      BY <1>1, <1>3, Zenon
    <3> QED BY <1>1, <3>2, <3>3
  <2>6. Claims \subseteq Before(m) \cup {m}
    BY <1>1, <1>3, <2>5 DEF Before
  <2>7. PICK B : B = Before(m)
    BY Zenon
  <2>8. B \subseteq Executions
    BY <1>3, <2>7, Zenon DEF Before
  <2>9. Cardinality(Active) + Cardinality(B) < Limit
    BY <2>7, Zenon DEF Claims
  <2>10. IsFiniteSet(Active) /\ IsFiniteSet(B)
    BY <1>2, <1>3, <2>8, FS_Subset, Zenon
  <2>11. /\ IsFiniteSet(Active \cup B) /\ IsFiniteSet(Active \cap B)
         /\ Cardinality(Active \cup B) = Cardinality(Active) + Cardinality(B) - Cardinality(Active \cap B)
    BY <2>10, FS_Union, FS_Intersection, Zenon
  <2>12. /\ Cardinality(Active) \in Nat /\ Cardinality(B) \in Nat /\ Cardinality(Active \cap B) \in Nat
         /\ Cardinality(Active \cup B) \in Nat
    BY <2>10, <2>11, FS_CardinalityType, Zenon
  <2>13. Cardinality((Active \cup B) \cup {m}) <= Cardinality(Active \cup B) + 1
    <3>1. PICK A : A = Active \cup B
      BY Zenon
    <3>2. Cardinality(A \cup {m}) = IF m \in A THEN Cardinality(A) ELSE Cardinality(A) + 1
      BY <2>11, <3>1, FS_AddElement, Zenon
    <3> QED BY <2>12, <3>1, <3>2
  <2>14. IsFiniteSet((Active \cup B) \cup {m})
    BY <2>11, FS_AddElement, Zenon
  <2>15. Cardinality((Active \cup B) \cup {m}) \in Nat
    BY <2>14, FS_CardinalityType, Zenon
  <2>16. Cardinality((Active \cup B) \cup {m}) <= Limit
    BY <1>1, <2>9, <2>11, <2>12, <2>13, <2>15
  <2>17. /\ Active \cup Claims \subseteq (Active \cup B) \cup {m}
         /\ (Active \cup B) \cup {m} \in SUBSET Executions
    BY <1>3, <2>6, <2>7, <2>8, Zenon
  <2> QED BY <2>16, <2>17, FewerActive, Zenon
<1> QED BY <1>4, <1>5, Zenon

(* Nothing is in progress at first. *)
LEMMA InitSlots == Init => Slots /\ Active = {}
<1> SUFFICES ASSUME Init PROVE Slots /\ Active = {}
  BY Zenon
<1>1. \A e \in Executions : executions[e].state = "Absent" /\ clock[e] = "no"
  BY Zenon DEF Init, Absent
<1>2. Clocks
  BY <1>1, Zenon DEF Clocks, Init, Idle
<1>3. Active = {}
  BY <1>1, Zenon DEF Active, InProgress
<1>4. \A e \in Executions : Tight(e)
  BY Zenon DEF Tight, Init, NoTask, LivePcs
<1> QED BY <1>2, <1>3, <1>4, Zenon DEF Slots, Init

(* No step but claim_queued takes a slot. *)
LEMMA SlotsStep ==
    ASSUME TimedAgents = {}, IInv, Slots, [Next]_vars
    PROVE  TakesNone \/ claim_queued
<1>1. CASE UNCHANGED vars
  <2>1. Active' = Active /\ (Clocks => Clocks') /\ \A e \in Executions : Tight(e) => Tight(e)'
    BY <1>1, Zenon DEF vars, Active, Clocks, Tight
  <2> QED BY <1>1, <2>1, Zenon DEF vars, Slots, TakesNone
<1>2. ASSUME NEW e \in Executions, cancel(e) \/ signal(e) \/ Tick(e) PROVE TakesNone
  BY <1>2, SlotsCalls, SlotsTick, Zenon
<1>3. ASSUME NEW e \in Executions, NEW approve \in BOOLEAN, resolve_approval(e, approve) PROVE TakesNone
  BY <1>3, SlotsCalls, Zenon
<1>4. ASSUME NEW e \in Executions, TaskStep(e) \/ finish_step(e) \/ wait_for_turn(e) PROVE TakesNone
  BY <1>4, SlotsRuns, SlotsBegin, SlotsLeave, SlotsFailLate, SlotsWork, Zenon DEF TaskStep
<1>5. CASE start \/ DispatcherStep \/ Restart
  BY <1>5, SlotsAdmit, SlotsExpire, SlotsRestart, Zenon DEF DispatcherStep
<1> QED BY <1>1, <1>2, <1>3, <1>4, <1>5, Zenon DEF Next

(* Every step stays within the limit. *)
LEMMA LimitStep ==
    ASSUME TimedAgents = {}, IInv, Slots, ActiveWithinLimit, [Next]_vars
    PROVE  Slots' /\ ActiveWithinLimit'
<1>1. Slots' /\ (used'.failures = 0 => used.failures = 0 /\ Active' \subseteq Active \cup Claims)
  BY SlotsStep, SlotsClaim, Zenon DEF TakesNone
<1>2. ASSUME used'.failures = 0 PROVE Cardinality(Active') <= Limit
  <2>1. Cardinality(Active \cup Claims) <= Limit
    BY <1>1, <1>2, ClaimsFit, Zenon DEF ActiveWithinLimit
  <2>2. Active \cup Claims \in SUBSET Executions
    BY Zenon DEF Active, Claims, Claimable
  <2> QED BY <1>1, <1>2, <2>1, <2>2, FewerActive, Zenon
<1> QED BY <1>1, <1>2, Zenon DEF ActiveWithinLimit

(* At most Limit executions are in progress, whatever is claimed, resumed, canceled, *)
(* expired and restarted, as long as no write failed and no execution with a         *)
(* timeout has an agent step.  Without the latter the deadline that ends a waiting   *)
(* execution frees its slot although its task still works: see TerminalIsFinal.      *)
THEOREM LimitHolds ==
    ASSUME TimedAgents = {}
    PROVE  Spec => []ActiveWithinLimit
<1>1. Init => Slots /\ ActiveWithinLimit
  <2> SUFFICES ASSUME Init PROVE Slots /\ ActiveWithinLimit
    BY Zenon
  <2>1. Slots /\ Active = {}
    BY InitSlots, Zenon
  <2>2. Cardinality(Active) = 0
    BY <2>1, FS_EmptySet, Zenon
  <2>3. Cardinality(Active) <= Limit
    BY <2>2, AutomationsAssumption
  <2> QED BY <2>1, <2>3, Zenon DEF ActiveWithinLimit
<1>2. IInv /\ Slots /\ ActiveWithinLimit /\ [Next]_vars => Slots' /\ ActiveWithinLimit'
  BY LimitStep, Zenon
<1> QED BY <1>1, <1>2, Invariance, PTL DEF Spec

=============================================================================
