---------------------------- MODULE MuxScheduler ----------------------------
(***************************************************************************)
(* The writer's choice of frames over a long run (tascarrel-mux,           *)
(* driver.rs, writer_loop).  The applications and the reader make frames   *)
(* ready in any order and number, channels come and go; the writer takes   *)
(* one frame at a time by the rules of MuxSelect.                          *)
(*                                                                         *)
(* overtaken, controls_sent and data_run are auxiliary: they count what    *)
(* the writer sends while something else stays ready.                      *)
(***************************************************************************)
EXTENDS MuxSelect

CONSTANT
    Ids,      \* identifiers of the channels
    Overtakes \* bound: times one channel may be counted ahead of another

ASSUME IdsAssumption == Ids \subseteq Nat /\ IsFiniteSet(Ids) /\ Overtakes \in Nat \ {0, 1}

VARIABLES
    queued,         \* the control queue is not empty
    control,        \* channels with a RESET, WINDOW, FIN or CLOSED to send
    data,           \* channels with output and credit
    control_cursor, \* channel of the last control frame
    data_cursor,    \* channel of the last DATA frame
    control_count,  \* control frames since the last DATA, saturating
    overtaken,      \* overtaken[i][j]: DATA frames of j sent while i was ready
    controls_sent,  \* control frames sent while some channel had DATA ready
    data_run        \* DATA frames sent in a row while a control frame was ready

scheduler_vars == <<queued, control, data, control_cursor, data_cursor,
                    control_count, overtaken, controls_sent, data_run>>

ready == <<queued, control, data>>
counts == <<overtaken, controls_sent, data_run>>

\* The counters of the properties saturate just above what they must not exceed.
Up(n, bound) == Least({n + 1, bound})

SchedulerInit ==
    /\ queued = FALSE /\ control = {} /\ data = {}
    /\ control_cursor = 0 /\ data_cursor = 0 /\ control_count = 0
    /\ overtaken = [i \in Ids |-> [j \in Ids |-> 0]]
    /\ controls_sent = 0 /\ data_run = 0

\* The application or the reader makes a frame ready.
Queue ==
    /\ ~queued /\ queued' = TRUE
    /\ UNCHANGED <<control, data, control_cursor, data_cursor, control_count, counts>>

ControlReady(i) ==
    /\ i \notin control /\ control' = control \union {i}
    /\ UNCHANGED <<queued, data, control_cursor, data_cursor, control_count, counts>>

DataReady(i) ==
    /\ i \notin data /\ data' = data \union {i}
    /\ UNCHANGED <<queued, control, control_cursor, data_cursor, control_count, counts>>

\* A channel is reset by the peer: nothing of it is ready any more.
Removed(i) ==
    /\ i \in control \union data
    /\ control' = control \ {i} /\ data' = data \ {i}
    /\ overtaken' = [overtaken EXCEPT ![i] = [j \in Ids |-> 0]]
    /\ controls_sent' = IF data' = {} THEN 0 ELSE controls_sent
    /\ data_run' = IF queued \/ control' # {} THEN data_run ELSE 0
    /\ UNCHANGED <<queued, control_cursor, data_cursor, control_count>>

source == Source(queued, control, data, control_count)

\* A control frame of the connection; more of them may be behind it.
SendQueued ==
    /\ source = "queue"
    /\ queued' \in BOOLEAN
    /\ control_count' = CountControl(control_count, "OPEN")
    /\ controls_sent' = IF data = {} THEN 0 ELSE Up(controls_sent, ControlBurst + 1)
    /\ data_run' = 0
    /\ UNCHANGED <<control, data, control_cursor, data_cursor, overtaken>>

\* A control frame of a channel; the channel may have another.
SendControl ==
    /\ source = "control"
    /\ LET i == FirstAfter(control_cursor, control)
       IN  control_cursor' = i /\ control' \in {control, control \ {i}}
    /\ control_count' = CountControl(control_count, "WINDOW")
    /\ controls_sent' = IF data = {} THEN 0 ELSE Up(controls_sent, ControlBurst + 1)
    /\ data_run' = 0
    /\ UNCHANGED <<queued, data, data_cursor, overtaken>>

\* A DATA frame; the channel may have more output and credit.
SendData ==
    /\ source = "data"
    /\ LET j == FirstAfter(data_cursor, data)
       IN  /\ data_cursor' = j
           /\ data' \in {data, data \ {j}}
           /\ overtaken' = [i \in Ids |-> IF i = j THEN [k \in Ids |-> 0]
                                          ELSE IF i \in data
                                          THEN [overtaken[i] EXCEPT ![j] = Up(@, Overtakes)]
                                          ELSE overtaken[i]]
    /\ control_count' = CountControl(control_count, "DATA")
    /\ controls_sent' = 0
    /\ data_run' = IF queued \/ control # {} THEN Up(data_run, 2) ELSE 0
    /\ UNCHANGED <<queued, control, control_cursor>>

SchedulerNext ==
    \/ Queue
    \/ \E i \in Ids : ControlReady(i) \/ DataReady(i) \/ Removed(i)
    \/ SendQueued \/ SendControl \/ SendData

SchedulerSpec == SchedulerInit /\ [][SchedulerNext]_scheduler_vars

-----------------------------------------------------------------------------
(* select_frame and ordered_states between them starve no channel: while   *)
(* one has DATA ready, at most control_burst control frames are sent       *)
(* before a DATA frame, and no other channel sends two DATA frames,        *)
(* whatever channels come, go or refill.                                   *)
DataNotStarved ==
    \A i \in data : controls_sent <= ControlBurst /\ \A j \in Ids : overtaken[i][j] <= 1

(* The priority DATA gets after a burst lasts for one frame: a ready       *)
(* control frame never waits for two DATA frames in a row.                 *)
ControlNotStarved == queued \/ control # {} => data_run <= 1

=============================================================================
