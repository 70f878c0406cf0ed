----------------------------- MODULE MuxSelect -----------------------------
(***************************************************************************)
(* How the multiplexer's writer chooses the next frame (tascarrel-mux,     *)
(* driver.rs, select_frame and ordered_states): the queue of connection    *)
(* control frames, then the control frames of the channels, then DATA; a   *)
(* burst of control frames puts DATA first.  Channels are served in        *)
(* ascending order after a cursor, wrapping once.                          *)
(***************************************************************************)
EXTENDS Integers, FiniteSets

CONSTANT ControlBurst \* control_burst

\* Config::validate.
ASSUME BurstAssumption == ControlBurst \in Nat \ {0}

\* The first in ascending order.
Least(S) == CHOOSE i \in S : \A j \in S : i <= j

\* Mutant: the range after the cursor includes the cursor itself.
FirstFromCursor(cursor, ready) ==
    LET after == {id \in ready : id >= cursor}
    IN  Least(IF after # {} THEN after ELSE ready)

\* ordered_states: the first ready channel after the cursor, or the first of all.
FirstAfter(cursor, ready) ==
    LET after == {id \in ready : id > cursor}
    IN  Least(IF after # {} THEN after ELSE ready)

\* Mutant: DATA always has priority.
AlwaysForceData(control_count) == TRUE

force_data(control_count) == control_count >= ControlBurst

\* select_frame: which of the three sources supplies the next frame.
Source(queued, control, data, control_count) ==
    LET First(order) == order[Least({i \in 1 .. 3 : order[i].some})].name
        q == [name |-> "queue", some |-> queued]
        c == [name |-> "control", some |-> control # {}]
        d == [name |-> "data", some |-> data # {}]
    IN  IF ~queued /\ control = {} /\ data = {} THEN "none"
        ELSE First(IF force_data(control_count) THEN <<d, q, c>> ELSE <<q, c, d>>)

\* writer_loop: control frames written since the last DATA frame.
CountControl(control_count, kind) ==
    IF kind = "DATA" THEN 0 ELSE Least({control_count + 1, ControlBurst})

=============================================================================
