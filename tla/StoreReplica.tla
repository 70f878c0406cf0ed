---------------------------- MODULE StoreReplica ----------------------------
(***************************************************************************)
(* What tascarrel-store promises: an authoritative state goes through a    *)
(* totally ordered history, and each consumer's replica is always a state  *)
(* of that history and only moves forward in it.  A replica may skip       *)
(* states, when it is rebased with a snapshot.  A state is the value with  *)
(* its stamp; generations are numbered in the order they are started.      *)
(***************************************************************************)
EXTENDS Naturals

CONSTANTS
    Consumers,  \* the consumers of one store
    Values      \* the values of its state

VARIABLES
    past,       \* every state the store has been in
    replica     \* the state each consumer holds, or Empty

States == [generation : Nat \ {0}, version : Nat, value : Values]
Empty == [generation |-> 0, version |-> 0]

Before(a, b) ==
    \/ a.generation < b.generation
    \/ a.generation = b.generation /\ a.version < b.version

Init ==
    /\ past \subseteq States /\ \E s \in past : past = {s}
    /\ replica = [c \in Consumers |-> Empty]

\* The state changes, by a mutation or because the store is created anew.
Change ==
    /\ \E s \in past' :
        /\ s \in States /\ \A r \in past : Before(r, s)
        /\ past' = past \cup {s}
    /\ UNCHANGED replica

\* A consumer moves to a later state.
Advance(c) ==
    /\ \E s \in past :
        /\ Before(replica[c], s)
        /\ replica' = [replica EXCEPT ![c] = s]
    /\ UNCHANGED past

Next == Change \/ \E c \in Consumers : Advance(c)

Spec == Init /\ [][Next]_<<past, replica>>

=============================================================================
