--------------------------- MODULE CheckpointLog ---------------------------
(***************************************************************************)
(* What a durable issue sync promises to whoever reads the durable branch  *)
(* on origin: the modules checkpointed there only become more, and none    *)
(* gets there before what it depends on.                                   *)
(***************************************************************************)
EXTENDS FiniteSets

CONSTANTS
    Modules,    \* basenames
    Deps        \* what each of them depends on

VARIABLE checkpointed   \* the modules with a checkpoint on origin

Init == checkpointed = {}

\* A push publishes one checkpoint, or also those earlier pushes left behind.
Publish(S) ==
    /\ S # {} /\ S \cap checkpointed = {}
    /\ \A m \in S : Deps[m] \subseteq checkpointed \cup S
    /\ checkpointed' = checkpointed \cup S

Next == \E S \in SUBSET Modules : Publish(S)

Spec == Init /\ [][Next]_checkpointed
=============================================================================
