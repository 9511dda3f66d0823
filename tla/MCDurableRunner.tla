-------------------------- MODULE MCDurableRunner --------------------------
(* Small instances of DurableRunner for TLC.                               *)
EXTENDS DurableRunner, TLC

\* A consumer 3 of 1, and 2 beside them.
ForkModules == 1..3
ForkDeps == (1 :> {}) @@ (2 :> {}) @@ (3 :> {1})
=============================================================================
