--------------------------- MODULE MCTransaction ---------------------------
(***************************************************************************)
(* Two transactions over the same two destinations, in opposite plan       *)
(* order.  "pair" creates file 1 and rewrites file 2 from "old"; "revert"  *)
(* takes file 2 back to "old" after it, which is the state "pair" recorded *)
(* as its precondition, and rewrites file 1.                               *)
(***************************************************************************)
EXTENDS Transaction, TLC

CONSTANTS old, new, other

MCWrites == [t \in Txns |-> IF t = "pair" THEN <<1, 2>> ELSE <<2, 1>>]
MCDesired == [t \in Txns |->
    IF t = "pair" THEN [d \in Paths |-> new]
                  ELSE [d \in Paths |-> IF d = 1 THEN other ELSE old]]
MCExpected == [t \in Txns |-> [d \in Paths |->
    IF t = "pair" /\ d = 2 THEN old ELSE AnyState]]
MCShared == [t \in Txns |-> {}]
MCInitDest == [d \in Paths |-> IF d = 1 THEN Missing ELSE old]

\* Processes differ in nothing but their name.
MCSymmetry == Permutations(Procs)
=============================================================================
