----------------------------- MODULE MCCoMutex ------------------------------
(***************************************************************************)
(* Where the tasks of CoMutex are, for TLC.                                *)
(***************************************************************************)
EXTENDS CoMutex

CONSTANTS a, p, q

\* a alone on its thread, the others on another one.
TwoThreads == {[t \in Tasks |-> IF t = a THEN p ELSE q]}

\* Everything on one thread, or on two.
OneOrTwoThreads == {[t \in Tasks |-> p]} \cup TwoThreads

=============================================================================
