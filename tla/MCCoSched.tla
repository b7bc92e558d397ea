----------------------------- MODULE MCCoSched ------------------------------
(***************************************************************************)
(* A small instance of CoSched for TLC: two tasks, two pool threads, and a *)
(* pipe that fills up and is read in several turns.                        *)
(***************************************************************************)
EXTENDS CoSched

=============================================================================
