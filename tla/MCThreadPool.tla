---------------------------- MODULE MCThreadPool ----------------------------
(***************************************************************************)
(* Small instances of ThreadPool for TLC.                                  *)
(***************************************************************************)
EXTENDS ThreadPool, TLC

PoolThreads == Users \cup Workers \cup {Main}
PoolElems == Users \cup {Pill}
PoolUses == {[t \in PoolThreads |-> CASE t \in Users -> {"put"}
                                      [] t \in Workers -> {"take"}
                                      [] t = Main -> {"offer"}]}

=============================================================================
