------------------------ MODULE MCArrayBlockingQueue ------------------------
(***************************************************************************)
(* Who calls what, for TLC.                                                *)
(***************************************************************************)
EXTENDS ArrayBlockingQueue

CONSTANTS t1, t2

\* Two threads that call everything.
EveryOp == [t \in Threads |-> IF t \in {t1, t2} THEN {"put", "take", "offer", "poll"} ELSE {}]

\* Two producers and two consumers that only block, as in the thread pool.
PutTake == [t \in Threads |-> IF t \in {t1, t2} THEN {"put"} ELSE {"take"}]

\* One producer and one consumer that mix both kinds of calls.
OneOnOne == [t \in Threads |-> CASE t = t1 -> {"put", "offer"}
                                 [] t = t2 -> {"take", "poll"}
                                 [] OTHER -> {}]

SmallUses == {EveryOp, PutTake, OneOnOne}

\* The producers and consumers that only block run and keep calling, and pthread_mutex_lock
\* does not refuse one of them for ever.
MCSpec ==
    /\ QueueSpec
    /\ \A t \in Threads :
         /\ SF_qvars(use = PutTake /\ Lock(t))
         /\ WF_qvars(use = PutTake /\ QueueStep(t))
         /\ WF_qvars(use = PutTake /\ Call(t))

-----------------------------------------------------------------------------
\* A queue that producers and consumers use with put and take never stays full or empty.
PutTakeMoves == use = PutTake => QueueMoves

=============================================================================
