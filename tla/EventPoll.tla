----------------------------- MODULE EventPoll ------------------------------
(***************************************************************************)
(* event_poll of libcask (event.c) with the time wheel (time_wheel.c), the *)
(* descriptor table (inner_fd.c) and the hooked close: tasks of one        *)
(* scheduler thread wait for descriptors, events and time-outs race to     *)
(* wake them, descriptors are closed and opened again under the tasks that *)
(* wait for them, and two tasks may wait for the same one.                 *)
(*                                                                         *)
(* Between two yields nothing of this thread is interrupted, so each stretch *)
(* of a task, each tick of _timeout_task and each event_wait is one step.  *)
(* The timer of the wheel expires every second; what expires while other   *)
(* tasks run is read as one tick.                                          *)
(*                                                                         *)
(* event_poll keeps a pointer to the inner_fd over its yield, so the       *)
(* memory of the inner_fds is part of the model: what close() has freed    *)
(* may be the inner_fd of another descriptor when the task returns through *)
(* its pointer.  That it may be an object of another kind is left out.     *)
(***************************************************************************)
EXTENDS Integers, FiniteSets

CONSTANTS
    Tasks,      \* the tasks of the thread
    NoTask,     \* NULL
    Fds,        \* the descriptors that read() uses: ifd->timeout is FD_TIMEOUT
    Listening,  \* the listening ones among them: ifd->timeout is -1
    Memory,     \* the addresses malloc may give an inner_fd
    Reports,    \* what the kernel may report of a descriptor
    Size,       \* slots of the wheel
    MaxAge      \* expirations of the timer a wait is measured up to

FD_TIMEOUT == 3
NoSlot == -1
NULL == 0
AnyFd == CHOOSE f \in Fds : TRUE

PollAssumption ==
    /\ NoTask \notin Tasks /\ Fds # {} /\ Listening \subseteq Fds
    /\ Memory \subseteq Nat \ {NULL} /\ Reports \subseteq {{"read"}, {"err"}}
    /\ Size \in Nat /\ Size > FD_TIMEOUT /\ MaxAge \in Nat /\ MaxAge >= FD_TIMEOUT

VARIABLES
    g_inner_fd_list, \* the address of the inner_fd of a descriptor, or NULL
    task,       \* ifd->task
    error,      \* ifd->error: a set of "time", "read" and "err"
    slot,       \* the slot of the wheel its link is in, or NoSlot
    registered, \* the descriptors in the epoll set
    ready,      \* what the kernel has to report of a descriptor
    loc,        \* the wheel's position
    expired,    \* the timer of the wheel has expired and not been read
    pc,         \* "run", "wait" in co_io_yield, or "woken": in the run queue
    on,         \* the descriptor a task waits for
    ptr,        \* ifd, its local variable: the inner_fd it had when the wait began
    age,        \* how often the timer has expired since it began to wait
    shared,     \* tasks whose wait another task has joined or returned through
    freed       \* tasks whose inner_fd has been freed under them

fvars == <<g_inner_fd_list, task, error, slot, registered>>
tvars == <<pc, on, ptr, age>>
vars == <<fvars, ready, loc, expired, tvars, shared, freed>>

\* The descriptors with an inner_fd.
Open == {f \in Fds : g_inner_fd_list[f] # NULL}

EventTypeOK ==
    /\ g_inner_fd_list \in [Fds -> Memory \cup {NULL}]
    /\ registered \subseteq Fds /\ freed \subseteq Tasks
    /\ task \in [Fds -> Tasks \cup {NoTask}]
    /\ error \in [Fds -> SUBSET {"time", "read", "err"}]
    /\ slot \in [Fds -> 0 .. Size - 1 \cup {NoSlot}]
    /\ ready \in [Fds -> SUBSET {"read", "err"}]
    /\ loc \in 0 .. Size - 1 /\ expired \in BOOLEAN /\ shared \subseteq Tasks
    /\ pc \in [Tasks -> {"run", "wait", "woken"}]
    /\ on \in [Tasks -> Fds] /\ ptr \in [Tasks -> Memory \cup {NULL}]
    /\ age \in [Tasks -> 0 .. MaxAge]

Init ==
    /\ g_inner_fd_list = [f \in Fds |-> NULL] /\ task = [f \in Fds |-> NoTask] /\ error = [f \in Fds |-> {}]
    /\ slot = [f \in Fds |-> NoSlot] /\ registered = {} /\ ready = [f \in Fds |-> {}]
    /\ loc = 0 /\ expired = FALSE
    /\ pc = [t \in Tasks |-> "run"] /\ on = [t \in Tasks |-> AnyFd]
    /\ ptr = [t \in Tasks |-> NULL] /\ age = [t \in Tasks |-> 0]
    /\ shared = {} /\ freed = {}

\* The tasks inside event_poll on the inner_fd that f has now.
Pollers(f) == {t \in Tasks : pc[t] # "run" /\ on[t] = f /\ t \notin freed}

\* Mutant of wheel_update_element: the tick that has begun is counted in full.
wheel_update_short(f) ==
    slot' = [slot EXCEPT ![f] = IF f \in Listening THEN @ ELSE (loc + FD_TIMEOUT) % Size]

wheel_update_element(f) ==
    slot' = [slot EXCEPT ![f] = IF f \in Listening THEN @ ELSE (loc + FD_TIMEOUT + 1) % Size]

\* event_poll, up to the yield.  A descriptor that is registered already is modified.
event_poll(t, f) ==
    /\ pc[t] = "run" /\ f \in Open
    /\ error' = [error EXCEPT ![f] = {}]
    /\ task' = [task EXCEPT ![f] = t]
    /\ registered' = registered \cup {f}
    /\ wheel_update_element(f)
    /\ pc' = [pc EXCEPT ![t] = "wait"] /\ on' = [on EXCEPT ![t] = f]
    /\ ptr' = [ptr EXCEPT ![t] = g_inner_fd_list[f]] /\ age' = [age EXCEPT ![t] = 0]
    /\ shared' = IF Pollers(f) = {} THEN shared ELSE shared \cup {t} \cup Pollers(f)
    /\ UNCHANGED <<g_inner_fd_list, ready, loc, expired, freed>>

\* event_poll when epoll_ctl refuses the descriptor.
PollFails(t, f) ==
    /\ pc[t] = "run" /\ f \in Open
    /\ error' = [error EXCEPT ![f] = {}]
    /\ task' = [task EXCEPT ![f] = t]
    /\ registered' = registered \ {f}
    /\ shared' = shared \cup Pollers(f)
    /\ UNCHANGED <<g_inner_fd_list, slot, ready, loc, expired, tvars, freed>>

\* What event_poll returns: a time-out is looked at first.
Result(f) ==
    IF "time" \in error[f] THEN "ETIME" ELSE IF "err" \in error[f] THEN "ENETDOWN" ELSE "ok"

\* The local variables of event_poll are gone.
Back(t) ==
    /\ pc' = [pc EXCEPT ![t] = "run"] /\ on' = [on EXCEPT ![t] = AnyFd]
    /\ ptr' = [ptr EXCEPT ![t] = NULL] /\ age' = [age EXCEPT ![t] = 0]
    /\ freed' = freed \ {t}

\* Mutant of PollReturn: the element stays in the wheel.
PollReturnLinked(t) ==
    /\ pc[t] = "woken" /\ Back(t)
    /\ \E f \in Open : /\ g_inner_fd_list[f] = ptr[t]
                      /\ registered' = registered \ {f}
                      /\ shared' = (shared \cup Pollers(f)) \ {t}
    /\ UNCHANGED <<g_inner_fd_list, task, error, slot, ready, loc, expired>>

\* event_poll after the yield: it unlinks and unregisters whatever descriptor its pointer
\* leads to.  That is its own, unless it was closed and malloc gave the memory away again.
PollReturn(t) ==
    /\ pc[t] = "woken" /\ Back(t)
    /\ \E f \in Open : /\ g_inner_fd_list[f] = ptr[t]
                      /\ slot' = [slot EXCEPT ![f] = NoSlot]
                      /\ registered' = registered \ {f}
                      /\ shared' = (shared \cup Pollers(f)) \ {t}
    /\ UNCHANGED <<g_inner_fd_list, task, error, ready, loc, expired>>

\* The same through memory that is still free.  Its link points at itself since
\* delete_inner_fd; its first word, the number to unregister, may be the old one or anything
\* the allocator has written there.
PollReturnFreed(t) ==
    /\ pc[t] = "woken" /\ ptr[t] \notin {g_inner_fd_list[f] : f \in Fds} /\ Back(t)
    /\ \/ UNCHANGED registered /\ shared' = shared \ {t}
       \/ \E f \in Fds : /\ registered' = registered \ {f}
                        /\ shared' = (shared \cup Pollers(f)) \ {t}
    /\ UNCHANGED <<g_inner_fd_list, task, error, slot, ready, loc, expired>>

\* The tasks co_resume puts into the run queue, where they may be already.
Resumed(ts) == pc' = [t \in Tasks |-> IF t \in ts /\ pc[t] = "wait" THEN "woken" ELSE pc[t]]

\* event_wait: whatever epoll_wait reports, each descriptor once.
event_wait(reported) ==
    /\ reported # {} /\ reported \subseteq {f \in registered : ready[f] # {}}
    /\ error' = [f \in Fds |-> IF f \in reported THEN ready[f] ELSE error[f]]
    /\ registered' = registered \ reported
    /\ Resumed({task[f] : f \in reported})
    /\ UNCHANGED <<g_inner_fd_list, task, slot, ready, loc, expired, on, ptr, age, shared, freed>>

\* The timer expires.  It does so every second, the first time at any moment after a wait has
\* begun.
TimerExpires ==
    /\ expired' = TRUE
    /\ age' = [t \in Tasks |-> IF age[t] < MaxAge /\ pc[t] # "run" THEN age[t] + 1 ELSE age[t]]
    /\ UNCHANGED <<fvars, ready, loc, pc, on, ptr, shared, freed>>

\* Mutant of timeout_task: only the tasks whose descriptor has something to report are
\* resumed.
timeout_skips ==
    LET due == {f \in Fds : slot[f] = (loc + 1) % Size}
    IN  /\ expired /\ expired' = FALSE
        /\ loc' = (loc + 1) % Size
        /\ error' = [f \in Fds |-> IF f \in due THEN error[f] \cup {"time"} ELSE error[f]]
        /\ slot' = [f \in Fds |-> IF f \in due THEN NoSlot ELSE slot[f]]
        /\ Resumed({task[f] : f \in {g \in due : ready[g] # {}}})
        /\ UNCHANGED <<g_inner_fd_list, task, registered, ready, on, ptr, age, shared, freed>>

\* _timeout_task reads the timer once, however often it has expired, and turns the wheel by
\* one; everything in the slot is marked, resumed and unlinked.
timeout_task ==
    LET due == {f \in Fds : slot[f] = (loc + 1) % Size}
    IN  /\ expired /\ expired' = FALSE
        /\ loc' = (loc + 1) % Size
        /\ error' = [f \in Fds |-> IF f \in due THEN error[f] \cup {"time"} ELSE error[f]]
        /\ slot' = [f \in Fds |-> IF f \in due THEN NoSlot ELSE slot[f]]
        /\ Resumed({task[f] : f \in due})
        /\ UNCHANGED <<g_inner_fd_list, task, registered, ready, on, ptr, age, shared, freed>>

\* The peer sends, closes or resets; or everything there was has been read.
PeerActs(f, r) ==
    /\ f \in Open /\ ready[f] # r /\ ready' = [ready EXCEPT ![f] = r]
    /\ UNCHANGED <<fvars, loc, expired, tvars, shared, freed>>

\* The hooked close() of a running task: the inner_fd is unlinked and freed, the kernel
\* forgets the descriptor, and whoever waits for it is not told.
close(f) ==
    /\ f \in Open /\ \E t \in Tasks : pc[t] = "run"
    /\ g_inner_fd_list' = [g_inner_fd_list EXCEPT ![f] = NULL] /\ registered' = registered \ {f}
    /\ slot' = [slot EXCEPT ![f] = NoSlot] /\ ready' = [ready EXCEPT ![f] = {}]
    /\ freed' = freed \cup Pollers(f)
    /\ UNCHANGED <<task, error, loc, expired, tvars, shared>>

\* A number is used, again; malloc gives its inner_fd any memory that is free.
new_inner_fd(f) ==
    /\ f \notin Open /\ \E t \in Tasks : pc[t] = "run"
    /\ \E m \in Memory \ {g_inner_fd_list[g] : g \in Fds} :
          g_inner_fd_list' = [g_inner_fd_list EXCEPT ![f] = m]
    /\ task' = [task EXCEPT ![f] = NoTask] /\ error' = [error EXCEPT ![f] = {}]
    /\ UNCHANGED <<slot, registered, ready, loc, expired, tvars, shared, freed>>

Scheduler ==
    \/ \E t \in Tasks : PollReturn(t) \/ PollReturnFreed(t)
    \/ \E reported \in SUBSET registered : event_wait(reported)
    \/ timeout_task

Next ==
    \/ Scheduler \/ TimerExpires
    \/ \E t \in Tasks, f \in Fds : event_poll(t, f) \/ PollFails(t, f)
    \/ \E f \in Fds : close(f) \/ new_inner_fd(f) \/ \E r \in {{}} \cup Reports : PeerActs(f, r)

\* The timer expires, the wheel's task runs, and a task in the run queue has its turn.
Spec ==
    /\ Init /\ [][Next]_vars
    /\ WF_vars(TimerExpires) /\ WF_vars(timeout_task)
    /\ \A t \in Tasks : WF_vars(PollReturn(t) \/ PollReturnFreed(t))

-----------------------------------------------------------------------------
\* A task that waits for a descriptor of its own can be reached: its inner_fd names it, the
\* descriptor is in the epoll set, and its time-out, if it has one, is in the wheel.  What
\* takes this away is another task: one that polls the same descriptor, one that closes it,
\* or one that returns through a pointer to an inner_fd that was closed under it.
NobodyForgotten ==
    \A t \in Tasks : pc[t] = "wait" /\ t \notin shared \cup freed =>
        LET f == on[t]
        IN  /\ f \in Open /\ task[f] = t /\ f \in registered
            /\ f \in Listening \/ slot[f] # NoSlot

\* Nobody is woken for a descriptor it is not waiting for: what is in the epoll set or in
\* the wheel belongs to a task inside event_poll on that descriptor.
NoStrayWake ==
    \A f \in Fds : f \in registered \/ slot[f] # NoSlot =>
        \E t \in Tasks : pc[t] # "run" /\ on[t] = f /\ (task[f] = t \/ t \in shared)

\* A time-out is reported only after the timer has expired FD_TIMEOUT times since the wait
\* began, wherever the wheel stands and however many expirations were read as one: the first
\* may come at once, so that more than FD_TIMEOUT - 1 seconds have passed.  Two tasks that
\* share the descriptor, and a close() under the task, are excepted.
NotEarly ==
    [][\A t \in Tasks : PollReturn(t) /\ Result(on[t]) = "ETIME" /\ t \notin shared \cup freed
            => age[t] >= FD_TIMEOUT]_vars

\* Every wait for a descriptor with a time-out ends, unless another task has taken its
\* descriptor away (see NobodyForgotten).
WaitEnds ==
    \A t \in Tasks : (pc[t] = "wait" /\ on[t] \notin Listening) ~>
                        (pc[t] # "wait" \/ t \in shared \cup freed)

=============================================================================
