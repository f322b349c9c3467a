------------------------------ MODULE IttiTasks ------------------------------
(***************************************************************************)
(* The tasks and queues of the inter-task interface (itti_mw): main creates *)
(* the tasks one after another (create_task), each announces itself         *)
(* (notify_task_ready) and then handles its queue until TERMINATE; any      *)
(* running thread sends; a signal makes main broadcast TERMINATE and join   *)
(* the tasks (send_terminate_msg, wait_tasks_end), wherever main is.        *)
(***************************************************************************)
EXTENDS Naturals, Sequences

CONSTANTS
    NumTasks,            \* the tasks are 1..NumTasks, created in this order
    MaxMessages,         \* bound of the number of send_msg calls
    SignalDuringStartup  \* whether the signal may come before main is done

ASSUME TasksAssumption == NumTasks \in Nat \ {0} /\ MaxMessages \in Nat
ASSUME SignalAssumption == SignalDuringStartup \in BOOLEAN

Tasks == 1..NumTasks
Messages == 1..MaxMessages
TERMINATE == 0          \* every other message is its number

VARIABLES
    task_state,  \* per task; "NONE" while its itti_task_ctxt is nullptr
    msg_queue,
    thread,      \* where the thread of each task is
    main,        \* where main is
    cursor,      \* the task main is creating, broadcasting to or joining
    sent,        \* number of send_msg calls so far
    accepted,    \* history: per task, messages send_msg answered RETURNok for
    handled      \* history: per task, messages received, in order

vars == <<task_state, msg_queue, thread, main, cursor, sent, accepted, handled>>

TypeOK ==
    /\ task_state \in [Tasks -> {"NONE", "STARTING", "READY", "ENDED"}]
    /\ msg_queue \in [Tasks -> Seq(Messages \cup {TERMINATE})]
    /\ thread \in [Tasks -> {"none", "started", "running", "waiting", "returned", "joined"}]
    /\ main \in {"create", "await", "run", "broadcast", "join", "exit"}
    /\ cursor \in Tasks
    /\ sent \in 0..MaxMessages
    /\ accepted \in [Tasks -> SUBSET Messages]
    /\ handled \in [Tasks -> Seq(Messages \cup {TERMINATE})]

Init ==
    /\ task_state = [t \in Tasks |-> "NONE"]
    /\ msg_queue = [t \in Tasks |-> <<>>]
    /\ thread = [t \in Tasks |-> "none"]
    /\ main = "create"
    /\ cursor = 1
    /\ sent = 0
    /\ accepted = [t \in Tasks |-> {}]
    /\ handled = [t \in Tasks |-> <<>>]

-----------------------------------------------------------------------------
\* The index of main's three loops over the tasks, back at the first after the
\* last; and the fault of a loop that goes one too far.
AdvancedTooFar == cursor + 1
Advanced == IF cursor = NumTasks THEN 1 ELSE cursor + 1

\* create_task: the context is born STARTING and the thread starts.
CreateTask ==
    /\ main = "create"
    /\ cursor <= NumTasks
    /\ task_state' = [task_state EXCEPT ![cursor] = "STARTING"]
    /\ thread' = [thread EXCEPT ![cursor] = "started"]
    /\ main' = "await"
    /\ UNCHANGED <<msg_queue, cursor, sent, accepted, handled>>

\* while (task_state != READY && task_state != ENDED) usleep(1000)
AwaitReady ==
    /\ main = "await"
    /\ task_state[cursor] \in {"READY", "ENDED"}
    /\ cursor' = Advanced
    /\ main' = IF cursor = NumTasks THEN "run" ELSE "create"
    /\ UNCHANGED <<task_state, msg_queue, thread, sent, accepted, handled>>

\* The signal handler runs on top of main and never returns to it.
Signal ==
    /\ main = "run" \/ (SignalDuringStartup /\ main \in {"create", "await"})
    /\ main' = "broadcast"
    /\ cursor' = 1
    /\ UNCHANGED <<task_state, msg_queue, thread, sent, accepted, handled>>

\* The faults of a push at the wrong end, and of a push that notifies nobody.
PushedInFront(t, m) ==
    /\ msg_queue' = [msg_queue EXCEPT ![t] = <<m>> \o @]
    /\ thread' = [thread EXCEPT ![t] = IF @ = "waiting" THEN "running" ELSE @]
PushedSilently(t, m) ==
    /\ msg_queue' = [msg_queue EXCEPT ![t] = Append(@, m)]
    /\ UNCHANGED thread

\* msg_queue.push and c_queue.notify_one, under m_queue.
Pushed(t, m) ==
    /\ msg_queue' = [msg_queue EXCEPT ![t] = Append(@, m)]
    /\ thread' = [thread EXCEPT ![t] = IF @ = "waiting" THEN "running" ELSE @]

\* One turn of the loop of send_broadcast_msg: only a READY task is sent to.
Broadcast ==
    /\ main = "broadcast"
    /\ \/ task_state[cursor] = "READY" /\ Pushed(cursor, TERMINATE)
       \/ task_state[cursor] # "READY" /\ UNCHANGED <<msg_queue, thread>>
    /\ cursor' = Advanced
    /\ main' = IF cursor = NumTasks THEN "join" ELSE "broadcast"
    /\ UNCHANGED <<task_state, sent, accepted, handled>>

\* thread.join() returns.
Returned(t) == thread[t] = "returned"

\* The fault of a loop that detaches the threads.
DetachEach ==
    /\ main = "join"
    /\ task_state' = [task_state EXCEPT ![cursor] = IF thread[cursor] = "none" THEN @ ELSE "ENDED"]
    /\ cursor' = Advanced
    /\ main' = IF cursor = NumTasks THEN "exit" ELSE "join"
    /\ UNCHANGED <<msg_queue, thread, sent, accepted, handled>>

\* One turn of the loop of wait_tasks_end: a task that was created is joined.
Join ==
    /\ main = "join"
    /\ \/ /\ Returned(cursor)
          /\ thread' = [thread EXCEPT ![cursor] = "joined"]
          /\ task_state' = [task_state EXCEPT ![cursor] = "ENDED"]
       \/ thread[cursor] = "none" /\ UNCHANGED <<thread, task_state>>
    /\ cursor' = Advanced
    /\ main' = IF cursor = NumTasks THEN "exit" ELSE "join"
    /\ UNCHANGED <<msg_queue, sent, accepted, handled>>

\* notify_task_ready, the first call of every task's routine.
NotifyReady(t) ==
    /\ thread[t] = "started"
    /\ task_state' = [task_state EXCEPT ![t] = IF @ = "STARTING" THEN "READY" ELSE @]
    /\ thread' = [thread EXCEPT ![t] = "running"]
    /\ UNCHANGED <<msg_queue, main, cursor, sent, accepted, handled>>

\* receive_msg on an empty queue: c_queue.wait.
Wait(t) ==
    /\ thread[t] = "running"
    /\ msg_queue[t] = <<>>
    /\ thread' = [thread EXCEPT ![t] = "waiting"]
    /\ UNCHANGED <<task_state, msg_queue, main, cursor, sent, accepted, handled>>

\* receive_msg pops and the task handles; TERMINATE ends its routine.
Receive(t) ==
    /\ thread[t] = "running"
    /\ msg_queue[t] # <<>>
    /\ msg_queue' = [msg_queue EXCEPT ![t] = Tail(@)]
    /\ handled' = [handled EXCEPT ![t] = Append(@, Head(msg_queue[t]))]
    /\ thread' = [thread EXCEPT ![t] =
                    IF Head(msg_queue[t]) = TERMINATE THEN "returned" ELSE @]
    /\ UNCHANGED <<task_state, main, cursor, sent, accepted>>

\* send_msg to task t, by a thread that may be any (a task, the timer thread, a
\* socket's thread).  STARTING, ENDED and absent tasks answer RETURNerror.
Send(t) ==
    /\ sent < MaxMessages
    /\ main # "exit"
    /\ sent' = sent + 1
    /\ \/ /\ task_state[t] = "READY"
          /\ Pushed(t, sent + 1)
          /\ accepted' = [accepted EXCEPT ![t] = @ \cup {sent + 1}]
       \/ task_state[t] # "READY" /\ UNCHANGED <<msg_queue, thread, accepted>>
    /\ UNCHANGED <<task_state, main, cursor, handled>>

-----------------------------------------------------------------------------
Main == CreateTask \/ AwaitReady \/ Broadcast \/ Join
Task(t) == NotifyReady(t) \/ Wait(t) \/ Receive(t)

Next == Main \/ Signal \/ \E t \in Tasks : Task(t) \/ Send(t)

Spec == Init /\ [][Next]_vars

\* Threads run; nothing obliges anyone to send or to signal.
FairSpec == Spec /\ WF_vars(Main) /\ \A t \in Tasks : WF_vars(Task(t))

-----------------------------------------------------------------------------
(* Properties.                                                              *)

\* A message that got in before TERMINATE did is handled, in the order sent, and
\* nothing is handled after TERMINATE: what a task has handled and what its
\* queue still holds are, together, exactly what was accepted, in order.
NothingOvertakes ==
    \A t \in Tasks :
      LET all == handled[t] \o msg_queue[t] IN
      /\ \A i, j \in DOMAIN all :
           i < j /\ all[i] # TERMINATE /\ all[j] # TERMINATE => all[i] < all[j]
      /\ accepted[t] = {all[i] : i \in DOMAIN all} \ {TERMINATE}
      /\ \A i \in DOMAIN handled[t] :
           handled[t][i] = TERMINATE => i = Len(handled[t])

\* main exits only when no task thread is left running on data that the signal
\* handler frees next.
ExitMeansQuiet ==
    main = "exit" => \A t \in Tasks : thread[t] \in {"none", "joined"}

\* A message queued ahead of TERMINATE is handled: no wake-up is lost between the
\* test of the queue and the wait.
QueuedIsHandled ==
    \A t \in Tasks : msg_queue[t] # <<>> ~>
        msg_queue[t] = <<>> \/ thread[t] \in {"returned", "joined"}

\* Once main has been told to stop, it gets every created task to end and exits
\* ("Send a termination message to all tasks").
SignalEndsEverything == main = "broadcast" ~> main = "exit"
=============================================================================
