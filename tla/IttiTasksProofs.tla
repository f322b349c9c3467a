--------------------------- MODULE IttiTasksProofs ---------------------------
(***************************************************************************)
(* Proofs about IttiTasks, for any number of tasks and messages: the order  *)
(* of what a task handles, and what main leaves behind when it exits.       *)
(***************************************************************************)
EXTENDS IttiTasks, TLAPS

Quiet(t) == thread[t] \in {"none", "joined"}

\* wait_tasks_end goes through the tasks in order and leaves none behind; no task
\* is created any more.
JoinedInOrder ==
    /\ main = "join" => cursor \in Tasks /\ \A t \in 1..cursor-1 : Quiet(t)
    /\ main \in {"create", "await", "broadcast"} => cursor \in Tasks

\* main creates the tasks in order.
CreatedInOrder ==
    /\ main = "create" => \A t \in cursor..NumTasks : thread[t] = "none"
    /\ main = "await" => \A t \in cursor+1..NumTasks : thread[t] = "none"

\* What was pushed to a task so far, in order.
Pushes(t) == handled[t] \o msg_queue[t]

\* Every push is of a message sent, and greater than those before it.
InOrder(t) ==
    /\ \A i \in DOMAIN Pushes(t) : Pushes(t)[i] \in 0..sent
    /\ \A i, j \in DOMAIN Pushes(t) :
         i < j /\ Pushes(t)[i] # TERMINATE /\ Pushes(t)[j] # TERMINATE =>
           Pushes(t)[i] < Pushes(t)[j]
    /\ accepted[t] = {Pushes(t)[i] : i \in DOMAIN Pushes(t)} \ {TERMINATE}

\* TERMINATE is the last message handled, and the thread returns on it.
EndsOnTerminate(t) ==
    \A i \in DOMAIN handled[t] :
      handled[t][i] = TERMINATE => i = Len(handled[t]) /\ thread[t] \in {"returned", "joined"}

\* The inductive invariant.
IInv ==
    /\ TypeOK
    /\ JoinedInOrder
    /\ ExitMeansQuiet
    /\ CreatedInOrder
    /\ \A t \in Tasks : InOrder(t) /\ EndsOnTerminate(t)

-----------------------------------------------------------------------------
\* A pop moves the head of the queue to the end of what was handled: the pushes
\* stay as they were.
LEMMA PopKeepsPushes ==
  ASSUME NEW S, NEW h \in Seq(S), NEW q \in Seq(S), q # <<>>
  PROVE  Append(h, Head(q)) \o Tail(q) = h \o q
OBVIOUS

\* A push comes after all the others.
LEMMA PushIsLast ==
  ASSUME NEW S, NEW h \in Seq(S), NEW q \in Seq(S), NEW m \in S
  PROVE  h \o Append(q, m) = Append(h \o q, m)
OBVIOUS

\* The two ways Pushed may leave the queues and the threads.
LEMMA PushedType ==
  ASSUME TypeOK, NEW t \in Tasks, NEW m \in Messages \cup {TERMINATE}, Pushed(t, m)
  PROVE  /\ msg_queue' \in [Tasks -> Seq(Messages \cup {TERMINATE})]
         /\ thread' \in [Tasks -> {"none", "started", "running", "waiting", "returned", "joined"}]
         /\ \A s \in Tasks : thread'[s] = thread[s] \/ (thread[s] = "waiting" /\ thread'[s] = "running")
<1>1. Append(msg_queue[t], m) \in Seq(Messages \cup {TERMINATE})
  BY DEF TypeOK
<1>2. QED
  BY <1>1 DEF TypeOK, Pushed

\* The middleware starts within its types.
LEMMA InitTypeOK == Init => TypeOK
BY TasksAssumption DEF Init, TypeOK, Tasks, Messages

\* Every step keeps the types.
LEMMA NextTypeOK == TypeOK /\ JoinedInOrder /\ [Next]_vars => TypeOK'
<1> SUFFICES ASSUME TypeOK, JoinedInOrder, [Next]_vars PROVE TypeOK'
  OBVIOUS
<1> USE TasksAssumption DEF TypeOK, JoinedInOrder, Tasks, TERMINATE
<1>1. CASE CreateTask
  BY <1>1 DEF CreateTask
<1>2. CASE AwaitReady
  BY <1>2 DEF AwaitReady, Advanced
<1>3. CASE Signal
  BY <1>3 DEF Signal
<1>4. CASE Broadcast
  <2>1. cursor' \in Tasks /\ main' \in {"broadcast", "join"}
    BY <1>4 DEF Broadcast, Advanced
  <2>2. CASE Pushed(cursor, TERMINATE)
    BY <1>4, <2>1, <2>2, PushedType DEF Broadcast, Advanced
  <2>3. CASE UNCHANGED <<msg_queue, thread>>
    BY <1>4, <2>1, <2>3 DEF Broadcast, Advanced
  <2>4. QED
    BY <1>4, <2>2, <2>3 DEF Broadcast, Advanced
<1>5. CASE Join
  <2>1. cursor' \in Tasks /\ main' \in {"join", "exit"}
    BY <1>5 DEF Join, Advanced, Returned
  <2>2. /\ thread' \in [Tasks -> {"none", "started", "running", "waiting", "returned", "joined"}]
        /\ task_state' \in [Tasks -> {"NONE", "STARTING", "READY", "ENDED"}]
    BY <1>5 DEF Join, Advanced, Returned
  <2>3. QED
    BY <1>5, <2>1, <2>2 DEF Join, Advanced, Returned
<1>6. ASSUME NEW t \in Tasks, NotifyReady(t) PROVE TypeOK'
  BY <1>6 DEF NotifyReady
<1>7. ASSUME NEW t \in Tasks, Wait(t) PROVE TypeOK'
  BY <1>7 DEF Wait
<1>8. ASSUME NEW t \in Tasks, Receive(t) PROVE TypeOK'
  <2>1. Head(msg_queue[t]) \in Messages \cup {0} /\ Tail(msg_queue[t]) \in Seq(Messages \cup {0})
    BY <1>8 DEF Receive
  <2>2. msg_queue' \in [Tasks -> Seq(Messages \cup {0})]
    BY <1>8, <2>1 DEF Receive
  <2>3. handled' \in [Tasks -> Seq(Messages \cup {0})]
    BY <1>8, <2>1 DEF Receive
  <2>4. thread' \in [Tasks -> {"none", "started", "running", "waiting", "returned", "joined"}]
    BY <1>8 DEF Receive
  <2>5. UNCHANGED <<task_state, main, cursor, sent, accepted>>
    BY <1>8 DEF Receive
  <2>6. QED
    BY <2>2, <2>3, <2>4, <2>5
<1>9. ASSUME NEW t \in Tasks, Send(t) PROVE TypeOK'
  <2>1. sent' \in 0..MaxMessages /\ sent + 1 \in Messages
    BY <1>9 DEF Send, Messages
  <2>2. accepted' \in [Tasks -> SUBSET Messages]
    <3>1. accepted' = accepted \/ accepted' = [accepted EXCEPT ![t] = @ \cup {sent + 1}]
      BY <1>9 DEF Send
    <3>2. accepted[t] \cup {sent + 1} \in SUBSET Messages
      BY <2>1
    <3>3. QED
      BY <3>1, <3>2
  <2>3. CASE Pushed(t, sent + 1)
    BY <1>9, <2>1, <2>2, <2>3, PushedType DEF Send
  <2>4. CASE UNCHANGED <<msg_queue, thread>>
    BY <1>9, <2>1, <2>2, <2>4 DEF Send
  <2>5. QED
    BY <1>9, <2>3, <2>4 DEF Send
<1>10. CASE UNCHANGED vars
  BY <1>10 DEF vars
<1>11. QED
  BY <1>1, <1>2, <1>3, <1>4, <1>5, <1>6, <1>7, <1>8, <1>9, <1>10 DEF Next, Main, Task

\* A step that leaves main alone, and every quiet thread.
LEMMA QuietStaysQuiet ==
  ASSUME TypeOK, JoinedInOrder, ExitMeansQuiet, UNCHANGED <<main, cursor>>,
         \A t \in Tasks : Quiet(t) => thread'[t] = thread[t]
  PROVE  JoinedInOrder' /\ ExitMeansQuiet'
<1>1. main = "join" => 1..cursor-1 \subseteq Tasks
  BY TasksAssumption DEF JoinedInOrder, Tasks
<1>2. QED
  BY <1>1 DEF JoinedInOrder, ExitMeansQuiet, Quiet

\* Every step of main joins the next task, and no other step disturbs the joined.
LEMMA NextQuiet == TypeOK /\ JoinedInOrder /\ ExitMeansQuiet /\ [Next]_vars
                     => JoinedInOrder' /\ ExitMeansQuiet'
<1> SUFFICES ASSUME TypeOK, JoinedInOrder, ExitMeansQuiet, [Next]_vars
             PROVE  JoinedInOrder' /\ ExitMeansQuiet'
  OBVIOUS
<1> USE TasksAssumption
<1>1. CASE CreateTask
  BY <1>1 DEF CreateTask, JoinedInOrder, ExitMeansQuiet, Tasks, TypeOK
<1>2. CASE AwaitReady
  BY <1>2 DEF AwaitReady, Advanced, JoinedInOrder, ExitMeansQuiet, Tasks, TypeOK
<1>3. CASE Signal
  BY <1>3 DEF Signal, JoinedInOrder, ExitMeansQuiet, Tasks, TypeOK
<1>4. CASE Broadcast
  BY <1>4 DEF Broadcast, Advanced, JoinedInOrder, ExitMeansQuiet, Tasks, TypeOK
<1>5. CASE Join
  <2>1. cursor \in Tasks /\ \A t \in 1..cursor-1 : Quiet(t)
    BY <1>5 DEF Join, Advanced, Returned, JoinedInOrder
  <2>2. thread'[cursor] \in {"none", "joined"} /\ \A t \in Tasks \ {cursor} : thread'[t] = thread[t]
    BY <1>5, <2>1 DEF Join, Advanced, Returned, TypeOK
  <2>3. \A t \in 1..cursor : thread'[t] \in {"none", "joined"}
    BY <2>1, <2>2 DEF Quiet, Tasks
  <2>4. CASE cursor = NumTasks
    BY <1>5, <2>3, <2>4 DEF Join, Advanced, Returned, JoinedInOrder, ExitMeansQuiet, Tasks
  <2>5. CASE cursor # NumTasks
    <3>1. cursor' = cursor + 1 /\ cursor + 1 \in Tasks /\ main' = "join"
      BY <1>5, <2>1, <2>5 DEF Join, Advanced, Returned, Tasks
    <3>2. 1..(cursor + 1) - 1 = 1..cursor
      BY <2>1 DEF Tasks
    <3>3. QED
      BY <2>3, <3>1, <3>2 DEF JoinedInOrder, ExitMeansQuiet, Quiet
  <2>6. QED
    BY <2>4, <2>5
<1>6. ASSUME NEW t \in Tasks, NotifyReady(t) PROVE JoinedInOrder' /\ ExitMeansQuiet'
  BY <1>6, QuietStaysQuiet DEF NotifyReady, Quiet, TypeOK
<1>7. ASSUME NEW t \in Tasks, Wait(t) PROVE JoinedInOrder' /\ ExitMeansQuiet'
  BY <1>7, QuietStaysQuiet DEF Wait, Quiet, TypeOK
<1>8. ASSUME NEW t \in Tasks, Receive(t) PROVE JoinedInOrder' /\ ExitMeansQuiet'
  BY <1>8, QuietStaysQuiet DEF Receive, Quiet, TypeOK
<1>9. ASSUME NEW t \in Tasks, Send(t) PROVE JoinedInOrder' /\ ExitMeansQuiet'
  BY <1>9, QuietStaysQuiet DEF Send, Pushed, Quiet, TypeOK
<1>10. CASE UNCHANGED vars
  BY <1>10, QuietStaysQuiet DEF vars
<1>11. QED
  BY <1>1, <1>2, <1>3, <1>4, <1>5, <1>6, <1>7, <1>8, <1>9, <1>10 DEF Next, Main, Task

\* No thread becomes "none", and main moves on after it has created one.
LEMMA NextCreated == TypeOK /\ JoinedInOrder /\ CreatedInOrder /\ [Next]_vars => CreatedInOrder'
<1> SUFFICES ASSUME TypeOK, JoinedInOrder, CreatedInOrder, [Next]_vars PROVE CreatedInOrder'
  OBVIOUS
<1>1. CASE CreateTask
  <2>1. cursor' = cursor /\ main' = "await" /\ \A t \in Tasks \ {cursor} : thread'[t] = thread[t]
    BY <1>1 DEF CreateTask, TypeOK
  <2>2. cursor \in Tasks /\ cursor+1..NumTasks \subseteq cursor..NumTasks /\ cursor..NumTasks \subseteq Tasks
    BY <1>1, TasksAssumption DEF CreateTask, JoinedInOrder, Tasks
  <2>3. \A t \in cursor+1..NumTasks : t # cursor
    BY <2>2 DEF Tasks
  <2>4. \A t \in cursor..NumTasks : thread[t] = "none"
    BY <1>1 DEF CreateTask, CreatedInOrder
  <2>5. QED
    BY <2>1, <2>2, <2>3, <2>4 DEF CreatedInOrder
<1>2. CASE AwaitReady
  BY <1>2 DEF AwaitReady, Advanced, CreatedInOrder
<1>3. CASE main' \notin {"create", "await"}
  BY <1>3 DEF CreatedInOrder
<1>4. CASE UNCHANGED <<main, cursor>> /\ \A t \in Tasks : thread[t] = "none" => thread'[t] = "none"
  <2>1. cursor \in 1..NumTasks + 1 => cursor..NumTasks \subseteq Tasks /\ cursor+1..NumTasks \subseteq Tasks
    BY TasksAssumption DEF Tasks
  <2>2. QED
    <3>1. SUFFICES ASSUME main \in {"create", "await"}
                   PROVE  CreatedInOrder'
      BY <1>4 DEF CreatedInOrder
    <3>2. cursor \in 1..NumTasks + 1
      BY TasksAssumption DEF TypeOK, Tasks
    <3>3. QED
      BY <1>4, <2>1, <3>1, <3>2 DEF CreatedInOrder
<1>5. Signal \/ Broadcast \/ Join => main' \notin {"create", "await"}
  BY DEF Signal, Broadcast, Advanced, Join, Returned
<1>6. ASSUME NEW t \in Tasks, Task(t) \/ Send(t)
      PROVE  UNCHANGED <<main, cursor>> /\ \A s \in Tasks : thread[s] = "none" => thread'[s] = "none"
  BY <1>6 DEF Task, NotifyReady, Wait, Receive, Send, Pushed, TypeOK
<1>7. UNCHANGED vars => UNCHANGED <<main, cursor, thread>>
  BY DEF vars
<1>8. QED
  BY <1>1, <1>2, <1>3, <1>4, <1>5, <1>6, <1>7 DEF Next, Main

-----------------------------------------------------------------------------
(* The order of a queue.                                                    *)

\* A push of m onto t, of a message greater than all before it or of TERMINATE.
LEMMA PushKeepsOrder ==
  ASSUME TypeOK, NEW t \in Tasks, InOrder(t), NEW m \in Messages \cup {TERMINATE},
         m = TERMINATE \/ m > sent, sent' >= sent, m <= sent', sent' \in Nat,
         msg_queue' = [msg_queue EXCEPT ![t] = Append(@, m)], handled' = handled,
         accepted'[t] = accepted[t] \cup ({m} \ {TERMINATE})
  PROVE  InOrder(t)'
<1> DEFINE P == Pushes(t)
<1>1. P \in Seq(Messages \cup {TERMINATE})
  BY DEF Pushes, TypeOK
<1>2. Pushes(t)' = Append(P, m)
  BY PushIsLast DEF Pushes, TypeOK
<1>3. /\ \A i \in DOMAIN P : P[i] \in 0..sent
      /\ \A i, j \in DOMAIN P :
           i < j /\ P[i] # TERMINATE /\ P[j] # TERMINATE => P[i] < P[j]
      /\ accepted[t] = {P[i] : i \in DOMAIN P} \ {TERMINATE}
  BY DEF InOrder
<1> DEFINE Q == Append(P, m)
<1> HIDE DEF P
<1>4. /\ DOMAIN Q = DOMAIN P \cup {Len(P) + 1}
      /\ \A i \in DOMAIN P : Q[i] = P[i] /\ i \in Nat /\ i <= Len(P)
      /\ Q[Len(P) + 1] = m /\ Len(P) \in Nat
  BY <1>1
<1> HIDE DEF Q
<1>5. \A i \in DOMAIN Q : Q[i] \in 0..sent'
  BY <1>3, <1>4 DEF TypeOK, Messages, TERMINATE
<1>6. ASSUME NEW i \in DOMAIN Q, NEW j \in DOMAIN Q,
             i < j, Q[i] # TERMINATE, Q[j] # TERMINATE
      PROVE  Q[i] < Q[j]
  <2>1. i \in DOMAIN P
    BY <1>4, <1>6
  <2>2. CASE j \in DOMAIN P
    BY <1>3, <1>4, <1>6, <2>1, <2>2
  <2>3. CASE j = Len(P) + 1
    BY <1>3, <1>4, <1>6, <2>1, <2>3 DEF TypeOK, Messages, TERMINATE
  <2>4. QED
    BY <1>4, <2>2, <2>3
<1>7. {Q[i] : i \in DOMAIN Q} = {P[i] : i \in DOMAIN P} \cup {m}
  BY <1>4
<1>8. QED
  BY <1>2, <1>3, <1>5, <1>6, <1>7 DEF InOrder, Q

\* What concerns task t is left alone.
LEMMA OrderStays ==
  ASSUME NEW t \in Tasks, InOrder(t), UNCHANGED <<msg_queue[t], handled[t], accepted[t]>>,
         sent' \in Nat, sent \in Nat, sent' >= sent
  PROVE  InOrder(t)'
<1>1. Pushes(t)' = Pushes(t)
  BY DEF Pushes
<1>2. 0..sent \subseteq 0..sent'
  OBVIOUS
<1>3. QED
  BY <1>1, <1>2 DEF InOrder

\* Every step keeps the order of every queue.
LEMMA NextInOrder == TypeOK /\ JoinedInOrder /\ (\A t \in Tasks : InOrder(t)) /\ [Next]_vars
                       => \A t \in Tasks : InOrder(t)'
<1> SUFFICES ASSUME TypeOK, JoinedInOrder, \A t \in Tasks : InOrder(t), [Next]_vars,
                    NEW t \in Tasks
             PROVE  InOrder(t)'
  OBVIOUS
<1>1. CASE UNCHANGED <<msg_queue, handled, accepted, sent>>
  BY <1>1, OrderStays DEF TypeOK
<1>2. CASE Broadcast
  <2>1. UNCHANGED <<handled, accepted, sent>> /\ cursor \in Tasks
    BY <1>2 DEF Broadcast, Advanced, JoinedInOrder
  <2>2. CASE Pushed(cursor, TERMINATE)
    <3>1. CASE t = cursor
      <4>1. accepted'[t] = accepted[t] \cup ({TERMINATE} \ {TERMINATE})
        BY <2>1
      <4>2. msg_queue' = [msg_queue EXCEPT ![t] = Append(@, TERMINATE)]
        BY <2>2, <3>1 DEF Pushed
      <4>3. sent \in Nat /\ TERMINATE <= sent /\ sent' >= sent
        BY <2>1 DEF TypeOK, TERMINATE
      <4>4. QED
        BY <2>1, <4>1, <4>2, <4>3, PushKeepsOrder
    <3>2. CASE t # cursor
      BY <2>1, <2>2, <3>2, OrderStays DEF Pushed, TypeOK
    <3>3. QED
      BY <3>1, <3>2
  <2>3. CASE UNCHANGED <<msg_queue, thread>>
    BY <2>1, <2>3, OrderStays DEF TypeOK
  <2>4. QED
    BY <1>2, <2>2, <2>3 DEF Broadcast, Advanced
<1>3. ASSUME NEW s \in Tasks, Receive(s) PROVE InOrder(t)'
  <2>1. UNCHANGED <<accepted, sent>> /\ msg_queue[s] # <<>>
    BY <1>3 DEF Receive
  <2>2. CASE t = s
    <3>1. msg_queue'[t] = Tail(msg_queue[t]) /\ handled'[t] = Append(handled[t], Head(msg_queue[t]))
      BY <1>3, <2>2 DEF Receive, TypeOK
    <3>2. Pushes(t)' = Pushes(t)
      BY <2>1, <2>2, <3>1, PopKeepsPushes DEF Pushes, TypeOK
    <3>3. QED
      BY <2>1, <3>2 DEF InOrder
  <2>3. CASE t # s
    BY <1>3, <2>1, <2>3, OrderStays DEF Receive, TypeOK
  <2>4. QED
    BY <2>2, <2>3
<1>4. ASSUME NEW s \in Tasks, Send(s) PROVE InOrder(t)'
  <2>1. handled' = handled /\ sent' = sent + 1 /\ sent + 1 \in Messages /\ sent \in Nat
    BY <1>4, TasksAssumption DEF Send, TypeOK, Messages
  <2>2. CASE Pushed(s, sent + 1) /\ accepted' = [accepted EXCEPT ![s] = @ \cup {sent + 1}]
    <3>1. CASE t = s
      <4>1. accepted'[t] = accepted[t] \cup ({sent + 1} \ {TERMINATE})
        BY <2>1, <2>2, <3>1 DEF TypeOK, TERMINATE
      <4>2. msg_queue' = [msg_queue EXCEPT ![t] = Append(@, sent + 1)]
        BY <2>2, <3>1 DEF Pushed
      <4>3. sent + 1 > sent /\ sent + 1 <= sent' /\ sent' >= sent /\ sent' \in Nat
        BY <2>1
      <4>4. QED
        BY <2>1, <4>1, <4>2, <4>3, PushKeepsOrder
    <3>2. CASE t # s
      BY <2>1, <2>2, <3>2, OrderStays DEF Pushed, TypeOK
    <3>3. QED
      BY <3>1, <3>2
  <2>3. CASE UNCHANGED <<msg_queue, thread, accepted>>
    BY <2>1, <2>3, OrderStays
  <2>4. QED
    BY <1>4, <2>2, <2>3 DEF Send
<1>5. CreateTask \/ AwaitReady \/ Signal \/ Join => UNCHANGED <<msg_queue, handled, accepted, sent>>
  BY DEF CreateTask, AwaitReady, Advanced, Signal, Join, Returned
<1>6. ASSUME NEW s \in Tasks, NotifyReady(s) \/ Wait(s)
      PROVE  UNCHANGED <<msg_queue, handled, accepted, sent>>
  BY <1>6 DEF NotifyReady, Wait
<1>7. UNCHANGED vars => UNCHANGED <<msg_queue, handled, accepted, sent>>
  BY DEF vars
<1>8. QED
  BY <1>1, <1>2, <1>3, <1>4, <1>5, <1>6, <1>7 DEF Next, Main, Task

\* A task that has handled TERMINATE handles nothing more.
LEMMA NextEndsOnTerminate ==
  TypeOK /\ JoinedInOrder /\ CreatedInOrder /\ (\A t \in Tasks : EndsOnTerminate(t)) /\ [Next]_vars
    => \A t \in Tasks : EndsOnTerminate(t)'
<1> SUFFICES ASSUME TypeOK, JoinedInOrder, CreatedInOrder, \A t \in Tasks : EndsOnTerminate(t),
                    [Next]_vars, NEW t \in Tasks
             PROVE  EndsOnTerminate(t)'
  OBVIOUS
<1>1. CASE /\ handled'[t] = handled[t]
           /\ thread[t] \in {"returned", "joined"} => thread'[t] \in {"returned", "joined"}
  BY <1>1 DEF EndsOnTerminate
<1>2. CASE CreateTask
  <2>1. thread[cursor] = "none" /\ cursor \in Tasks
    BY <1>2, TasksAssumption DEF CreateTask, CreatedInOrder, JoinedInOrder, Tasks
  <2>2. QED
    BY <1>1, <1>2, <2>1 DEF CreateTask, TypeOK
<1>3. CASE Join
  BY <1>1, <1>3 DEF Join, Advanced, Returned, TypeOK, JoinedInOrder
<1>4. ASSUME NEW s \in Tasks, Receive(s) PROVE EndsOnTerminate(t)'
  <2>1. CASE t = s
    <3> DEFINE h == handled[t]
               m == Head(msg_queue[t])
    <3>1. h \in Seq(Messages \cup {TERMINATE}) /\ thread[t] = "running"
      BY <1>4, <2>1 DEF Receive, TypeOK
    <3>2. handled'[t] = Append(h, m) /\ (m = TERMINATE => thread'[t] = "returned")
      BY <1>4, <2>1 DEF Receive, TypeOK
    <3>3. \A i \in DOMAIN h : h[i] # TERMINATE
      BY <3>1 DEF EndsOnTerminate
    <3> HIDE DEF h, m
    <3>4. \A i \in DOMAIN Append(h, m) : Append(h, m)[i] = TERMINATE
             => i = Len(Append(h, m)) /\ m = TERMINATE
      BY <3>1, <3>3
    <3>5. QED
      BY <3>2, <3>4 DEF EndsOnTerminate
  <2>2. CASE t # s
    BY <1>1, <1>4, <2>2 DEF Receive, TypeOK
  <2>3. QED
    BY <2>1, <2>2
<1>5. CASE AwaitReady \/ Signal \/ UNCHANGED vars
  BY <1>1, <1>5 DEF AwaitReady, Advanced, Signal, vars
<1>6. CASE Broadcast
  BY <1>1, <1>6 DEF Broadcast, Advanced, Pushed, TypeOK, JoinedInOrder
<1>7. ASSUME NEW s \in Tasks, NotifyReady(s) \/ Wait(s) \/ Send(s) PROVE EndsOnTerminate(t)'
  BY <1>1, <1>7 DEF NotifyReady, Wait, Send, Pushed, TypeOK
<1>8. QED
  BY <1>2, <1>3, <1>4, <1>5, <1>6, <1>7 DEF Next, Main, Task

-----------------------------------------------------------------------------
\* The invariant holds at the start,
LEMMA InitIInv == Init => IInv
<1> SUFFICES ASSUME Init PROVE IInv
  OBVIOUS
<1>1. TypeOK
  BY InitTypeOK
<1>2. JoinedInOrder /\ ExitMeansQuiet /\ CreatedInOrder
  BY TasksAssumption DEF Init, JoinedInOrder, ExitMeansQuiet, CreatedInOrder, Tasks
<1>3. ASSUME NEW t \in Tasks PROVE InOrder(t) /\ EndsOnTerminate(t)
  <2>1. handled[t] = <<>> /\ Pushes(t) = <<>> /\ accepted[t] = {}
    BY DEF Init, Pushes
  <2>2. QED
    BY <2>1 DEF InOrder, EndsOnTerminate
<1>4. QED
  BY <1>1, <1>2, <1>3 DEF IInv

\* and every step keeps it.
LEMMA NextIInv == IInv /\ [Next]_vars => IInv'
BY NextTypeOK, NextQuiet, NextCreated, NextInOrder, NextEndsOnTerminate DEF IInv

\* The tasks and their queues stay within their types.
THEOREM TypeCorrect == Spec => []TypeOK
<1>1. IInv => TypeOK
  BY DEF IInv
<1>2. QED
  BY <1>1, InitIInv, NextIInv, PTL DEF Spec

\* When main exits, whatever point of the startup the signal came at, no thread of
\* a task is left running on what the signal handler frees.
THEOREM ExitIsQuiet == Spec => []ExitMeansQuiet
<1>1. IInv => ExitMeansQuiet
  BY DEF IInv
<1>2. QED
  BY <1>1, InitIInv, NextIInv, PTL DEF Spec

\* A queue hands its task everything that was accepted, once, in order, and
\* nothing after TERMINATE, for any number of tasks and messages.
THEOREM QueuesKeepOrder == Spec => []NothingOvertakes
<1>1. IInv => NothingOvertakes
  BY DEF IInv, InOrder, EndsOnTerminate, Pushes, NothingOvertakes
<1>2. QED
  BY <1>1, InitIInv, NextIInv, PTL DEF Spec
=============================================================================
