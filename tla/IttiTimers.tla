----------------------------- MODULE IttiTimers -----------------------------
(***************************************************************************)
(* The timer service of the inter-task interface (itti_mw), which the SMF, *)
(* the UPF and the AMF share: one timer thread (timer_manager_task) and    *)
(* any number of threads that call timer_setup and timer_remove.           *)
(*                                                                         *)
(* One action is one stretch of code between two points at which another   *)
(* thread can be seen: a lock, an unlock, a wait, or a read of a field     *)
(* that the code reads without its lock (current_timer, timer_id).  Every  *)
(* critical section of m_timeout is one such stretch, so that lock needs   *)
(* no variable; m_timers is held across two and is `mTimers`.              *)
(***************************************************************************)
EXTENDS Naturals

CONSTANTS
    Users,      \* threads that set up and remove timers
    Intervals,  \* intervals a caller asks for, in clock ticks
    MaxNow,     \* bound of the clock
    MaxSetups,  \* bound of the number of timer_setup calls
    IdModulus   \* ids are unsigned: 2^32 in the code

ASSUME UsersAssumption == Users # {}
ASSUME BoundsAssumption == MaxNow \in Nat /\ MaxSetups \in Nat
ASSUME IntervalsAssumption == Intervals \subseteq Nat
ASSUME IdAssumption == IdModulus \in Nat /\ IdModulus > 1

INVALID_TIMER_ID == 0
Never == MaxNow + 1     \* the deadline of null_timer: 136 years ahead

\* A timer; obj tells apart the C++ objects whatever their ids (0: none).
Timer == [obj : 0..MaxSetups, id : 0..IdModulus-1, due : 0..Never]
\* The fault of an invalid id of 2^32, which an unsigned does not hold.
null_timer_all_ones == [obj |-> 0, id |-> IdModulus, due |-> Never]
null_timer == [obj |-> 0, id |-> INVALID_TIMER_ID, due |-> Never]

VARIABLES
    now,            \* system_clock
    timer_id,       \* the id counter
    timers,         \* the std::set, ordered by deadline alone
    current_timer,
    mTimers,        \* the holder of m_timers: a user, or "free"
    tpc,            \* where the timer thread is
    deadline,       \* until when wait_for waits
    message,        \* the itti_msg_timeout the timer thread is building
    upc,            \* where each user is
    local,          \* each user's pending timer (its id register before that)
    terminate,
    created,        \* number of timer objects constructed
    idOf,           \* history: the id each object was given
    fate,           \* history: what became of each object
    early,          \* history: objects removed (OK) before their deadline
    fired           \* history: number of TIME_OUTs sent for each object

timerVars == <<timers, current_timer>>
threadVars == <<tpc, deadline, message>>
userVars == <<upc, local, timer_id, created, idOf, early>>
vars == <<now, timers, current_timer, mTimers, tpc, deadline, message, upc,
          local, timer_id, created, idOf, early, terminate, fate, fired>>

Objs == 1..MaxSetups
NoMessage == [addressed |-> FALSE, obj |-> 0, due |-> Never]
\* lost: the set refused it, or dropped it for having the invalid id.
Fates == {"unused", "armed", "lost", "removed"}

TypeOK ==
    /\ now \in 0..MaxNow
    /\ timer_id \in 0..IdModulus-1
    /\ timers \subseteq Timer
    /\ current_timer \in Timer
    /\ mTimers \in Users \cup {"free"}
    /\ tpc \in {"top", "empty", "woken", "taken", "ahead", "waiting",
                "notified", "due", "build", "send", "stopped"}
    /\ deadline \in 0..Never
    /\ message \in [addressed : BOOLEAN, obj : 0..MaxSetups, due : 0..Never]
    /\ upc \in [Users -> {"idle", "increment", "insert", "notify"}]
    /\ local \in [Users -> Timer]
    /\ terminate \in BOOLEAN
    /\ created \in 0..MaxSetups
    /\ idOf \in [Objs -> 0..IdModulus-1]
    /\ fate \in [Objs -> Fates]
    /\ early \subseteq Objs
    /\ fired \in [Objs -> 0..2]

Init ==
    /\ now = 0
    /\ timer_id = 0
    /\ timers = {}
    /\ current_timer = null_timer
    /\ mTimers = "free"
    /\ tpc = "top"
    /\ deadline = 0
    /\ message = NoMessage
    /\ upc = [u \in Users |-> "idle"]
    /\ local = [u \in Users |-> null_timer]
    /\ terminate = FALSE
    /\ created = 0
    /\ idOf = [o \in Objs |-> INVALID_TIMER_ID]
    /\ fate = [o \in Objs |-> "unused"]
    /\ early = {}
    /\ fired = [o \in Objs |-> 0]

-----------------------------------------------------------------------------
(* std::set::insert with timer_comparator: a timer whose deadline equals    *)
(* that of a member is taken for that member and is not inserted.           *)
Collides(t) == \E s \in timers : s.due = t.due
\* The fault of a container that replaces the member instead.
InsertedInstead(t) == {s \in timers : s.due # t.due} \cup {t}
Inserted(t) == IF Collides(t) THEN timers ELSE timers \cup {t}
FateOfInsert(t) == [fate EXCEPT ![t.obj] = IF Collides(t) THEN "lost" ELSE "armed"]

\* *S.begin()
IsFirst(t, S) == t \in S /\ \A s \in S : t.due <= s.due

\* timers.erase(it), and the fault of leaving it out.
NotErased(t) == timers
Erased(t) == timers \ {t}

\* A notify reaches the timer thread only when it is inside the wait.
NotNotified == tpc
NotifyTimers == IF tpc = "empty" THEN "woken" ELSE tpc
NotifyTimeout == IF tpc = "waiting" THEN "notified" ELSE tpc

-----------------------------------------------------------------------------
(* The timer thread.                                                        *)

\* Top of the loop: `terminate` is read here and nowhere else.
Stop ==
    /\ tpc = "top"
    /\ terminate
    /\ tpc' = "stopped"
    /\ UNCHANGED <<now, timerVars, mTimers, deadline, message, userVars, terminate, fate, fired>>

\* while (timers.empty()) c_timers.wait(lx)
WaitForTimers ==
    /\ tpc = "woken" \/ (tpc = "top" /\ ~terminate)
    /\ mTimers = "free"
    /\ timers = {}
    /\ tpc' = "empty"
    /\ UNCHANGED <<now, timerVars, mTimers, deadline, message, userVars, terminate, fate, fired>>

\* Takes the earliest timer out of the set and gives m_timers back.
Take ==
    /\ tpc = "woken" \/ (tpc = "top" /\ ~terminate)
    /\ mTimers = "free"
    /\ \E t \in timers :
         /\ IsFirst(t, timers)
         /\ current_timer' = t
         /\ timers' = Erased(t)
    /\ tpc' = "taken"
    /\ UNCHANGED <<now, mTimers, deadline, message, userVars, terminate, fate, fired>>

\* if (current_timer.time_out > now()), without a lock
CheckDue ==
    /\ tpc = "taken"
    /\ tpc' = IF current_timer.due > now THEN "ahead" ELSE "due"
    /\ UNCHANGED <<now, timerVars, mTimers, deadline, message, userVars, terminate, fate, fired>>

\* Locks m_timeout, computes diff from current_timer and enters wait_for.
StartWait ==
    /\ tpc = "ahead"
    /\ deadline' = current_timer.due
    /\ tpc' = "waiting"
    /\ UNCHANGED <<now, timerVars, mTimers, message, userVars, terminate, fate, fired>>

\* The fault of taking every return of wait_for for a timeout.
WaitReturns ==
    /\ tpc = "waiting"
    /\ tpc' = "due"
    /\ UNCHANGED <<now, timerVars, mTimers, deadline, message, userVars, terminate, fate, fired>>

\* wait_for returns cv_status::timeout
WaitTimeout ==
    /\ tpc = "waiting"
    /\ now >= deadline
    /\ tpc' = "due"
    /\ UNCHANGED <<now, timerVars, mTimers, deadline, message, userVars, terminate, fate, fired>>

\* wait_for may return no_timeout although nobody notified.
SpuriousWakeup ==
    /\ tpc = "waiting"
    /\ tpc' = "notified"
    /\ UNCHANGED <<now, timerVars, mTimers, deadline, message, userVars, terminate, fate, fired>>

\* "other timer required ?": the timer goes back to the set.
Reinsert ==
    /\ tpc = "notified"
    /\ mTimers = "free"
    /\ \/ /\ current_timer.id # INVALID_TIMER_ID
          /\ timers' = Inserted(current_timer)
          /\ fate' = FateOfInsert(current_timer)
       \/ /\ current_timer.id = INVALID_TIMER_ID
          /\ timers' = timers
          /\ fate' = [o \in Objs |-> IF o = current_timer.obj THEN "lost" ELSE fate[o]]
    /\ current_timer' = null_timer
    /\ tpc' = "top"
    /\ UNCHANGED <<now, mTimers, deadline, message, userVars, terminate, fired>>

\* The message is built from current_timer, field by field, without m_timers.
ReadTask ==
    /\ tpc = "due"
    /\ message' = [message EXCEPT !.addressed = current_timer.obj # 0]
    /\ tpc' = "build"
    /\ UNCHANGED <<now, timerVars, mTimers, deadline, userVars, terminate, fate, fired>>

ReadId ==
    /\ tpc = "build"
    /\ message' = [message EXCEPT !.obj = current_timer.obj, !.due = current_timer.due]
    /\ tpc' = "send"
    /\ UNCHANGED <<now, timerVars, mTimers, deadline, userVars, terminate, fate, fired>>

\* send_msg; current_timer keeps the timer that has fired.
SendTimeout ==
    /\ tpc = "send"
    /\ fired' = [o \in Objs |->
                   IF message.addressed /\ o = message.obj /\ fired[o] < 2
                     THEN fired[o] + 1 ELSE fired[o]]
    /\ message' = NoMessage
    /\ tpc' = "top"
    /\ UNCHANGED <<now, timerVars, mTimers, deadline, userVars, terminate, fate>>

-----------------------------------------------------------------------------
(* The threads that use timers.                                             *)

\* increment_timer_id(): ++timer_id is a load and a store; m_timer_id, the
\* mutex declared for it, is never taken.
LoadId(u) ==
    /\ upc[u] = "idle"
    /\ created < MaxSetups
    /\ local' = [local EXCEPT ![u].id = timer_id]
    /\ upc' = [upc EXCEPT ![u] = "increment"]
    /\ UNCHANGED <<now, timerVars, mTimers, threadVars, timer_id, created,
                   idOf, early, terminate, fate, fired>>

\* The store, and the itti_timer constructor that computes the deadline.
StoreId(u) ==
    /\ upc[u] = "increment"
    /\ created < MaxSetups
    /\ \E i \in Intervals :
         LET id == (local[u].id + 1) % IdModulus IN
         /\ now + i <= MaxNow
         /\ timer_id' = id
         /\ created' = created + 1
         /\ idOf' = [idOf EXCEPT ![created + 1] = id]
         /\ local' = [local EXCEPT ![u] = [obj |-> created + 1, id |-> id, due |-> now + i]]
    /\ upc' = [upc EXCEPT ![u] = "insert"]
    /\ UNCHANGED <<now, timerVars, mTimers, threadVars, early, terminate, fate, fired>>

\* timers.insert(t); c_timers.notify_one()
Insert(u) ==
    /\ upc[u] = "insert"
    /\ mTimers = "free"
    /\ mTimers' = u
    /\ timers' = Inserted(local[u])
    /\ fate' = FateOfInsert(local[u])
    /\ tpc' = NotifyTimers
    /\ local' = [local EXCEPT ![u] = null_timer]
    /\ upc' = [upc EXCEPT ![u] = "notify"]
    /\ UNCHANGED <<now, current_timer, deadline, message, timer_id, created,
                   idOf, early, terminate, fired>>

\* timer_remove, first branch: the timer the timer thread holds, or held last.
RemoveCurrent(u) ==
    /\ upc[u] = "idle"
    /\ mTimers = "free"
    /\ \E o \in Objs : fate[o] # "unused" /\ idOf[o] = current_timer.id
    /\ fate' = [o \in Objs |-> IF o = current_timer.obj THEN "removed" ELSE fate[o]]
    /\ early' = IF now < current_timer.due
                  THEN early \cup ({current_timer.obj} \cap Objs) ELSE early
    /\ current_timer' = null_timer
    /\ tpc' = NotifyTimers
    /\ mTimers' = u
    /\ upc' = [upc EXCEPT ![u] = "notify"]
    /\ UNCHANGED <<now, timers, deadline, message, local, timer_id, created,
                   idOf, terminate, fired>>

\* Second branch: the first timer of the set with that id.  The third, an id
\* found nowhere, changes nothing.
RemovePending(u) ==
    /\ upc[u] = "idle"
    /\ mTimers = "free"
    /\ \E t \in timers :
         /\ t.id # current_timer.id
         /\ IsFirst(t, {s \in timers : s.id = t.id})
         /\ timers' = Erased(t)
         /\ fate' = [fate EXCEPT ![t.obj] = "removed"]
         /\ early' = IF now < t.due THEN early \cup {t.obj} ELSE early
    /\ UNCHANGED <<now, current_timer, mTimers, threadVars, upc, local, timer_id,
                   created, idOf, terminate, fired>>

\* Locks m_timeout, c_timeout.notify_one(), and both locks are given back.
WakeTimerThread(u) ==
    /\ upc[u] = "notify"
    /\ tpc' = NotifyTimeout
    /\ mTimers' = "free"
    /\ upc' = [upc EXCEPT ![u] = "idle"]
    /\ UNCHANGED <<now, timerVars, deadline, message, local, timer_id, created,
                   idOf, early, terminate, fate, fired>>

\* send_terminate_msg, as far as the timer thread is concerned.
Terminate ==
    /\ ~terminate
    /\ terminate' = TRUE
    /\ UNCHANGED <<now, timerVars, mTimers, threadVars, userVars, fate, fired>>

Tick ==
    /\ now < MaxNow
    /\ now' = now + 1
    /\ UNCHANGED <<timerVars, mTimers, threadVars, userVars, terminate, fate, fired>>

-----------------------------------------------------------------------------
TimerThread ==
    \/ Stop \/ WaitForTimers \/ Take \/ CheckDue \/ StartWait \/ WaitTimeout
    \/ Reinsert \/ ReadTask \/ ReadId \/ SendTimeout

\* What a thread does once it is inside timer_setup or timer_remove.
Finish(u) == StoreId(u) \/ Insert(u) \/ WakeTimerThread(u)
User(u) == LoadId(u) \/ RemoveCurrent(u) \/ RemovePending(u) \/ Finish(u)

Next ==
    \/ TimerThread
    \/ SpuriousWakeup
    \/ \E u \in Users : User(u)
    \/ Terminate
    \/ Tick

Spec == Init /\ [][Next]_vars

\* Threads run and time passes; nothing obliges a caller to start a call.
Fairness ==
    /\ WF_vars(TimerThread)
    /\ WF_vars(Tick)
    /\ \A u \in Users : WF_vars(Finish(u))

FairSpec == Spec /\ Fairness

-----------------------------------------------------------------------------
(* Properties.                                                              *)

InFlight == IF tpc \in {"taken", "ahead", "waiting", "notified", "due", "build"}
              THEN {current_timer.obj}
              ELSE IF tpc = "send" THEN {message.obj} ELSE {}

\* Whatever the callers do to the timer the thread holds while the thread reads
\* it without a lock, a timer that is armed and has not fired is in the set or
\* in the hands of the timer thread: none evaporates between the two.
NoTimerEvaporates ==
    \A o \in Objs :
      fate[o] = "armed" /\ fired[o] = 0 =>
        o \in {t.obj : t \in timers} \cup InFlight

\* A timer for which timer_remove answered OK before its deadline never produces
\* a TIME_OUT, even when the removal hits the thread between the read of
\* current_timer and the wait, or between the wait and the construction of the
\* message.
CancelledBeforeDueNeverFires == \A o \in early : fired[o] = 0

\* A timer is sent once at most, although current_timer still names it after
\* it was sent and although the thread puts it back after every wake-up.
FiresAtMostOnce == \A o \in Objs : fired[o] < 2

\* No TIME_OUT goes to a task before the deadline of its timer, whichever
\* notification woke the thread and whatever current_timer became meanwhile.
NeverFiresEarly ==
    tpc = "send" /\ message.addressed /\ message.obj # 0 => message.due <= now

\* What timer_remove's documentation takes for granted ("unique timer id"): two
\* timers that are both armed have different ids.
UniqueIds ==
    \A o, p \in Objs :
      fate[o] = "armed" /\ fired[o] = 0 /\ fate[p] = "armed" /\ fired[p] = 0
        /\ idOf[o] = idOf[p] => o = p

\* What timer_setup's documentation says ("0 on failure, timer id otherwise"):
\* a call that returns an id has armed a timer.
SetupReportsFailure ==
    \A o \in Objs : fate[o] = "lost" => idOf[o] = INVALID_TIMER_ID

\* Every timer fires in the end, unless the set refused it, a caller removed some
\* timer, or the middleware was terminated: a notify that the thread misses
\* delays a timer, but the timer the thread then waits for ends the delay.
EveryTimerFires ==
    \A o \in Objs :
      fate[o] = "armed" ~>
        fired[o] > 0 \/ fate[o] = "lost" \/ terminate \/ \E p \in Objs : fate[p] = "removed"

\* What timer_remove says its notify is for ("wake up thread timer if
\* necessary"): the removal of a timer costs no other timer its firing.
OtherTimersFire ==
    \A o \in Objs :
      fate[o] = "armed" ~> fired[o] > 0 \/ fate[o] \in {"lost", "removed"} \/ terminate
=============================================================================
