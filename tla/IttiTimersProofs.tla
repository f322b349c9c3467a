-------------------------- MODULE IttiTimersProofs --------------------------
(***************************************************************************)
(* Proofs about IttiTimers, for any callers, intervals and bounds: the four *)
(* safety properties of the timer service.                                  *)
(*                                                                          *)
(* The argument is one of places.  A timer object is in at most one of      *)
(* them: with the caller that made it, in the set, with the timer thread,   *)
(* in the message the thread builds.  On its way it has not fired and was    *)
(* not removed early; and from the moment the thread stops waiting until it  *)
(* takes the next timer, the one it holds is due.                           *)
(***************************************************************************)
EXTENDS IttiTimers, TLAPS

\* Objects on their way to a TIME_OUT: made, not fired, not removed early.
Live(o) == o \in 1..created /\ fired[o] = 0 /\ o \notin early

Holding == {"taken", "ahead", "waiting", "notified", "due", "build"}
Early == {"taken", "ahead", "waiting", "notified"}

\* The set: no object twice.
SetOK ==
    /\ \A t \in timers : Live(t.obj)
    /\ \A s, t \in timers : s.obj = t.obj => s = t

\* The timer thread's current_timer, which it keeps after it has fired.
CurrentOK ==
    /\ current_timer.obj = 0 => current_timer = null_timer
    /\ current_timer.obj # 0 =>
         /\ current_timer.obj \in 1..created \ early
         /\ \A t \in timers : t.obj # current_timer.obj
         /\ tpc \in Holding => Live(current_timer.obj)
         /\ tpc \notin Early => current_timer.due <= now
         /\ tpc = "waiting" => deadline = current_timer.due
         /\ tpc = "build" => message.addressed
         /\ tpc = "send" => message.obj = current_timer.obj

\* The message, which names an object only while it is about to be sent.
MessageOK ==
    message.obj # 0 =>
      /\ tpc = "send"
      /\ Live(message.obj)
      /\ message.addressed
      /\ message.due <= now
      /\ \A t \in timers : t.obj # message.obj

\* Each caller's own timer, before it is inserted.
LocalOK ==
    \A u \in Users : upc[u] = "insert" =>
      /\ Live(local[u].obj)
      /\ local[u].obj \notin {current_timer.obj, message.obj}
      /\ \A t \in timers : t.obj # local[u].obj
      /\ \A v \in Users \ {u} : upc[v] = "insert" => local[v].obj # local[u].obj

\* What has happened to the objects, and that nothing has to the others.
HistoryOK ==
    /\ \A o \in Objs : fired[o] < 2
    /\ \A o \in Objs : o > created => fired[o] = 0
    /\ early \subseteq 1..created
    /\ \A o \in early : fired[o] = 0

\* The inductive invariant.
Places == SetOK /\ CurrentOK /\ MessageOK /\ LocalOK /\ HistoryOK

IInv == TypeOK /\ Places /\ NoTimerEvaporates

-----------------------------------------------------------------------------
(* Types.                                                                   *)

\* null_timer is a timer like any other.
LEMMA NullTimerType == null_timer \in Timer
BY BoundsAssumption, IdAssumption DEF null_timer, Timer, Never, INVALID_TIMER_ID

\* The fields of a timer.
LEMMA TimerType ==
  ASSUME NEW t \in Timer
  PROVE  t.obj \in 0..MaxSetups /\ t.id \in 0..IdModulus-1 /\ t.due \in 0..Never
BY DEF Timer

\* The middleware starts within its types.
LEMMA InitTypeOK == Init => TypeOK
<1> SUFFICES ASSUME Init PROVE TypeOK
  OBVIOUS
<1> USE BoundsAssumption, IdAssumption, NullTimerType DEF Init
<1>1. now \in 0..MaxNow /\ timer_id \in 0..IdModulus-1 /\ created \in 0..MaxSetups
  OBVIOUS
<1>2. deadline \in 0..Never /\ message \in [addressed : BOOLEAN, obj : 0..MaxSetups, due : 0..Never]
  BY DEF NoMessage, Never
<1>3. idOf \in [Objs -> 0..IdModulus-1] /\ fired \in [Objs -> 0..2]
  BY DEF INVALID_TIMER_ID
<1>4. fate \in [Objs -> Fates] /\ early \subseteq Objs
  BY DEF Fates
<1>5. upc \in [Users -> {"idle", "increment", "insert", "notify"}] /\ local \in [Users -> Timer]
  OBVIOUS
<1>6. QED
  BY <1>1, <1>2, <1>3, <1>4, <1>5 DEF TypeOK

\* std::set::insert keeps the types, whether it inserts or not.
LEMMA InsertedType ==
  ASSUME TypeOK, NEW t \in Timer
  PROVE  Inserted(t) \subseteq Timer /\ FateOfInsert(t) \in [Objs -> Fates]
BY DEF TypeOK, Inserted, FateOfInsert, Fates

\* Every step keeps the types; that a removed timer has an object is SetOK's.
LEMMA NextTypeOK == TypeOK /\ SetOK /\ [Next]_vars => TypeOK'
<1> SUFFICES ASSUME TypeOK, SetOK, [Next]_vars PROVE TypeOK'
  OBVIOUS
<1> USE NullTimerType DEF TypeOK, timerVars, threadVars, userVars
<1>1. CASE Stop
  BY <1>1 DEF Stop
<1>2. CASE WaitForTimers
  BY <1>2 DEF WaitForTimers
<1>3. CASE Take
  BY <1>3 DEF Take, Erased
<1>4. CASE CheckDue
  BY <1>4 DEF CheckDue
<1>5. CASE StartWait
  BY <1>5, TimerType DEF StartWait
<1>6. CASE WaitTimeout
  BY <1>6 DEF WaitTimeout
<1>7. CASE SpuriousWakeup
  BY <1>7 DEF SpuriousWakeup
<1>8. CASE Reinsert
  <2>1. timers' \subseteq Timer
    BY <1>8, InsertedType DEF Reinsert
  <2>2. fate' \in [Objs -> Fates]
    <3>1. "lost" \in Fates
      BY DEF Fates
    <3>2. QED
      BY <1>8, <3>1, InsertedType DEF Reinsert
  <2>3. QED
    BY <1>8, <2>1, <2>2 DEF Reinsert
<1>9. CASE ReadTask
  BY <1>9 DEF ReadTask
<1>10. CASE ReadId
  <2>1. message' \in [addressed : BOOLEAN, obj : 0..MaxSetups, due : 0..Never]
    BY <1>10, TimerType DEF ReadId
  <2>2. QED
    BY <1>10, <2>1 DEF ReadId
<1>11. CASE SendTimeout
  <2>1. message' \in [addressed : BOOLEAN, obj : 0..MaxSetups, due : 0..Never]
    BY <1>11, BoundsAssumption DEF SendTimeout, NoMessage, Never
  <2>2. fired' \in [Objs -> 0..2]
    BY <1>11 DEF SendTimeout
  <2>3. QED
    BY <1>11, <2>1, <2>2 DEF SendTimeout
<1>12. CASE Terminate
  BY <1>12 DEF Terminate
<1>13. CASE Tick
  <2>1. now' \in 0..MaxNow
    BY <1>13, BoundsAssumption DEF Tick
  <2>2. QED
    BY <1>13, <2>1 DEF Tick
<1>14. ASSUME NEW u \in Users, LoadId(u) PROVE TypeOK'
  <2>1. local' \in [Users -> Timer]
    <3>1. [local[u] EXCEPT !.id = timer_id] \in Timer
      BY DEF Timer
    <3>2. QED
      BY <1>14, <3>1 DEF LoadId
  <2>2. QED
    BY <1>14, <2>1 DEF LoadId
<1>15. ASSUME NEW u \in Users, StoreId(u) PROVE TypeOK'
  <2> PICK i \in Intervals : now + i <= MaxNow /\ created < MaxSetups
        /\ timer_id' = (local[u].id + 1) % IdModulus
        /\ created' = created + 1
        /\ idOf' = [idOf EXCEPT ![created + 1] = (local[u].id + 1) % IdModulus]
        /\ local' = [local EXCEPT ![u] =
             [obj |-> created + 1, id |-> (local[u].id + 1) % IdModulus, due |-> now + i]]
    BY <1>15 DEF StoreId
  <2> USE BoundsAssumption, IntervalsAssumption, IdAssumption
  <2>1. timer_id' \in 0..IdModulus-1
    BY TimerType
  <2>2. created' \in 0..MaxSetups /\ created + 1 \in Objs
    BY DEF Objs
  <2>3. idOf' \in [Objs -> 0..IdModulus-1]
    BY <2>1
  <2>4. local' \in [Users -> Timer]
    <3>1. [obj |-> created + 1, id |-> timer_id', due |-> now + i] \in Timer
      BY <2>1 DEF Timer, Never
    <3>2. QED
      BY <3>1
  <2>5. QED
    BY <1>15, <2>1, <2>2, <2>3, <2>4 DEF StoreId
<1>16. ASSUME NEW u \in Users, Insert(u) PROVE TypeOK'
  <2>1. timers' \subseteq Timer /\ fate' \in [Objs -> Fates]
    BY <1>16, InsertedType DEF Insert
  <2>2. tpc' \in {tpc, "woken"}
    BY <1>16 DEF Insert, NotifyTimers
  <2>3. QED
    BY <1>16, <2>1, <2>2 DEF Insert
<1>17. ASSUME NEW u \in Users, RemoveCurrent(u) PROVE TypeOK'
  <2>1. fate' \in [Objs -> Fates]
    BY <1>17 DEF RemoveCurrent, Fates
  <2>2. tpc' \in {tpc, "woken"}
    BY <1>17 DEF RemoveCurrent, NotifyTimers
  <2>3. early' \subseteq Objs
    BY <1>17 DEF RemoveCurrent
  <2>4. QED
    BY <1>17, <2>1, <2>2, <2>3 DEF RemoveCurrent
<1>18. ASSUME NEW u \in Users, RemovePending(u) PROVE TypeOK'
  <2> PICK t \in timers : /\ timers' = timers \ {t}
                          /\ fate' = [fate EXCEPT ![t.obj] = "removed"]
                          /\ early' = IF now < t.due THEN early \cup {t.obj} ELSE early
    BY <1>18 DEF RemovePending, Erased
  <2>1. t.obj \in Objs
    BY BoundsAssumption DEF SetOK, Live, Objs
  <2>2. fate' \in [Objs -> Fates] /\ early' \subseteq Objs
    BY <2>1 DEF Fates
  <2>3. QED
    BY <1>18, <2>2 DEF RemovePending, Erased
<1>19. ASSUME NEW u \in Users, WakeTimerThread(u) PROVE TypeOK'
  BY <1>19 DEF WakeTimerThread, NotifyTimeout
<1>20. CASE UNCHANGED vars
  BY <1>20 DEF vars
<1>21. QED
  BY <1>1, <1>2, <1>3, <1>4, <1>5, <1>6, <1>7, <1>8, <1>9, <1>10, <1>11, <1>12, <1>13,
     <1>14, <1>15, <1>16, <1>17, <1>18, <1>19, <1>20 DEF Next, TimerThread, User, Finish

-----------------------------------------------------------------------------
(* Places.                                                                  *)

\* Every step moves an object from one place to the next, or out.
LEMMA NextPlaces == IInv /\ [Next]_vars => Places'
<1> SUFFICES ASSUME IInv, [Next]_vars PROVE Places'
  OBVIOUS
<1> USE BoundsAssumption, IntervalsAssumption, NullTimerType, TimerType
    DEF IInv, TypeOK, Places, SetOK, CurrentOK, MessageOK, LocalOK, HistoryOK,
        Live, Holding, Early, Objs, timerVars, threadVars, userVars
<1>1. CASE Stop
  BY <1>1 DEF Stop
<1>2. CASE WaitForTimers
  BY <1>2 DEF WaitForTimers
<1>3. CASE Take
  <2> PICK t \in timers : current_timer' = t /\ timers' = timers \ {t}
    BY <1>3 DEF Take, Erased
  <2>1. SetOK' /\ MessageOK' /\ HistoryOK'
    BY <1>3 DEF Take, Erased
  <2>2. CurrentOK'
    BY <1>3, SMTT(20) DEF Take, Erased
  <2>3. LocalOK'
    BY <1>3, SMTT(20) DEF Take, Erased
  <2>4. QED
    BY <2>1, <2>2, <2>3
<1>4. CASE CheckDue
  BY <1>4 DEF CheckDue
<1>5. CASE StartWait
  BY <1>5 DEF StartWait
<1>6. CASE WaitTimeout
  BY <1>6 DEF WaitTimeout
<1>7. CASE SpuriousWakeup
  BY <1>7 DEF SpuriousWakeup
<1>8. CASE Reinsert
  <2>1. current_timer.obj # 0 \/ timers' = timers
    BY <1>8 DEF Reinsert, null_timer
  <2>2. timers' \subseteq timers \cup {current_timer}
    BY <1>8 DEF Reinsert, Inserted
  <2>3. SetOK'
    BY <1>8, <2>1, <2>2 DEF Reinsert
  <2>4. CurrentOK' /\ HistoryOK' /\ MessageOK'
    BY <1>8 DEF Reinsert, null_timer
  <2>5. LocalOK'
    BY <1>8, <2>1, <2>2, SMTT(20) DEF Reinsert, null_timer
  <2>6. QED
    BY <2>3, <2>4, <2>5
<1>9. CASE ReadTask
  <2>1. SetOK' /\ HistoryOK'
    BY <1>9 DEF ReadTask, NoMessage
  <2>2. CurrentOK'
    BY <1>9 DEF ReadTask, NoMessage
  <2>3. MessageOK' /\ LocalOK'
    BY <1>9 DEF ReadTask, NoMessage
  <2>4. QED
    BY <2>1, <2>2, <2>3
<1>10. CASE ReadId
  BY <1>10 DEF ReadId
<1>11. CASE SendTimeout
  <2>1. SetOK' /\ HistoryOK'
    BY <1>11 DEF SendTimeout, NoMessage
  <2>2. CurrentOK'
    BY <1>11 DEF SendTimeout, NoMessage
  <2>3. MessageOK' /\ LocalOK'
    BY <1>11 DEF SendTimeout, NoMessage
  <2>4. QED
    BY <2>1, <2>2, <2>3
<1>12. CASE Terminate
  BY <1>12 DEF Terminate
<1>13. CASE Tick
  <2>1. SetOK' /\ HistoryOK'
    BY <1>13 DEF Tick
  <2>2. CurrentOK'
    BY <1>13 DEF Tick
  <2>3. MessageOK' /\ LocalOK'
    BY <1>13 DEF Tick
  <2>4. QED
    BY <2>1, <2>2, <2>3
<1>14. ASSUME NEW u \in Users, LoadId(u) PROVE Places'
  BY <1>14 DEF LoadId
<1>15. ASSUME NEW u \in Users, StoreId(u) PROVE Places'
  <2> PICK n \in Objs : n = created + 1 /\ created' = n /\ local'[u].obj = n
    BY <1>15 DEF StoreId
  <2>2. upc' = [upc EXCEPT ![u] = "insert"] /\ \A v \in Users \ {u} : local'[v] = local[v]
    BY <1>15 DEF StoreId
  <2>3. UNCHANGED <<now, timers, current_timer, tpc, deadline, message, fired, early>>
    BY <1>15 DEF StoreId
  <2>4. (\A o : Live(o) => Live(o)' /\ o # n) /\ Live(n)'
    BY <2>3, SMTT(20)
  <2>5. SetOK' /\ MessageOK'
    BY <2>3, <2>4
  <2>6. CurrentOK'
    BY <2>3, <2>4
  <2>7. HistoryOK'
    BY <2>3
  <2>8. LocalOK'
    <3> SUFFICES ASSUME NEW v \in Users, upc'[v] = "insert"
        PROVE  /\ Live(local[v].obj)'
               /\ local'[v].obj \notin {current_timer.obj, message.obj}
               /\ \A t \in timers : t.obj # local'[v].obj
               /\ \A w \in Users \ {v} : upc'[w] = "insert" => local'[w].obj # local'[v].obj
      BY <2>3
    <3>1. \A w \in Users \ {u} : upc'[w] = "insert" => upc[w] = "insert" /\ Live(local[w].obj)
      BY <2>2
    <3>2. CASE v = u
      <4>1. Live(local[v].obj)'
        BY <2>3, <3>2
      <4>2. n \notin {current_timer.obj, message.obj}
        <5>1. current_timer.obj \in 0..created
          OBVIOUS
        <5>2. message.obj \in 0..created
          OBVIOUS
        <5>3. QED
          BY <5>1, <5>2
      <4>3. \A t \in timers : t.obj # n
        OBVIOUS
      <4>4. \A w \in Users \ {v} : upc'[w] = "insert" => local'[w].obj # n
        BY <2>2, <3>1, <3>2, SMTT(20)
      <4>5. local'[v].obj = n
        BY <2>3, <3>2
      <4>6. QED
        BY <4>1, <4>2, <4>3, <4>4, <4>5
    <3>3. CASE v # u
      <4>1. upc[v] = "insert" /\ local'[v] = local[v] /\ local[v].obj # n
        BY <2>2, <3>1, <3>3
      <4>2. Live(local[v].obj)'
        BY <2>3, <4>1
      <4>3. \A w \in Users \ {v} : upc'[w] = "insert" => local'[w].obj # local[v].obj
        BY <2>2, <3>1, <4>1
      <4>4. QED
        BY <4>1, <4>2, <4>3
    <3>4. QED
      BY <3>2, <3>3
  <2>9. QED
    BY <2>5, <2>6, <2>7, <2>8
<1>16. ASSUME NEW u \in Users, Insert(u) PROVE Places'
  <2>1. timers' \subseteq timers \cup {local[u]} /\ upc[u] = "insert"
    BY <1>16 DEF Insert, Inserted
  <2>2. UNCHANGED <<now, current_timer, deadline, message, created, early, fired>>
    BY <1>16 DEF Insert
  <2>3. tpc' = tpc \/ (tpc = "empty" /\ tpc' = "woken")
    BY <1>16 DEF Insert, NotifyTimers
  <2>4. \A v \in Users : upc'[v] = "insert" => v # u /\ upc[v] = "insert" /\ local'[v] = local[v]
    BY <1>16 DEF Insert
  <2>5. SetOK' /\ HistoryOK'
    BY <2>1, <2>2
  <2>6. CurrentOK' /\ MessageOK'
    BY <2>1, <2>2, <2>3
  <2>7. LocalOK'
    <3> SUFFICES ASSUME NEW v \in Users, upc'[v] = "insert"
        PROVE  /\ Live(local[v].obj)'
               /\ local'[v].obj \notin {current_timer.obj, message.obj}
               /\ \A t \in timers' : t.obj # local'[v].obj
               /\ \A w \in Users \ {v} : upc'[w] = "insert" => local'[w].obj # local'[v].obj
      BY <2>2
    <3>1. v # u /\ upc[v] = "insert" /\ local'[v] = local[v]
      BY <2>4
    <3>2. local[v].obj # local[u].obj
      BY <2>1, <3>1
    <3>3. QED
      BY <2>1, <2>2, <2>4, <3>1, <3>2, SMTT(20)
  <2>8. QED
    BY <2>5, <2>6, <2>7
<1>17. ASSUME NEW u \in Users, RemoveCurrent(u) PROVE Places'
  <2>1. UNCHANGED <<now, timers, deadline, message, created, fired>> /\ current_timer' = null_timer
    BY <1>17 DEF RemoveCurrent
  <2>2. tpc' = tpc \/ (tpc = "empty" /\ tpc' = "woken")
    BY <1>17 DEF RemoveCurrent, NotifyTimers
  <2>3. early' = early \/
          (current_timer.obj # 0 /\ now < current_timer.due /\ early' = early \cup {current_timer.obj})
    BY <1>17 DEF RemoveCurrent
  <2>4. \A o : Live(o) /\ o # current_timer.obj => Live(o)'
    BY <2>1, <2>3
  <2>5. SetOK'
    BY <2>1, <2>4, SMTT(20)
  <2>6. HistoryOK'
    <3>1. current_timer.obj # 0 /\ now < current_timer.due => Live(current_timer.obj)
      OBVIOUS
    <3>2. QED
      BY <2>1, <2>3, <3>1
  <2>7. CurrentOK'
    BY <2>1 DEF null_timer
  <2>8. MessageOK'
    BY <2>1, <2>2, <2>3
  <2>9. LocalOK'
    <3>1. \A v \in Users : upc'[v] = "insert" => upc[v] = "insert" /\ local'[v] = local[v]
      BY <1>17 DEF RemoveCurrent
    <3>2. SUFFICES ASSUME NEW v \in Users, upc'[v] = "insert"
          PROVE  /\ Live(local[v].obj)'
                 /\ local'[v].obj \notin {0, message.obj}
                 /\ \A t \in timers : t.obj # local'[v].obj
                 /\ \A w \in Users \ {v} : upc'[w] = "insert" => local'[w].obj # local'[v].obj
      BY <2>1 DEF null_timer
    <3>3. Live(local[v].obj) /\ local[v].obj # current_timer.obj
      BY <3>1, <3>2
    <3>4. Live(local[v].obj)'
      BY <2>1, <2>3, <3>1, <3>2, <3>3
    <3>5. ASSUME NEW w \in Users \ {v}, upc'[w] = "insert" PROVE local'[w].obj # local'[v].obj
      <4>1. upc[w] = "insert" /\ local'[w] = local[w]
        BY <3>1, <3>5
      <4>2. upc[v] = "insert" /\ local'[v] = local[v]
        BY <3>1, <3>2
      <4>3. QED
        BY <4>1, <4>2
    <3>6. local[v].obj # 0 /\ local[v].obj # message.obj /\ \A t \in timers : t.obj # local[v].obj
      BY <3>1, <3>2
    <3>7. QED
      BY <2>1, <3>1, <3>2, <3>4, <3>5, <3>6
  <2>10. QED
    BY <2>5, <2>6, <2>7, <2>8, <2>9
<1>18. ASSUME NEW u \in Users, RemovePending(u) PROVE Places'
  <2> PICK t \in timers : timers' = timers \ {t} /\ early' \in {early, early \cup {t.obj}}
    BY <1>18 DEF RemovePending, Erased
  <2>1. UNCHANGED <<now, current_timer, tpc, deadline, message, upc, local, created, fired>>
    BY <1>18 DEF RemovePending, Erased
  <2>2. \A o : Live(o) /\ o # t.obj => Live(o)'
    BY <2>1
  <2>3. SetOK'
    BY <2>1, <2>2
  <2>4. HistoryOK'
    BY <2>1, <2>2
  <2>5. CurrentOK' /\ MessageOK'
    BY <2>1, <2>2
  <2>6. LocalOK'
    <3> SUFFICES ASSUME NEW v \in Users, upc[v] = "insert"
        PROVE  /\ Live(local[v].obj)'
               /\ local[v].obj \notin {current_timer.obj, message.obj}
               /\ \A s \in timers' : s.obj # local[v].obj
               /\ \A w \in Users \ {v} : upc[w] = "insert" => local[w].obj # local[v].obj
      BY <2>1
    <3>1. Live(local[v].obj) /\ local[v].obj # t.obj
      OBVIOUS
    <3>2. Live(local[v].obj)'
      BY <2>1, <2>2, <3>1
    <3>3. QED
      BY <3>2
  <2>7. QED
    BY <2>3, <2>4, <2>5, <2>6
<1>19. ASSUME NEW u \in Users, WakeTimerThread(u) PROVE Places'
  BY <1>19 DEF WakeTimerThread, NotifyTimeout
<1>20. CASE UNCHANGED vars
  BY <1>20 DEF vars
<1>21. QED
  BY <1>1, <1>2, <1>3, <1>4, <1>5, <1>6, <1>7, <1>8, <1>9, <1>10, <1>11, <1>12, <1>13,
     <1>14, <1>15, <1>16, <1>17, <1>18, <1>19, <1>20 DEF Next, TimerThread, User, Finish

\* No step lets go of an armed timer without putting it somewhere.
LEMMA NextNoTimerEvaporates == IInv /\ [Next]_vars => NoTimerEvaporates'
<1> SUFFICES ASSUME IInv, [Next]_vars, NEW o \in Objs, fate'[o] = "armed", fired'[o] = 0
    PROVE  (o \in {t.obj : t \in timers} \cup InFlight)'
  BY DEF NoTimerEvaporates
<1> USE DEF IInv, TypeOK, InFlight, Objs, timerVars, threadVars, userVars
<1>0. fate[o] = "armed" /\ fired[o] = 0 => o \in {t.obj : t \in timers} \cup InFlight
  BY DEF NoTimerEvaporates
<1>1. CASE Stop
  BY <1>0, <1>1 DEF Stop
<1>2. CASE WaitForTimers
  BY <1>0, <1>2 DEF WaitForTimers
<1>3. CASE Take
  BY <1>0, <1>3 DEF Take, Erased
<1>4. CASE CheckDue
  BY <1>0, <1>4 DEF CheckDue
<1>5. CASE StartWait
  BY <1>0, <1>5 DEF StartWait
<1>6. CASE WaitTimeout
  BY <1>0, <1>6 DEF WaitTimeout
<1>7. CASE SpuriousWakeup
  BY <1>0, <1>7 DEF SpuriousWakeup
<1>8. CASE Reinsert
  <2>1. tpc = "notified" /\ tpc' = "top" /\ fired' = fired
    BY <1>8 DEF Reinsert
  <2>2. CASE current_timer.id = INVALID_TIMER_ID
    <3>1. timers' = timers /\ fate' = [p \in Objs |-> IF p = current_timer.obj THEN "lost" ELSE fate[p]]
      BY <1>8, <2>2 DEF Reinsert
    <3>2. QED
      BY <1>0, <2>1, <3>1
  <2>3. CASE current_timer.id # INVALID_TIMER_ID
    <3>1. timers' = Inserted(current_timer) /\ fate' = FateOfInsert(current_timer)
      BY <1>8, <2>3 DEF Reinsert
    <3>2. CASE Collides(current_timer)
      BY <1>0, <2>1, <3>1, <3>2 DEF Inserted, FateOfInsert
    <3>3. CASE ~Collides(current_timer)
      BY <1>0, <2>1, <3>1, <3>3 DEF Inserted, FateOfInsert
    <3>4. QED
      BY <3>2, <3>3
  <2>4. QED
    BY <2>2, <2>3
<1>9. CASE ReadTask
  BY <1>0, <1>9 DEF ReadTask
<1>10. CASE ReadId
  BY <1>0, <1>10 DEF ReadId
<1>11. CASE SendTimeout
  <2>1. tpc = "send" /\ timers' = timers /\ (o = message.obj => ~message.addressed)
    BY <1>11 DEF SendTimeout
  <2>2. o # message.obj
    BY <2>1 DEF Places, MessageOK
  <2>3. fate[o] = "armed" /\ fired[o] = 0
    BY <1>11, <2>2 DEF SendTimeout
  <2>4. QED
    BY <1>0, <2>1, <2>2, <2>3
<1>12. CASE Terminate
  BY <1>0, <1>12 DEF Terminate
<1>13. CASE Tick
  BY <1>0, <1>13 DEF Tick
<1>14. ASSUME NEW u \in Users, LoadId(u) PROVE (o \in {t.obj : t \in timers} \cup InFlight)'
  BY <1>0, <1>14 DEF LoadId
<1>15. ASSUME NEW u \in Users, StoreId(u) PROVE (o \in {t.obj : t \in timers} \cup InFlight)'
  BY <1>0, <1>15 DEF StoreId
<1>16. ASSUME NEW u \in Users, Insert(u) PROVE (o \in {t.obj : t \in timers} \cup InFlight)'
  BY <1>0, <1>16 DEF Insert, Inserted, FateOfInsert, Collides, NotifyTimers
<1>17. ASSUME NEW u \in Users, RemoveCurrent(u) PROVE (o \in {t.obj : t \in timers} \cup InFlight)'
  BY <1>0, <1>17 DEF RemoveCurrent, NotifyTimers
<1>18. ASSUME NEW u \in Users, RemovePending(u) PROVE (o \in {t.obj : t \in timers} \cup InFlight)'
  BY <1>0, <1>18 DEF RemovePending, Erased
<1>19. ASSUME NEW u \in Users, WakeTimerThread(u) PROVE (o \in {t.obj : t \in timers} \cup InFlight)'
  BY <1>0, <1>19 DEF WakeTimerThread, NotifyTimeout
<1>20. CASE UNCHANGED vars
  BY <1>0, <1>20 DEF vars
<1>21. QED
  BY <1>1, <1>2, <1>3, <1>4, <1>5, <1>6, <1>7, <1>8, <1>9, <1>10, <1>11, <1>12, <1>13,
     <1>14, <1>15, <1>16, <1>17, <1>18, <1>19, <1>20 DEF Next, TimerThread, User, Finish

-----------------------------------------------------------------------------
\* The invariant holds at the start,
LEMMA InitIInv == Init => IInv
<1> SUFFICES ASSUME Init PROVE IInv
  OBVIOUS
<1>1. TypeOK
  BY InitTypeOK
<1>2. Places
  BY BoundsAssumption
     DEF Init, Places, SetOK, CurrentOK, MessageOK, LocalOK, HistoryOK, NoMessage, null_timer, Objs
<1>3. NoTimerEvaporates
  BY DEF Init, NoTimerEvaporates
<1>4. QED
  BY <1>1, <1>2, <1>3 DEF IInv

\* and every step keeps it.
LEMMA NextIInv == IInv /\ [Next]_vars => IInv'
BY NextTypeOK, NextPlaces, NextNoTimerEvaporates DEF IInv, Places

\* The invariant the argument rests on: every timer object is in one place, and
\* the timer the thread holds once it has stopped waiting is due.
THEOREM PlacesInvariant == Spec => []IInv
BY InitIInv, NextIInv, PTL DEF Spec

\* The state of the timer service stays within its types.
THEOREM TypeCorrect == Spec => []TypeOK
<1>1. IInv => TypeOK
  BY DEF IInv
<1>2. QED
  BY <1>1, PlacesInvariant, PTL

\* No armed timer evaporates between the set, current_timer and the message,
\* for any number of threads that set up and remove timers.
THEOREM NoTimerIsLost == Spec => []NoTimerEvaporates
<1>1. IInv => NoTimerEvaporates
  BY DEF IInv
<1>2. QED
  BY <1>1, PlacesInvariant, PTL

\* timer_remove that answers OK before the deadline is the end of the timer.
THEOREM CancelledNeverFires == Spec => []CancelledBeforeDueNeverFires
<1>1. IInv => CancelledBeforeDueNeverFires
  BY DEF IInv, Places, HistoryOK, CancelledBeforeDueNeverFires
<1>2. QED
  BY <1>1, PlacesInvariant, PTL

\* One TIME_OUT at most for a timer.
THEOREM FiresOnce == Spec => []FiresAtMostOnce
<1>1. IInv => FiresAtMostOnce
  BY DEF IInv, Places, HistoryOK, FiresAtMostOnce
<1>2. QED
  BY <1>1, PlacesInvariant, PTL

\* No TIME_OUT before its deadline.
THEOREM FiresOnTime == Spec => []NeverFiresEarly
<1>1. IInv => NeverFiresEarly
  BY DEF IInv, Places, MessageOK, NeverFiresEarly
<1>2. QED
  BY <1>1, PlacesInvariant, PTL
=============================================================================
