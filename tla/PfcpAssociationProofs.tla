----------------------- MODULE PfcpAssociationProofs -----------------------
(***************************************************************************)
(* Proofs about PfcpAssociation, for any UPFs and limits: an association    *)
(* that was not reported as failed always has a next heartbeat, and a UPF   *)
(* that answers in time is kept.                                            *)
(***************************************************************************)
EXTENDS PfcpAssociation, FiniteSetTheorems, WellFoundedInduction, TLAPS

USE UpfsAssumption, LimitsAssumption

\* What still is to arm a timer: the UDP thread, and the N4 task before its own.
ToArm == (IF udp = Idle THEN 0 ELSE 1) + (IF n4.pc = "timer" THEN 1 ELSE 0)

\* The bound of the chains of heartbeats, which leaves an id for each new timer.
Bounded == IsFiniteSet(timers) /\ Chains + ToArm <= MaxChains + 1

\* An association refers to a timer of its own UPF or to none.
OwnTimer == \A t \in timers, u \in Upfs : t.id = timer_heartbeat[u] => t.upf = u

\* While the N4 task is about to send, something else looks after the association.
AttendedElsewhere(u) ==
    \/ \E t \in timers : t.upf = u
    \/ \E i \in DOMAIN timeouts : timeouts[i].upf = u
    \/ udp # Idle /\ udp.upf = u

SendAttended == n4.pc = "send" => AttendedElsewhere(n4.upf)

-----------------------------------------------------------------------------
(* Ids.                                                                     *)

\* A set of numbers that is not empty has a least one.
LEMMA LeastExists ==
  ASSUME NEW S \in SUBSET Nat, S # {}
  PROVE  \E i \in S : \A j \in S : i <= j
<1>1. PICK i \in S : \A j \in S : ~(<<j, i>> \in OpToRel(<, Nat))
  BY NatLessThanWellFounded, WFMin
<1>2. \A j \in S : ~(j < i)
  BY <1>1 DEF OpToRel
<1>3. QED
  BY <1>2

UsedIds == {t.id : t \in timers} \cup {timer_heartbeat[v] : v \in Upfs}

\* There is an id for a new timer as long as no more than MaxChains are running.
LEMMA IdLeft ==
  ASSUME TypeOK, IsFiniteSet(timers), Cardinality(timers) <= MaxChains
  PROVE  TimerIds \ UsedIds # {}
<1> DEFINE A == {t.id : t \in timers}
           B == {timer_heartbeat[v] : v \in Upfs}
<1>1. IsFiniteSet(A) /\ Cardinality(A) <= Cardinality(timers)
  <2>1. [t \in timers |-> t.id] \in Surjection(timers, A)
    BY DEF Surjection
  <2>2. QED
    BY <2>1, FS_Surjection
<1>2. IsFiniteSet(B) /\ Cardinality(B) <= Cardinality(Upfs)
  <2>1. [v \in Upfs |-> timer_heartbeat[v]] \in Surjection(Upfs, B)
    BY DEF Surjection
  <2>2. QED
    BY <2>1, FS_Surjection
<1>3. /\ Cardinality(A) \in Nat /\ Cardinality(B) \in Nat /\ Cardinality(timers) \in Nat
      /\ Cardinality(Upfs) \in Nat /\ Cardinality(A \cap B) \in Nat
  <2>1. IsFiniteSet(A \cap B)
    BY <1>1, FS_Subset
  <2>2. QED
    BY <1>1, <1>2, <2>1, FS_CardinalityType
<1>4. IsFiniteSet(A \cup B) /\ Cardinality(A \cup B) <= MaxChains + Cardinality(Upfs)
  <2> HIDE DEF A, B
  <2>1. IsFiniteSet(A \cup B) /\ Cardinality(A \cup B) = Cardinality(A) + Cardinality(B) - Cardinality(A \cap B)
    BY <1>1, <1>2, FS_Union
  <2>2. QED
    BY <1>1, <1>2, <1>3, <2>1
<1>5. Cardinality(TimerIds) = MaxChains + Cardinality(Upfs) + 1
  BY <1>3, FS_Interval DEF TimerIds
<1>6. ~(TimerIds \subseteq A \cup B)
  <2> HIDE DEF A, B
  <2> SUFFICES ASSUME TimerIds \subseteq A \cup B PROVE FALSE
    OBVIOUS
  <2>1. Cardinality(TimerIds) <= Cardinality(A \cup B)
    BY <1>4, FS_Subset
  <2>2. QED
    BY <1>3, <1>4, <1>5, <2>1, FS_CardinalityType
<1>7. QED
  BY <1>6 DEF UsedIds

\* A new timer has an id that nothing refers to.
LEMMA NewTimer ==
  ASSUME TypeOK, IsFiniteSet(timers), Cardinality(timers) <= MaxChains,
         NEW kind \in Kinds, NEW u \in Upfs, SetupTimer(kind, u)
  PROVE  \E id \in TimerIds \ UsedIds :
           /\ timers' = timers \cup {[id |-> id, kind |-> kind, upf |-> u]}
           /\ timer_heartbeat' = [timer_heartbeat EXCEPT ![u] = id]
<1>1. PICK id : id = CHOOSE i \in TimerIds \ UsedIds : \A j \in TimerIds \ UsedIds : i <= j
  OBVIOUS
<1>2. TimerIds \ UsedIds \in SUBSET Nat
  BY DEF TimerIds
<1>3. \E i \in TimerIds \ UsedIds : \A j \in TimerIds \ UsedIds : i <= j
  BY <1>2, IdLeft, LeastExists
<1>4. id \in TimerIds \ UsedIds
  BY <1>1, <1>3
<1>5. /\ timers' = timers \cup {[id |-> id, kind |-> kind, upf |-> u]}
      /\ timer_heartbeat' = [timer_heartbeat EXCEPT ![u] = id]
  BY <1>1 DEF SetupTimer, UsedIds
<1>6. QED
  BY <1>4, <1>5

-----------------------------------------------------------------------------
(* Types and bounds.                                                        *)

\* What a thread that is not idle is doing, and for whom.
LEMMA Threads ==
  ASSUME TypeOK
  PROVE  /\ udp = Idle \/ (udp # Idle /\ udp.pc \in {"remove", "arm"} /\ udp.upf \in Upfs
                           /\ udp = [pc |-> udp.pc, upf |-> udp.upf])
         /\ n4 = Idle \/ (n4 # Idle /\ n4.pc \in {"timer", "send"} /\ n4.upf \in Upfs
                          /\ n4 = [pc |-> n4.pc, upf |-> n4.upf])
         /\ Idle.pc = "idle"
BY DEF TypeOK, Idle

\* The numbers of timers, TIME_OUTs and threads that are to arm one are numbers.
LEMMA Counts ==
  ASSUME TypeOK, IsFiniteSet(timers)
  PROVE  /\ Cardinality(timers) \in Nat /\ Len(timeouts) \in Nat
         /\ Chains = Cardinality(timers) + Len(timeouts)
         /\ ToArm \in 0..2
         /\ udp # Idle => ToArm >= 1
         /\ n4.pc = "timer" => ToArm >= 1
BY FS_CardinalityType DEF TypeOK, Chains, ToArm

\* A TIME_OUT that is taken from the queue.
LEMMA TakenTimeOut ==
  ASSUME TypeOK, NEW kind, NEW u, TimeOut(kind, u)
  PROVE  /\ n4 = Idle /\ kind \in Kinds /\ u \in Upfs
         /\ timeouts # <<>> /\ timeouts' = Tail(timeouts)
         /\ timeouts' \in Seq([kind : Kinds, upf : Upfs])
         /\ Len(timeouts) \in Nat \ {0} /\ Len(timeouts') = Len(timeouts) - 1
         /\ 1 \in DOMAIN timeouts /\ timeouts[1].kind = kind /\ timeouts[1].upf = u
         /\ \A i \in DOMAIN timeouts' : i + 1 \in DOMAIN timeouts /\ timeouts'[i] = timeouts[i + 1]
         /\ \A i \in DOMAIN timeouts : i # 1 => i - 1 \in DOMAIN timeouts' /\ timeouts'[i - 1] = timeouts[i]
<1>1. /\ n4 = Idle /\ timeouts # <<>> /\ timeouts' = Tail(timeouts)
      /\ Head(timeouts) = [kind |-> kind, upf |-> u]
  BY DEF TimeOut
<1>2. timeouts \in Seq([kind : Kinds, upf : Upfs])
  BY DEF TypeOK
<1>3. Head(timeouts) \in [kind : Kinds, upf : Upfs]
  BY <1>1, <1>2
<1>4. kind \in Kinds /\ u \in Upfs
  BY <1>1, <1>3
<1>5. /\ timeouts' \in Seq([kind : Kinds, upf : Upfs])
      /\ Len(timeouts) \in Nat \ {0} /\ Len(timeouts') = Len(timeouts) - 1
      /\ timeouts[1] = [kind |-> kind, upf |-> u] /\ 1 \in DOMAIN timeouts
  BY <1>1, <1>2
<1>6. \A i \in DOMAIN timeouts' : i + 1 \in DOMAIN timeouts /\ timeouts'[i] = timeouts[i + 1]
  BY <1>1, <1>2
<1>7. \A i \in DOMAIN timeouts : i # 1 => i - 1 \in DOMAIN timeouts' /\ timeouts'[i - 1] = timeouts[i]
  BY <1>1, <1>2
<1>8. timeouts[1].kind = kind /\ timeouts[1].upf = u
  BY <1>5
<1>9. QED
  BY <1>1, <1>4, <1>5, <1>6, <1>7, <1>8

\* Arming a timer makes one more.
LEMMA TimerAdded ==
  ASSUME IsFiniteSet(timers), NEW x, timers' = timers \cup {x}
  PROVE  IsFiniteSet(timers') /\ Cardinality(timers') <= Cardinality(timers) + 1 /\ Cardinality(timers') \in Nat
<1>1. IsFiniteSet(timers \cup {x}) /\ Cardinality(timers) \in Nat
      /\ (Cardinality(timers \cup {x}) = Cardinality(timers) \/ Cardinality(timers \cup {x}) = Cardinality(timers) + 1)
  BY FS_AddElement, FS_CardinalityType
<1>2. QED
  BY <1>1

\* A TIME_OUT that is put into the queue.
LEMMA PutTimeOut ==
  ASSUME TypeOK, NEW t \in timers, Expire(t)
  PROVE  /\ timers' = timers \ {t} /\ UNCHANGED <<associationVars, udp, n4, failed, upfVars>>
         /\ t.kind \in Kinds /\ t.upf \in Upfs
         /\ DOMAIN timeouts' = DOMAIN timeouts \cup {Len(timeouts) + 1}
         /\ Len(timeouts) + 1 \notin DOMAIN timeouts
         /\ \A i \in DOMAIN timeouts : timeouts'[i] = timeouts[i]
         /\ timeouts'[Len(timeouts) + 1].kind = t.kind /\ timeouts'[Len(timeouts) + 1].upf = t.upf
<1>1. PICK e : e = [kind |-> t.kind, upf |-> t.upf]
  OBVIOUS
<1>2. /\ timers' = timers \ {t} /\ UNCHANGED <<associationVars, udp, n4, failed, upfVars>>
      /\ timeouts' = Append(timeouts, e)
  BY <1>1 DEF Expire
<1>3. t.kind \in Kinds /\ t.upf \in Upfs
  BY DEF TypeOK
<1>4. timeouts \in Seq([kind : Kinds, upf : Upfs]) /\ e \in [kind : Kinds, upf : Upfs]
  BY <1>1, <1>3 DEF TypeOK
<1>5. /\ DOMAIN timeouts' = DOMAIN timeouts \cup {Len(timeouts) + 1}
      /\ Len(timeouts) + 1 \notin DOMAIN timeouts
      /\ \A i \in DOMAIN timeouts : timeouts'[i] = timeouts[i]
      /\ timeouts'[Len(timeouts) + 1] = e
  BY <1>2, <1>4
<1>6. timeouts'[Len(timeouts) + 1].kind = t.kind /\ timeouts'[Len(timeouts) + 1].upf = t.upf
  BY <1>1, <1>5
<1>7. QED
  BY <1>2, <1>3, <1>5, <1>6

\* Nothing is under way when the SMF starts.
LEMMA InitBase == Init => TypeOK /\ Bounded
<1> SUFFICES ASSUME Init PROVE TypeOK /\ Bounded
  OBVIOUS
<1>1. TypeOK
  BY DEF Init, TypeOK
<1>2. Bounded
  BY FS_EmptySet DEF Init, Bounded, Chains, ToArm, Idle
<1>3. QED
  BY <1>1, <1>2

\* The UDP thread arms a timer with an id of its own.
LEMMA TriggerArmed ==
  ASSUME TypeOK, Bounded, trigger_heartbeat_request_procedure
  PROVE  /\ udp # Idle /\ udp.pc = "arm" /\ udp.upf \in Upfs /\ udp' = Idle
         /\ UNCHANGED <<adjacency_list, num_retries, open, timeouts, n4, upfVars>>
         /\ failed' = failed \ {udp.upf}
         /\ \E id \in TimerIds \ UsedIds :
              /\ timers' = timers \cup {[id |-> id, kind |-> "trigger", upf |-> udp.upf]}
              /\ timer_heartbeat' = [timer_heartbeat EXCEPT ![udp.upf] = id]
<1>1. udp # Idle /\ udp.upf \in Upfs /\ udp' = Idle /\ udp.pc = "arm"
  BY Threads DEF trigger_heartbeat_request_procedure
<1>2. IsFiniteSet(timers) /\ Cardinality(timers) <= MaxChains
  BY <1>1, Counts DEF Bounded
<1>3. \E id \in TimerIds \ UsedIds :
        /\ timers' = timers \cup {[id |-> id, kind |-> "trigger", upf |-> udp.upf]}
        /\ timer_heartbeat' = [timer_heartbeat EXCEPT ![udp.upf] = id]
  BY <1>1, <1>2, NewTimer DEF trigger_heartbeat_request_procedure, Kinds
<1>4. QED
  BY <1>1, <1>3 DEF trigger_heartbeat_request_procedure

\* So does the N4 task.
LEMMA TimeoutArmed ==
  ASSUME TypeOK, Bounded, ArmTimeout
  PROVE  /\ n4 # Idle /\ n4.upf \in Upfs /\ n4.pc = "timer"
         /\ n4' = [pc |-> "send", upf |-> n4.upf] /\ n4'.pc = "send"
         /\ n4 = [pc |-> "timer", upf |-> n4.upf] /\ n4' # Idle
         /\ UNCHANGED <<adjacency_list, num_retries, open, timeouts, udp, failed, upfVars>>
         /\ \E id \in TimerIds \ UsedIds :
              /\ timers' = timers \cup {[id |-> id, kind |-> "timeout", upf |-> n4.upf]}
              /\ timer_heartbeat' = [timer_heartbeat EXCEPT ![n4.upf] = id]
<1>1. /\ n4 # Idle /\ n4.upf \in Upfs /\ n4.pc = "timer"
      /\ n4' = [pc |-> "send", upf |-> n4.upf] /\ n4'.pc = "send"
      /\ n4 = [pc |-> "timer", upf |-> n4.upf] /\ n4' # Idle
  BY Threads DEF ArmTimeout, Idle
<1>2. IsFiniteSet(timers) /\ Cardinality(timers) <= MaxChains
  BY <1>1, Counts DEF Bounded
<1>3. \E id \in TimerIds \ UsedIds :
        /\ timers' = timers \cup {[id |-> id, kind |-> "timeout", upf |-> n4.upf]}
        /\ timer_heartbeat' = [timer_heartbeat EXCEPT ![n4.upf] = id]
  BY <1>1, <1>2, NewTimer DEF ArmTimeout, Kinds
<1>4. QED
  BY <1>1, <1>3 DEF ArmTimeout

\* Every step keeps the types and the bound.
LEMMA NextBase ==
  ASSUME TypeOK, Bounded, [Next]_vars
  PROVE  TypeOK' /\ Bounded'
<1>1. /\ IsFiniteSet(timers) /\ Cardinality(timers) \in Nat /\ Len(timeouts) \in Nat
      /\ Chains = Cardinality(timers) + Len(timeouts) /\ ToArm \in 0..2
      /\ Chains + ToArm <= MaxChains + 1
  BY Counts DEF Bounded
<1>2. ASSUME NEW u \in Upfs, SetupKnown(u) \/ SetupNew(u) \/ HeartbeatResponse(u)
      PROVE  TypeOK' /\ Bounded'
  <2>1. /\ udp = Idle /\ Chains < MaxChains
        /\ UNCHANGED <<timers, timeouts, n4, silent>>
    BY <1>2 DEF SetupKnown, SetupNew, SetupMessage, HeartbeatResponse, upfVars
  <2>2. Bounded'
    BY <1>1, <2>1 DEF Bounded, Chains, ToArm
  <2>3. setups' \in [Upfs -> Nat] /\ \A v \in Upfs : setups'[v] <= MaxSetups[v]
    <3>1. CASE setups' = setups
      BY <3>1 DEF TypeOK
    <3>2. CASE setups[u] < MaxSetups[u] /\ setups' = [setups EXCEPT ![u] = @ + 1]
      <4>1. setups' \in [Upfs -> Nat]
        BY <3>2 DEF TypeOK
      <4>2. ASSUME NEW v \in Upfs PROVE setups'[v] <= MaxSetups[v]
        BY <3>2 DEF TypeOK
      <4>3. QED
        BY <4>1, <4>2
    <3>3. QED
      BY <1>2, <3>1, <3>2 DEF SetupKnown, SetupNew, SetupMessage, HeartbeatResponse, upfVars
  <2>4. /\ adjacency_list' \subseteq Upfs
        /\ timer_heartbeat' \in [Upfs -> TimerIds \cup {NoTimer}]
        /\ num_retries' \in [Upfs -> 0..MAX_RETRIES]
        /\ open' \in [Upfs -> BOOLEAN]
        /\ failed' \subseteq Upfs
    <3>1. CASE SetupKnown(u)
      BY <3>1 DEF SetupKnown, TypeOK, associationVars
    <3>2. CASE HeartbeatResponse(u)
      BY <3>2 DEF HeartbeatResponse, TypeOK
    <3>3. CASE SetupNew(u)
      <4>1. UNCHANGED <<associationVars, failed>> \/
            /\ adjacency_list' = adjacency_list \cup {u}
            /\ timer_heartbeat' = [timer_heartbeat EXCEPT ![u] = NoTimer]
            /\ num_retries' = [num_retries EXCEPT ![u] = 0]
            /\ open' = [open EXCEPT ![u] = FALSE]
            /\ failed' = failed \ {u}
        BY <3>3 DEF SetupNew, associationVars
      <4>2. CASE UNCHANGED <<associationVars, failed>>
        BY <4>2 DEF TypeOK, associationVars
      <4>3. CASE /\ adjacency_list' = adjacency_list \cup {u}
                 /\ timer_heartbeat' = [timer_heartbeat EXCEPT ![u] = NoTimer]
                 /\ num_retries' = [num_retries EXCEPT ![u] = 0]
                 /\ open' = [open EXCEPT ![u] = FALSE]
                 /\ failed' = failed \ {u}
        <5>1. adjacency_list' \subseteq Upfs /\ failed' \subseteq Upfs
          BY <4>3 DEF TypeOK
        <5>2. timer_heartbeat' \in [Upfs -> TimerIds \cup {NoTimer}]
          BY <4>3 DEF TypeOK
        <5>3. num_retries' \in [Upfs -> 0..MAX_RETRIES]
          BY <4>3 DEF TypeOK
        <5>4. open' \in [Upfs -> BOOLEAN]
          BY <4>3 DEF TypeOK
        <5>5. QED
          BY <5>1, <5>2, <5>3, <5>4
      <4>4. QED
        BY <4>1, <4>2, <4>3
    <3>4. QED
      BY <1>2, <3>1, <3>2, <3>3
  <2>5. udp' \in {Idle} \cup [pc : {"remove", "arm"}, upf : Upfs]
    BY <1>2 DEF TypeOK, SetupKnown, SetupNew, HeartbeatResponse
  <2>6. QED
    BY <2>1, <2>2, <2>3, <2>4, <2>5 DEF TypeOK
<1>3. ASSUME RemoveTimer
      PROVE  TypeOK' /\ Bounded'
  <2>1. /\ udp # Idle /\ udp.upf \in Upfs /\ udp' = [pc |-> "arm", upf |-> udp.upf] /\ udp' # Idle
    BY <1>3, Threads DEF RemoveTimer, Idle
  <2>2. timers' \subseteq timers /\ UNCHANGED <<associationVars, timeouts, n4, failed, upfVars>>
    BY <1>3 DEF RemoveTimer
  <2>3. TypeOK'
    BY <2>1, <2>2 DEF TypeOK, associationVars, upfVars
  <2>4. IsFiniteSet(timers') /\ Cardinality(timers') <= Cardinality(timers) /\ Cardinality(timers') \in Nat
    BY <1>1, <2>2, FS_Subset, FS_CardinalityType
  <2>5. Bounded'
    BY <1>1, <2>1, <2>2, <2>4 DEF Bounded, Chains, ToArm
  <2>6. QED
    BY <2>3, <2>5
<1>4. ASSUME trigger_heartbeat_request_procedure
      PROVE  TypeOK' /\ Bounded'
  <2>1. udp # Idle /\ udp.upf \in Upfs /\ udp' = Idle
    BY <1>4, TriggerArmed
  <2>3. PICK id \in TimerIds \ UsedIds :
          /\ timers' = timers \cup {[id |-> id, kind |-> "trigger", upf |-> udp.upf]}
          /\ timer_heartbeat' = [timer_heartbeat EXCEPT ![udp.upf] = id]
    BY <1>4, TriggerArmed
  <2>4. UNCHANGED <<adjacency_list, num_retries, open, timeouts, n4, upfVars>> /\ failed' \subseteq failed
    BY <1>4, TriggerArmed
  <2>5. TypeOK'
    BY <2>1, <2>3, <2>4 DEF TypeOK, upfVars, Kinds
  <2>6. IsFiniteSet(timers') /\ Cardinality(timers') <= Cardinality(timers) + 1 /\ Cardinality(timers') \in Nat
    BY <1>1, <2>3, TimerAdded
  <2>7. Bounded'
    BY <1>1, <2>1, <2>4, <2>6 DEF Bounded, Chains, ToArm
  <2>8. QED
    BY <2>5, <2>7
<1>5. ASSUME NEW kind, NEW u, TimeOut(kind, u), UNCHANGED <<timers, timer_heartbeat, open, udp, upfVars>>,
             adjacency_list' \subseteq adjacency_list, failed' \subseteq Upfs,
             num_retries' \in [Upfs -> 0..MAX_RETRIES],
             n4' = n4 \/ n4' = [pc |-> "timer", upf |-> u]
      PROVE  TypeOK' /\ Bounded'
  <2>1. /\ n4 = Idle /\ kind \in Kinds /\ u \in Upfs
        /\ timeouts' \in Seq([kind : Kinds, upf : Upfs])
        /\ Len(timeouts') = Len(timeouts) - 1
    BY <1>5, TakenTimeOut
  <2>2. TypeOK'
    <3>1. n4' \in {Idle} \cup [pc : {"timer", "send"}, upf : Upfs]
      BY <1>5, <2>1 DEF TypeOK
    <3>2. QED
      BY <1>5, <2>1, <3>1 DEF TypeOK, upfVars
  <2>3. Bounded'
    BY <1>1, <1>5, <2>1 DEF Bounded, Chains, ToArm, Idle
  <2>4. QED
    BY <2>2, <2>3
<1>6. ASSUME StaleTimeout
      PROVE  TypeOK' /\ Bounded'
  BY <1>5, <1>6 DEF StaleTimeout, associationVars, TypeOK
<1>7. ASSUME NEW u \in Upfs, initiate_heartbeat_request(u)
      PROVE  TypeOK' /\ Bounded'
  <2>1. num_retries' \in [Upfs -> 0..MAX_RETRIES]
    BY <1>7 DEF initiate_heartbeat_request, TypeOK
  <2>2. QED
    BY <1>5, <1>7, <2>1 DEF initiate_heartbeat_request, TypeOK
<1>8. ASSUME NEW u \in Upfs, timeout_heartbeat_request(u)
      PROVE  TypeOK' /\ Bounded'
  <2>1. num_retries' \in [Upfs -> 0..MAX_RETRIES]
    BY <1>8 DEF timeout_heartbeat_request, Counted, MayRetry, TypeOK
  <2>2. QED
    BY <1>5, <1>8, <2>1 DEF timeout_heartbeat_request, TypeOK
<1>9. ASSUME NEW u \in Upfs, HeartbeatFailure(u)
      PROVE  TypeOK' /\ Bounded'
  BY <1>5, <1>9 DEF HeartbeatFailure, TypeOK
<1>10. ASSUME ArmTimeout
       PROVE  TypeOK' /\ Bounded'
  <2>1. n4 # Idle /\ n4.upf \in Upfs /\ n4.pc = "timer" /\ n4' = [pc |-> "send", upf |-> n4.upf] /\ n4'.pc = "send"
    BY <1>10, TimeoutArmed
  <2>3. PICK id \in TimerIds \ UsedIds :
          /\ timers' = timers \cup {[id |-> id, kind |-> "timeout", upf |-> n4.upf]}
          /\ timer_heartbeat' = [timer_heartbeat EXCEPT ![n4.upf] = id]
    BY <1>10, TimeoutArmed
  <2>4. UNCHANGED <<adjacency_list, num_retries, open, timeouts, udp, failed, upfVars>>
    BY <1>10, TimeoutArmed
  <2>5. TypeOK'
    BY <2>1, <2>3, <2>4 DEF TypeOK, upfVars, Kinds
  <2>6. IsFiniteSet(timers') /\ Cardinality(timers') <= Cardinality(timers) + 1 /\ Cardinality(timers') \in Nat
    BY <1>1, <2>3, TimerAdded
  <2>7. Bounded'
    BY <1>1, <2>1, <2>4, <2>6 DEF Bounded, Chains, ToArm
  <2>8. QED
    BY <2>5, <2>7
<1>11. ASSUME SendHeartbeat
       PROVE  TypeOK' /\ Bounded'
  <2>1. n4 # Idle /\ n4.upf \in Upfs /\ n4.pc = "send" /\ n4' = Idle /\ Idle.pc # "timer"
    BY <1>11, Threads DEF SendHeartbeat
  <2>2. TypeOK'
    BY <1>11, <2>1 DEF SendHeartbeat, TypeOK, upfVars
  <2>3. Bounded'
    BY <1>1, <1>11, <2>1 DEF SendHeartbeat, Bounded, Chains, ToArm
  <2>4. QED
    BY <2>2, <2>3
<1>12. ASSUME NEW t \in timers, Expire(t)
       PROVE  TypeOK' /\ Bounded'
  <2>1. t.kind \in Kinds /\ t.upf \in Upfs
    BY DEF TypeOK
  <2>2. /\ timers' = timers \ {t} /\ timeouts' = Append(timeouts, [kind |-> t.kind, upf |-> t.upf])
        /\ UNCHANGED <<associationVars, udp, n4, failed, upfVars>>
    BY <1>12 DEF Expire
  <2>3. timeouts' \in Seq([kind : Kinds, upf : Upfs]) /\ Len(timeouts') = Len(timeouts) + 1
    BY <2>1, <2>2 DEF TypeOK
  <2>4. TypeOK'
    BY <2>2, <2>3 DEF TypeOK, associationVars, upfVars
  <2>5. IsFiniteSet(timers') /\ Cardinality(timers') = Cardinality(timers) - 1
    BY <1>1, <2>2, FS_RemoveElement
  <2>6. Bounded'
    BY <1>1, <2>2, <2>3, <2>5 DEF Bounded, Chains, ToArm
  <2>7. QED
    BY <2>4, <2>6
<1>13. ASSUME NEW u \in Upfs, FallSilent(u)
       PROVE  TypeOK' /\ Bounded'
  BY <1>13 DEF FallSilent, associationVars, TypeOK, Bounded, Chains, ToArm
<1>14. CASE UNCHANGED vars
  BY <1>14 DEF vars, associationVars, upfVars, TypeOK, Bounded, Chains, ToArm
<1>15. QED
  BY <1>2, <1>3, <1>4, <1>6, <1>7, <1>8, <1>9, <1>10, <1>11, <1>12, <1>13, <1>14
  DEF Next, UdpThread, N4Task

\* Every variable stays in its type: no more timers and TIME_OUTs are under way than
\* there are ids for.
THEOREM TypeCorrect == Spec => []TypeOK
<1>1. Init => TypeOK /\ Bounded
  BY InitBase
<1>2. TypeOK /\ Bounded /\ [Next]_vars => (TypeOK /\ Bounded)'
  BY NextBase
<1>3. QED
  BY <1>1, <1>2, PTL DEF Spec

-----------------------------------------------------------------------------
(* The next heartbeat.                                                      *)

\* An id of a new timer is that of no other timer and no association.
LEMMA Unused ==
  ASSUME NEW id \in TimerIds \ UsedIds
  PROVE  /\ \A t \in timers : t.id # id
         /\ \A u \in Upfs : timer_heartbeat[u] # id
BY DEF UsedIds

\* A new timer for u that u's association refers to keeps OwnTimer.
LEMMA ArmedOwn ==
  ASSUME TypeOK, OwnTimer, NEW u \in Upfs, NEW kind \in Kinds, NEW id \in TimerIds \ UsedIds,
         timers' = timers \cup {[id |-> id, kind |-> kind, upf |-> u]},
         timer_heartbeat' = [timer_heartbeat EXCEPT ![u] = id]
  PROVE  OwnTimer'
<1> SUFFICES ASSUME NEW t \in timers', NEW v \in Upfs, t.id = timer_heartbeat'[v]
    PROVE  t.upf = v
  BY DEF OwnTimer
<1>1. timer_heartbeat'[v] = IF v = u THEN id ELSE timer_heartbeat[v]
  BY DEF TypeOK
<1>2. CASE t \in timers
  <2>1. v # u
    BY <1>1, <1>2, Unused
  <2>2. QED
    BY <1>1, <1>2, <2>1 DEF OwnTimer
<1>3. CASE t = [id |-> id, kind |-> kind, upf |-> u]
  <2>1. v = u
    BY <1>1, <1>3, Unused
  <2>2. QED
    BY <1>3, <2>1
<1>4. QED
  BY <1>2, <1>3

\* Every step keeps OwnTimer.
LEMMA NextOwnTimer ==
  ASSUME TypeOK, Bounded, OwnTimer, [Next]_vars
  PROVE  OwnTimer'
<1>1. CASE trigger_heartbeat_request_procedure
  <2>1. udp.upf \in Upfs
    BY <1>1, TriggerArmed
  <2>2. PICK id \in TimerIds \ UsedIds :
          /\ timers' = timers \cup {[id |-> id, kind |-> "trigger", upf |-> udp.upf]}
          /\ timer_heartbeat' = [timer_heartbeat EXCEPT ![udp.upf] = id]
    BY <1>1, TriggerArmed
  <2>3. QED
    BY <2>1, <2>2, ArmedOwn DEF Kinds
<1>2. CASE ArmTimeout
  <2>1. n4.upf \in Upfs
    BY <1>2, TimeoutArmed
  <2>2. PICK id \in TimerIds \ UsedIds :
          /\ timers' = timers \cup {[id |-> id, kind |-> "timeout", upf |-> n4.upf]}
          /\ timer_heartbeat' = [timer_heartbeat EXCEPT ![n4.upf] = id]
    BY <1>2, TimeoutArmed
  <2>3. QED
    BY <2>1, <2>2, ArmedOwn DEF Kinds
<1>3. ASSUME NEW u \in Upfs, SetupNew(u)
      PROVE  OwnTimer'
  <2>1. /\ timers' = timers
        /\ timer_heartbeat' = timer_heartbeat \/ timer_heartbeat' = [timer_heartbeat EXCEPT ![u] = NoTimer]
    BY <1>3 DEF SetupNew, associationVars
  <2>2. ASSUME NEW v \in Upfs PROVE timer_heartbeat'[v] = timer_heartbeat[v] \/ timer_heartbeat'[v] = NoTimer
    BY <2>1 DEF TypeOK
  <2>3. \A t \in timers : t.id # NoTimer
    BY DEF TypeOK, TimerIds, NoTimer
  <2>4. QED
    BY <2>1, <2>2, <2>3 DEF OwnTimer
<1>4. CASE timers' \subseteq timers /\ timer_heartbeat' = timer_heartbeat
  BY <1>4 DEF OwnTimer
<1>5. ASSUME NEW u \in Upfs, SetupKnown(u) \/ HeartbeatResponse(u) \/ FallSilent(u)
      PROVE  OwnTimer'
  BY <1>4, <1>5 DEF SetupKnown, HeartbeatResponse, FallSilent, associationVars
<1>6. CASE RemoveTimer \/ \E t \in timers : Expire(t)
  BY <1>4, <1>6 DEF RemoveTimer, Expire, associationVars
<1>7. CASE StaleTimeout \/ SendHeartbeat
  BY <1>4, <1>7 DEF StaleTimeout, SendHeartbeat, associationVars
<1>8. ASSUME NEW u \in Upfs, initiate_heartbeat_request(u) \/ timeout_heartbeat_request(u) \/ HeartbeatFailure(u)
      PROVE  OwnTimer'
  BY <1>4, <1>8 DEF initiate_heartbeat_request, timeout_heartbeat_request, HeartbeatFailure
<1>9. CASE UNCHANGED vars
  BY <1>4, <1>9 DEF vars, associationVars
<1>10. QED
  BY <1>1, <1>2, <1>3, <1>5, <1>6, <1>7, <1>8, <1>9 DEF Next, UdpThread, N4Task

\* A step leaves something but the N4 task to look after v, or takes a TIME_OUT of v.
LEMMA ElsewhereKept ==
  ASSUME TypeOK, Bounded, OwnTimer, [Next]_vars, NEW v \in Upfs, AttendedElsewhere(v)
  PROVE  AttendedElsewhere(v)' \/ \E kind : TimeOut(kind, v)
<1>1. ASSUME timers \subseteq timers', timeouts' = timeouts, udp' = udp \/ udp = Idle
      PROVE  AttendedElsewhere(v)'
  BY <1>1 DEF AttendedElsewhere
<1>2. ASSUME NEW u \in Upfs, SetupKnown(u) \/ SetupNew(u) \/ HeartbeatResponse(u) \/ FallSilent(u)
      PROVE  AttendedElsewhere(v)'
  BY <1>1, <1>2 DEF SetupKnown, SetupNew, HeartbeatResponse, FallSilent
<1>3. CASE RemoveTimer
  <2>1. /\ udp # Idle /\ udp.upf \in Upfs /\ udp' # Idle /\ udp'.upf = udp.upf
        /\ timers' = {t \in timers : t.id # timer_heartbeat[udp.upf]} /\ timeouts' = timeouts
    BY <1>3, Threads DEF RemoveTimer, Idle
  <2>2. CASE udp.upf = v
    BY <2>1, <2>2 DEF AttendedElsewhere
  <2>3. CASE udp.upf # v
    <3>1. \A t \in timers : t.upf = v => t \in timers'
      BY <2>1, <2>3 DEF OwnTimer
    <3>2. QED
      BY <2>1, <2>3, <3>1 DEF AttendedElsewhere
  <2>4. QED
    BY <2>2, <2>3
<1>4. CASE trigger_heartbeat_request_procedure
  <2>1. PICK id \in TimerIds \ UsedIds :
          timers' = timers \cup {[id |-> id, kind |-> "trigger", upf |-> udp.upf]}
    BY <1>4, TriggerArmed
  <2>2. udp # Idle /\ udp' = Idle /\ timeouts' = timeouts
    BY <1>4, TriggerArmed
  <2>3. CASE udp.upf = v
    <3>1. [id |-> id, kind |-> "trigger", upf |-> udp.upf] \in timers'
      BY <2>1
    <3>2. QED
      BY <2>3, <3>1 DEF AttendedElsewhere
  <2>4. CASE udp.upf # v
    BY <2>1, <2>2, <2>4 DEF AttendedElsewhere
  <2>5. QED
    BY <2>3, <2>4
<1>5. ASSUME NEW kind, NEW u, TimeOut(kind, u), u # v, UNCHANGED <<timers, udp>>
      PROVE  AttendedElsewhere(v)'
  <2>1. timeouts[1].upf = u
    BY <1>5, TakenTimeOut
  <2>2. \A i \in DOMAIN timeouts : i # 1 => i - 1 \in DOMAIN timeouts' /\ timeouts'[i - 1] = timeouts[i]
    BY <1>5, TakenTimeOut
  <2>3. \A i \in DOMAIN timeouts : timeouts[i].upf = v => i - 1 \in DOMAIN timeouts' /\ timeouts'[i - 1].upf = v
    BY <1>5, <2>1, <2>2
  <2>4. QED
    BY <1>5, <2>3 DEF AttendedElsewhere
<1>6. CASE StaleTimeout
  BY <1>5, <1>6 DEF StaleTimeout
<1>7. ASSUME NEW u \in Upfs, initiate_heartbeat_request(u) \/ timeout_heartbeat_request(u) \/ HeartbeatFailure(u)
      PROVE  AttendedElsewhere(v)' \/ \E kind : TimeOut(kind, v)
  BY <1>5, <1>7 DEF initiate_heartbeat_request, timeout_heartbeat_request, HeartbeatFailure
<1>8. CASE ArmTimeout
  BY <1>1, <1>8, TimeoutArmed
<1>9. CASE SendHeartbeat
  BY <1>1, <1>9 DEF SendHeartbeat
<1>10. ASSUME NEW t \in timers, Expire(t)
       PROVE  AttendedElsewhere(v)'
  <2>1. /\ timers' = timers \ {t} /\ udp' = udp
        /\ DOMAIN timeouts' = DOMAIN timeouts \cup {Len(timeouts) + 1}
        /\ \A i \in DOMAIN timeouts : timeouts'[i] = timeouts[i]
        /\ timeouts'[Len(timeouts) + 1].upf = t.upf
    BY <1>10, PutTimeOut
  <2>2. QED
    BY <2>1 DEF AttendedElsewhere
<1>11. CASE UNCHANGED vars
  BY <1>1, <1>11 DEF vars
<1>12. QED
  BY <1>2, <1>3, <1>4, <1>6, <1>7, <1>8, <1>9, <1>10, <1>11 DEF Next, UdpThread, N4Task

\* Every step keeps the next heartbeat, and what the N4 task relies on while it sends.
LEMMA NextHeartbeat ==
  ASSUME TypeOK, TypeOK', Bounded, OwnTimer, SendAttended, HeartbeatGoesOn, [Next]_vars
  PROVE  SendAttended' /\ HeartbeatGoesOn'
<1>1. \A v : Attended(v) <=> AttendedElsewhere(v) \/ (n4 # Idle /\ n4.upf = v)
  BY DEF Attended, AttendedElsewhere
<1>2. \A v : Attended(v)' <=> AttendedElsewhere(v)' \/ (n4' # Idle /\ n4'.upf = v)
  BY DEF Attended, AttendedElsewhere
<1>3. ASSUME n4' = n4, \A kind, u : ~TimeOut(kind, u),
             \A v \in adjacency_list' \ failed' : v \in adjacency_list \ failed \/ AttendedElsewhere(v)'
      PROVE  SendAttended' /\ HeartbeatGoesOn'
  <2>1. SendAttended'
    <3> SUFFICES ASSUME n4.pc = "send" PROVE AttendedElsewhere(n4.upf)'
      BY <1>3 DEF SendAttended, AttendedElsewhere
    <3>1. n4.upf \in Upfs /\ AttendedElsewhere(n4.upf)
      BY Threads DEF SendAttended
    <3>2. QED
      BY <1>3, <3>1, ElsewhereKept
  <2>2. ASSUME NEW v \in adjacency_list' \ failed' PROVE Attended(v)'
    <3>1. v \in Upfs
      BY DEF TypeOK
    <3>2. CASE v \in adjacency_list \ failed
      BY <1>1, <1>2, <1>3, <3>1, <3>2, ElsewhereKept DEF HeartbeatGoesOn
    <3>3. QED
      BY <1>2, <1>3, <3>2
  <2>3. QED
    BY <2>1, <2>2 DEF HeartbeatGoesOn
<1>4. ASSUME NEW u \in Upfs, SetupKnown(u) \/ HeartbeatResponse(u) \/ FallSilent(u)
      PROVE  SendAttended' /\ HeartbeatGoesOn'
  BY <1>3, <1>4 DEF SetupKnown, HeartbeatResponse, FallSilent, associationVars, TimeOut
<1>5. ASSUME NEW u \in Upfs, SetupNew(u)
      PROVE  SendAttended' /\ HeartbeatGoesOn'
  <2>1. n4' = n4 /\ timeouts' = timeouts /\ \A kind, v : ~TimeOut(kind, v)
    BY <1>5 DEF SetupNew, TimeOut
  <2>2. CASE adjacency_list' = adjacency_list /\ failed' = failed
    BY <1>3, <2>1, <2>2
  <2>3. CASE /\ adjacency_list' = adjacency_list \cup {u} /\ failed' = failed \ {u}
             /\ udp' = [pc |-> "arm", upf |-> u]
    <3>1. AttendedElsewhere(u)'
      BY <2>3 DEF AttendedElsewhere, Idle
    <3>2. QED
      BY <1>3, <2>1, <2>3, <3>1
  <2>4. QED
    BY <1>5, <2>2, <2>3 DEF SetupNew, associationVars
<1>6. CASE RemoveTimer
  BY <1>3, <1>6 DEF RemoveTimer, associationVars, TimeOut
<1>7. CASE trigger_heartbeat_request_procedure
  <2>1. PICK id \in TimerIds \ UsedIds :
          timers' = timers \cup {[id |-> id, kind |-> "trigger", upf |-> udp.upf]}
    BY <1>7, TriggerArmed
  <2>2. [id |-> id, kind |-> "trigger", upf |-> udp.upf] \in timers'
    BY <2>1
  <2>3. \A v : v = udp.upf => AttendedElsewhere(v)'
    BY <2>2 DEF AttendedElsewhere
  <2>4. /\ n4' = n4 /\ adjacency_list' = adjacency_list /\ failed' = failed \ {udp.upf}
        /\ timeouts' = timeouts
    BY <1>7, TriggerArmed
  <2>5. QED
    BY <1>3, <2>3, <2>4 DEF TimeOut
<1>8. ASSUME NEW kind, NEW u, TimeOut(kind, u), n4' = n4 \/ n4' = [pc |-> "timer", upf |-> u],
             adjacency_list' \subseteq adjacency_list, failed \subseteq failed',
             u \in adjacency_list' \ failed' => n4' = [pc |-> "timer", upf |-> u]
      PROVE  SendAttended' /\ HeartbeatGoesOn'
  <2>1. n4 = Idle /\ timeouts[1].upf = u
    BY <1>8, TakenTimeOut
  <2>2. SendAttended'
    BY <1>8, <2>1 DEF SendAttended, Idle
  <2>3. ASSUME NEW v \in adjacency_list' \ failed' PROVE Attended(v)'
    <3>1. v \in adjacency_list \ failed /\ v \in Upfs
      BY <1>8 DEF TypeOK
    <3>2. CASE v = u
      BY <1>2, <1>8, <3>2 DEF Idle
    <3>3. CASE v # u
      <4>1. ASSUME NEW k, TimeOut(k, v) PROVE FALSE
        BY <2>1, <3>3, <4>1, TakenTimeOut
      <4>2. AttendedElsewhere(v)
        BY <1>1, <2>1, <3>1 DEF HeartbeatGoesOn
      <4>3. QED
        BY <1>2, <3>1, <4>1, <4>2, ElsewhereKept
    <3>4. QED
      BY <3>2, <3>3
  <2>4. QED
    BY <2>2, <2>3 DEF HeartbeatGoesOn
<1>9. CASE StaleTimeout
  BY <1>8, <1>9 DEF StaleTimeout, associationVars
<1>10. ASSUME NEW u \in Upfs, initiate_heartbeat_request(u) \/ timeout_heartbeat_request(u) \/ HeartbeatFailure(u)
       PROVE  SendAttended' /\ HeartbeatGoesOn'
  BY <1>8, <1>10 DEF initiate_heartbeat_request, timeout_heartbeat_request, HeartbeatFailure
<1>11. CASE ArmTimeout
  <2>1. PICK id \in TimerIds \ UsedIds :
          timers' = timers \cup {[id |-> id, kind |-> "timeout", upf |-> n4.upf]}
    BY <1>11, TimeoutArmed
  <2>2. /\ n4 # Idle /\ n4' = [pc |-> "send", upf |-> n4.upf] /\ n4' # Idle /\ n4'.upf = n4.upf
        /\ adjacency_list' = adjacency_list /\ failed' = failed
    BY <1>11, TimeoutArmed
  <2>3. [id |-> id, kind |-> "timeout", upf |-> n4.upf] \in timers'
    BY <2>1
  <2>4. \A v : v = n4.upf => AttendedElsewhere(v)'
    BY <2>3 DEF AttendedElsewhere
  <2>5. SendAttended'
    BY <2>2, <2>4 DEF SendAttended, AttendedElsewhere
  <2>6. ASSUME NEW v \in adjacency_list \ failed PROVE Attended(v)'
    <3>1. v \in Upfs /\ \A kind : ~TimeOut(kind, v)
      BY <2>2 DEF TypeOK, TimeOut
    <3>2. CASE n4.upf = v
      BY <1>2, <2>2, <3>2
    <3>3. CASE n4.upf # v
      BY <1>1, <1>2, <3>1, <3>3, ElsewhereKept DEF HeartbeatGoesOn
    <3>4. QED
      BY <3>2, <3>3
  <2>7. QED
    BY <2>2, <2>5, <2>6 DEF HeartbeatGoesOn
<1>12. CASE SendHeartbeat
  <2>1. /\ n4 # Idle /\ n4.upf \in Upfs /\ n4.pc = "send" /\ n4' = Idle
        /\ adjacency_list' = adjacency_list /\ failed' = failed
    BY <1>12, Threads DEF SendHeartbeat
  <2>2. SendAttended'
    BY <2>1 DEF SendAttended, Idle
  <2>3. ASSUME NEW v \in adjacency_list \ failed PROVE Attended(v)'
    <3>1. v \in Upfs /\ \A kind : ~TimeOut(kind, v)
      BY <2>1 DEF TypeOK, TimeOut
    <3>2. AttendedElsewhere(v)
      BY <1>1, <2>1 DEF HeartbeatGoesOn, SendAttended
    <3>3. QED
      BY <1>2, <3>1, <3>2, ElsewhereKept
  <2>4. QED
    BY <2>1, <2>2, <2>3 DEF HeartbeatGoesOn
<1>13. ASSUME NEW t \in timers, Expire(t)
       PROVE  SendAttended' /\ HeartbeatGoesOn'
  <2>1. /\ n4' = n4 /\ adjacency_list' = adjacency_list /\ failed' = failed
        /\ DOMAIN timeouts' = DOMAIN timeouts \cup {Len(timeouts) + 1}
        /\ Len(timeouts) + 1 \notin DOMAIN timeouts
    BY <1>13, PutTimeOut DEF associationVars
  <2>2. ASSUME NEW kind, NEW u, TimeOut(kind, u) PROVE FALSE
    <3>1. (Len(timeouts) + 1) + 1 \in DOMAIN timeouts
      BY <2>1, <2>2, TakenTimeOut
    <3>2. Len(timeouts) \in Nat /\ (Len(timeouts) + 1) + 1 \notin DOMAIN timeouts
      BY DEF TypeOK
    <3>3. QED
      BY <3>1, <3>2
  <2>3. QED
    BY <1>3, <2>1, <2>2
<1>14. CASE UNCHANGED vars
  BY <1>3, <1>14 DEF vars, associationVars, TimeOut
<1>15. QED
  BY <1>4, <1>5, <1>6, <1>7, <1>9, <1>10, <1>11, <1>12, <1>13, <1>14 DEF Next, UdpThread, N4Task

\* However responses, repeated set-ups and TIME_OUTs of the two threads meet, an association
\* that was not reported as failed has a next heartbeat under way.
THEOREM HeartbeatNeverLost == Spec => []HeartbeatGoesOn
<1> DEFINE Inv == TypeOK /\ Bounded /\ OwnTimer /\ SendAttended /\ HeartbeatGoesOn
<1>1. Init => Inv
  <2> SUFFICES ASSUME Init PROVE Inv
    OBVIOUS
  <2>1. OwnTimer /\ SendAttended /\ HeartbeatGoesOn
    BY DEF Init, OwnTimer, SendAttended, HeartbeatGoesOn, Idle
  <2>2. QED
    BY <2>1, InitBase
<1>2. Inv /\ [Next]_vars => Inv'
  <2> SUFFICES ASSUME Inv, [Next]_vars PROVE Inv'
    OBVIOUS
  <2>1. TypeOK' /\ Bounded'
    BY NextBase
  <2>2. OwnTimer'
    BY NextOwnTimer
  <2>3. SendAttended' /\ HeartbeatGoesOn'
    BY <2>1, NextHeartbeat
  <2>4. QED
    BY <2>1, <2>2, <2>3
<1>3. QED
  BY <1>1, <1>2, PTL DEF Spec

-----------------------------------------------------------------------------
(* A UPF that answers in time, set up once: a single chain of heartbeats.   *)

NoTimerOf(u) == \A t \in timers : t.upf # u
NoTimeoutOf(u) == \A i \in DOMAIN timeouts : timeouts[i].upf # u
UdpElsewhere(u) == udp = Idle \/ udp.upf # u
N4Elsewhere(u) == n4 = Idle \/ n4.upf # u

OnlyTimerOf(u, t) == t \in timers /\ t.upf = u /\ \A s \in timers : s.upf = u => s = t

\* The timer of a trigger, the timer of the association's request, the TIME_OUT of a trigger.
Waiting(u) == \E t \in timers : OnlyTimerOf(u, t) /\ t.kind = "trigger"
Requested(u) == \E t \in timers : OnlyTimerOf(u, t) /\ t.kind = "timeout" /\ t.id = timer_heartbeat[u]
Triggered(u) ==
    \E i \in DOMAIN timeouts :
      /\ timeouts[i] = [kind |-> "trigger", upf |-> u]
      /\ \A j \in DOMAIN timeouts : timeouts[j].upf = u => j = i

\* Where the chain is: nowhere, with the UDP thread, in a timer, in the queue, with the
\* N4 task, in the timer of the request.
Nowhere(u) == NoTimerOf(u) /\ NoTimeoutOf(u) /\ UdpElsewhere(u) /\ N4Elsewhere(u) /\ ~open[u]
ToBeArmed(u) ==
    /\ NoTimerOf(u) /\ NoTimeoutOf(u) /\ N4Elsewhere(u) /\ ~open[u]
    /\ udp = [pc |-> "arm", upf |-> u]
ToBeTriggered(u) ==
    /\ NoTimeoutOf(u) /\ UdpElsewhere(u) /\ N4Elsewhere(u) /\ ~open[u]
    /\ Waiting(u)
Queued(u) ==
    /\ NoTimerOf(u) /\ UdpElsewhere(u) /\ N4Elsewhere(u) /\ ~open[u]
    /\ Triggered(u)
ToBeTimed(u) ==
    /\ NoTimerOf(u) /\ NoTimeoutOf(u) /\ UdpElsewhere(u) /\ ~open[u]
    /\ n4 = [pc |-> "timer", upf |-> u]
ToBeSent(u) ==
    /\ NoTimeoutOf(u) /\ UdpElsewhere(u) /\ ~open[u]
    /\ n4 = [pc |-> "send", upf |-> u] /\ Requested(u)
ToBeAnswered(u) ==
    /\ NoTimeoutOf(u) /\ UdpElsewhere(u) /\ N4Elsewhere(u)
    /\ open[u] /\ Requested(u)
Answered(u) ==
    /\ NoTimeoutOf(u) /\ N4Elsewhere(u) /\ ~open[u]
    /\ udp = [pc |-> "remove", upf |-> u] /\ Requested(u)

OneChain(u) ==
    \/ Nowhere(u) \/ ToBeArmed(u) \/ ToBeTriggered(u) \/ Queued(u)
    \/ ToBeTimed(u) \/ ToBeSent(u) \/ ToBeAnswered(u) \/ Answered(u)

\* While it answers, a prompt UPF has one chain, and none before it is set up.
Kept(u) ==
    u \notin silent /\ setups[u] <= 1 =>
      /\ u \notin failed
      /\ OneChain(u)
      /\ setups[u] = 0 => u \notin adjacency_list /\ Nowhere(u)

PromptKept == \A u \in Prompt : Kept(u)

\* A step that concerns another UPF leaves each part of the chain of u as it is.
LEMMA Elsewhere ==
  ASSUME NEW u, open'[u] = open[u],
         timer_heartbeat'[u] = timer_heartbeat[u],
         \A t \in timers' : t.upf = u => t \in timers,
         \A t \in timers : t.upf = u => t \in timers',
         NoTimeoutOf(u) => NoTimeoutOf(u)',
         Triggered(u) => Triggered(u)',
         udp' = udp \/ (UdpElsewhere(u) /\ UdpElsewhere(u)'),
         n4' = n4 \/ (N4Elsewhere(u) /\ N4Elsewhere(u)')
  PROVE  /\ OneChain(u) => OneChain(u)'
         /\ Nowhere(u) => Nowhere(u)'
<1>1. UdpElsewhere(u) => UdpElsewhere(u)'
  BY DEF UdpElsewhere
<1>2. N4Elsewhere(u) => N4Elsewhere(u)'
  BY DEF N4Elsewhere
<1>3. NoTimerOf(u) => NoTimerOf(u)'
  BY DEF NoTimerOf
<1>4. \A t : OnlyTimerOf(u, t) => OnlyTimerOf(u, t)'
  BY DEF OnlyTimerOf
<1>5. (Waiting(u) => Waiting(u)') /\ (Requested(u) => Requested(u)')
  <2>1. ASSUME Waiting(u) PROVE Waiting(u)'
    <3>1. PICK t : OnlyTimerOf(u, t) /\ t.kind = "trigger"
      BY <2>1 DEF Waiting
    <3>2. OnlyTimerOf(u, t)' /\ t \in timers'
      BY <1>4, <3>1 DEF OnlyTimerOf
    <3>3. QED
      BY <3>1, <3>2 DEF Waiting
  <2>2. ASSUME Requested(u) PROVE Requested(u)'
    <3>1. PICK t : OnlyTimerOf(u, t) /\ t.kind = "timeout" /\ t.id = timer_heartbeat[u]
      BY <2>2 DEF Requested
    <3>2. OnlyTimerOf(u, t)' /\ t \in timers'
      BY <1>4, <3>1 DEF OnlyTimerOf
    <3>3. QED
      BY <3>1, <3>2 DEF Requested
  <2>3. QED
    BY <2>1, <2>2
<1>6. /\ udp = [pc |-> "arm", upf |-> u] \/ udp = [pc |-> "remove", upf |-> u] => udp' = udp
      /\ n4 = [pc |-> "timer", upf |-> u] \/ n4 = [pc |-> "send", upf |-> u] => n4' = n4
  BY DEF UdpElsewhere, N4Elsewhere, Idle
<1>7. Nowhere(u) => Nowhere(u)'
  BY <1>1, <1>2, <1>3 DEF Nowhere
<1>8. OneChain(u) => OneChain(u)'
  BY <1>1, <1>2, <1>3, <1>5, <1>6, <1>7
  DEF OneChain, ToBeArmed, ToBeTriggered, Queued, ToBeTimed, ToBeSent, ToBeAnswered, Answered
<1>9. QED
  BY <1>7, <1>8

\* While something of its chain is with a thread, in the queue or running, u is in that phase.
LEMMA Phases ==
  ASSUME NEW u, OneChain(u)
  PROVE  /\ open[u] => ToBeAnswered(u)
         /\ udp # Idle /\ udp.upf = u => ToBeArmed(u) \/ Answered(u)
         /\ n4 # Idle /\ n4.upf = u => ToBeTimed(u) \/ ToBeSent(u)
         /\ ~NoTimeoutOf(u) => Queued(u)
         /\ ~NoTimerOf(u) => ToBeTriggered(u) \/ ToBeSent(u) \/ ToBeAnswered(u) \/ Answered(u)
BY DEF OneChain, Nowhere, ToBeArmed, ToBeTriggered, Queued, ToBeTimed, ToBeSent, ToBeAnswered, Answered,
       UdpElsewhere, N4Elsewhere, Idle

\* Every step keeps the single chain of a UPF that answers in time.
LEMMA NextPromptKept ==
  ASSUME TypeOK, TypeOK', Bounded, OwnTimer, PromptKept, [Next]_vars
  PROVE  PromptKept'
<1> SUFFICES ASSUME NEW u \in Prompt, u \notin silent', setups'[u] <= 1
    PROVE  u \notin failed' /\ OneChain(u)' /\ (setups'[u] = 0 => u \notin adjacency_list' /\ Nowhere(u)')
  BY DEF PromptKept, Kept
<1>0. (\A i \in DOMAIN timeouts : i \in Nat \ {0}) /\ (\A i \in DOMAIN timeouts' : i \in Nat \ {0})
  <2>1. timeouts \in Seq([kind : Kinds, upf : Upfs]) /\ timeouts' \in Seq([kind : Kinds, upf : Upfs])
    BY DEF TypeOK
  <2>2. QED
    BY <2>1
<1>1. u \in Upfs /\ setups[u] \in Nat /\ setups'[u] \in Nat
  BY DEF TypeOK
<1>2. ASSUME NEW v \in Upfs, SetupMessage(v)
      PROVE  setups'[u] = IF u = v THEN setups[u] + 1 ELSE setups[u]
  BY <1>1, <1>2 DEF SetupMessage, TypeOK
<1>3. u \notin silent /\ setups[u] <= 1
  <2>1. CASE UNCHANGED upfVars
    BY <2>1 DEF upfVars
  <2>2. ASSUME NEW v \in Upfs, SetupKnown(v) \/ SetupNew(v)
        PROVE  u \notin silent /\ setups[u] <= 1
    <3>1. SetupMessage(v) /\ silent' = silent
      BY <2>2 DEF SetupKnown, SetupNew
    <3>2. QED
      BY <1>1, <1>2, <3>1
  <2>3. ASSUME NEW v \in Upfs, FallSilent(v)
        PROVE  u \notin silent /\ setups[u] <= 1
    BY <2>3 DEF FallSilent
  <2>4. QED
    BY <2>1, <2>2, <2>3
    DEF Next, UdpThread, N4Task, HeartbeatResponse, RemoveTimer, trigger_heartbeat_request_procedure, StaleTimeout,
        ArmTimeout, SendHeartbeat, initiate_heartbeat_request, timeout_heartbeat_request, HeartbeatFailure, Expire, vars
<1>4. u \notin failed /\ OneChain(u) /\ (setups[u] = 0 => u \notin adjacency_list /\ Nowhere(u))
  BY <1>3 DEF PromptKept, Kept
<1>5. ASSUME open'[u] = open[u], timer_heartbeat'[u] = timer_heartbeat[u],
             \A t \in timers' : t.upf = u => t \in timers,
             \A t \in timers : t.upf = u => t \in timers',
             NoTimeoutOf(u) => NoTimeoutOf(u)',
             Triggered(u) => Triggered(u)',
             udp' = udp \/ (UdpElsewhere(u) /\ UdpElsewhere(u)'),
             n4' = n4 \/ (N4Elsewhere(u) /\ N4Elsewhere(u)'),
             setups'[u] = setups[u], u \in adjacency_list' => u \in adjacency_list, u \in failed' => u \in failed
      PROVE  u \notin failed' /\ OneChain(u)' /\ (setups'[u] = 0 => u \notin adjacency_list' /\ Nowhere(u)')
  <2>1. (OneChain(u) => OneChain(u)') /\ (Nowhere(u) => Nowhere(u)')
    BY <1>5, Elsewhere
  <2>2. QED
    BY <1>4, <1>5, <2>1
<1>6. ASSUME timeouts' = timeouts
      PROVE  (NoTimeoutOf(u) => NoTimeoutOf(u)') /\ (Triggered(u) => Triggered(u)')
  BY <1>6 DEF NoTimeoutOf, Triggered
<1>7. ASSUME NEW v \in Upfs, SetupKnown(v)
      PROVE  u \notin failed' /\ OneChain(u)' /\ (setups'[u] = 0 => u \notin adjacency_list' /\ Nowhere(u)')
  <2>1. /\ udp = Idle /\ v \in adjacency_list /\ SetupMessage(v) /\ udp' = [pc |-> "remove", upf |-> v]
        /\ UNCHANGED <<adjacency_list, timer_heartbeat, open, timers, timeouts, n4, failed>>
    BY <1>7 DEF SetupKnown, associationVars
  <2>2. v # u
    BY <1>1, <1>2, <1>4, <2>1
  <2>3. setups'[u] = setups[u]
    BY <1>2, <2>1, <2>2
  <2>4. UdpElsewhere(u) /\ UdpElsewhere(u)'
    BY <2>1, <2>2 DEF UdpElsewhere
  <2>5. QED
    BY <1>5, <1>6, <2>1, <2>3, <2>4
<1>8. ASSUME NEW v \in Upfs, SetupNew(v)
      PROVE  u \notin failed' /\ OneChain(u)' /\ (setups'[u] = 0 => u \notin adjacency_list' /\ Nowhere(u)')
  <2>1. udp = Idle /\ v \notin adjacency_list /\ SetupMessage(v) /\ UNCHANGED <<timers, timeouts, n4>>
    BY <1>8 DEF SetupNew
  <2>2. \/ UNCHANGED <<adjacency_list, timer_heartbeat, open, failed, udp>>
        \/ /\ adjacency_list' = adjacency_list \cup {v}
           /\ timer_heartbeat' = [timer_heartbeat EXCEPT ![v] = NoTimer]
           /\ open' = [open EXCEPT ![v] = FALSE]
           /\ failed' = failed \ {v}
           /\ udp' = [pc |-> "arm", upf |-> v]
    BY <1>8 DEF SetupNew, associationVars
  <2>3. CASE v = u
    <3>1. setups[u] = 0 /\ setups'[u] = 1
      BY <1>1, <1>2, <2>1, <2>3
    <3>2. Nowhere(u) /\ u \notin failed'
      BY <1>4, <2>2, <3>1
    <3>3. NoTimerOf(u)' /\ NoTimeoutOf(u)' /\ N4Elsewhere(u)'
      BY <2>1, <3>2 DEF Nowhere, NoTimerOf, NoTimeoutOf, N4Elsewhere
    <3>4. ~open'[u]
      BY <1>1, <2>2, <2>3, <3>2 DEF Nowhere, TypeOK
    <3>5. CASE udp' = udp
      <4>1. UdpElsewhere(u)'
        BY <3>2, <3>5 DEF Nowhere, UdpElsewhere
      <4>2. QED
        BY <3>1, <3>2, <3>3, <3>4, <4>1 DEF OneChain, Nowhere
    <3>6. CASE udp' = [pc |-> "arm", upf |-> v]
      <4>1. ToBeArmed(u)'
        BY <2>3, <3>3, <3>4, <3>6 DEF ToBeArmed
      <4>2. QED
        BY <3>1, <3>2, <4>1 DEF OneChain
    <3>7. QED
      BY <2>2, <3>5, <3>6
  <2>4. CASE v # u
    <3>1. setups'[u] = setups[u]
      BY <1>2, <2>1, <2>4
    <3>2. open'[u] = open[u] /\ timer_heartbeat'[u] = timer_heartbeat[u]
      BY <1>1, <2>2, <2>4 DEF TypeOK
    <3>3. udp' = udp \/ (UdpElsewhere(u) /\ UdpElsewhere(u)')
      BY <2>1, <2>2, <2>4 DEF UdpElsewhere
    <3>4. (u \in adjacency_list' => u \in adjacency_list) /\ (u \in failed' => u \in failed)
      BY <2>2, <2>4
    <3>5. QED
      BY <1>5, <1>6, <2>1, <3>1, <3>2, <3>3, <3>4
  <2>5. QED
    BY <2>3, <2>4
<1>9. ASSUME NEW v \in Upfs, HeartbeatResponse(v)
      PROVE  u \notin failed' /\ OneChain(u)' /\ (setups'[u] = 0 => u \notin adjacency_list' /\ Nowhere(u)')
  <2>1. /\ udp = Idle /\ open[v] /\ open' = [open EXCEPT ![v] = FALSE]
        /\ udp' = [pc |-> "remove", upf |-> v]
        /\ UNCHANGED <<adjacency_list, timer_heartbeat, timers, timeouts, n4, failed, setups>>
    BY <1>9 DEF HeartbeatResponse, upfVars
  <2>2. CASE v = u
    <3>1. ToBeAnswered(u)
      BY <1>4, <2>1, <2>2, Phases
    <3>2. NoTimeoutOf(u)' /\ N4Elsewhere(u)'
      BY <2>1, <3>1 DEF ToBeAnswered, NoTimeoutOf, N4Elsewhere
    <3>3. Requested(u)'
      BY <2>1, <3>1 DEF ToBeAnswered, Requested, OnlyTimerOf
    <3>4. ~open'[u]
      BY <1>1, <2>1, <2>2 DEF TypeOK
    <3>5. Answered(u)'
      BY <2>1, <2>2, <3>2, <3>3, <3>4 DEF Answered
    <3>6. ~Nowhere(u)
      BY <2>1, <2>2 DEF Nowhere
    <3>7. QED
      BY <1>4, <2>1, <3>5, <3>6 DEF OneChain
  <2>3. CASE v # u
    <3>1. open'[u] = open[u]
      BY <1>1, <2>1, <2>3 DEF TypeOK
    <3>2. UdpElsewhere(u) /\ UdpElsewhere(u)'
      BY <2>1, <2>3 DEF UdpElsewhere
    <3>3. QED
      BY <1>5, <1>6, <2>1, <3>1, <3>2
  <2>4. QED
    BY <2>2, <2>3
<1>10. CASE RemoveTimer
  <2>1. /\ udp # Idle /\ udp.pc = "remove" /\ udp.upf \in Upfs /\ udp' = [pc |-> "arm", upf |-> udp.upf]
        /\ timers' = {t \in timers : t.id # timer_heartbeat[udp.upf]}
        /\ UNCHANGED <<adjacency_list, timer_heartbeat, open, timeouts, n4, failed, setups>>
    BY <1>10, Threads DEF RemoveTimer, associationVars, upfVars
  <2>2. CASE udp.upf = u
    <3>1. Answered(u)
      BY <1>4, <2>1, <2>2, Phases DEF ToBeArmed
    <3>2. NoTimeoutOf(u)' /\ N4Elsewhere(u)' /\ ~open'[u]
      BY <2>1, <3>1 DEF Answered, NoTimeoutOf, N4Elsewhere
    <3>3. NoTimerOf(u)'
      BY <2>1, <2>2, <3>1 DEF Answered, Requested, OnlyTimerOf, NoTimerOf
    <3>4. ToBeArmed(u)'
      BY <2>1, <2>2, <3>2, <3>3 DEF ToBeArmed
    <3>5. ~Nowhere(u)
      BY <2>1, <2>2 DEF Nowhere, UdpElsewhere
    <3>6. QED
      BY <1>4, <2>1, <3>4, <3>5 DEF OneChain
  <2>3. CASE udp.upf # u
    <3>1. \A t \in timers : t.upf = u => t \in timers'
      BY <2>1, <2>3 DEF OwnTimer
    <3>2. UdpElsewhere(u) /\ UdpElsewhere(u)'
      BY <2>1, <2>3 DEF UdpElsewhere
    <3>3. QED
      BY <1>5, <1>6, <2>1, <3>1, <3>2
  <2>4. QED
    BY <2>2, <2>3
<1>11. CASE trigger_heartbeat_request_procedure
  <2>1. /\ udp # Idle /\ udp.pc = "arm" /\ udp.upf \in Upfs /\ udp' = Idle
        /\ UNCHANGED <<adjacency_list, open, timeouts, n4, setups>> /\ failed' \subseteq failed
    BY <1>11, TriggerArmed DEF upfVars
  <2>2. PICK id \in TimerIds \ UsedIds :
          /\ timers' = timers \cup {[id |-> id, kind |-> "trigger", upf |-> udp.upf]}
          /\ timer_heartbeat' = [timer_heartbeat EXCEPT ![udp.upf] = id]
    BY <1>11, TriggerArmed
  <2>3. CASE udp.upf = u
    <3>1. ToBeArmed(u)
      BY <1>4, <2>1, <2>3, Phases DEF Answered
    <3>2. NoTimeoutOf(u)' /\ N4Elsewhere(u)' /\ ~open'[u] /\ UdpElsewhere(u)'
      BY <2>1, <3>1 DEF ToBeArmed, NoTimeoutOf, N4Elsewhere, UdpElsewhere
    <3>3. PICK t : t = [id |-> id, kind |-> "trigger", upf |-> u]
      OBVIOUS
    <3>4. timers' = timers \cup {t} /\ t.kind = "trigger" /\ t.upf = u
      BY <2>2, <2>3, <3>3
    <3>5. OnlyTimerOf(u, t)'
      BY <3>1, <3>4 DEF ToBeArmed, NoTimerOf, OnlyTimerOf
    <3>6. Waiting(u)'
      BY <3>4, <3>5 DEF Waiting
    <3>7. ToBeTriggered(u)' /\ ~Nowhere(u)
      BY <2>1, <2>3, <3>2, <3>6 DEF ToBeTriggered, Nowhere, UdpElsewhere
    <3>8. QED
      BY <1>4, <2>1, <3>7 DEF OneChain
  <2>4. CASE udp.upf # u
    <3>1. \A t \in timers' : t.upf = u => t \in timers
      BY <2>2, <2>4
    <3>2. timer_heartbeat'[u] = timer_heartbeat[u]
      BY <1>1, <2>2, <2>4 DEF TypeOK
    <3>3. UdpElsewhere(u) /\ UdpElsewhere(u)'
      BY <2>1, <2>4 DEF UdpElsewhere
    <3>4. \A t \in timers : t.upf = u => t \in timers'
      BY <2>2
    <3>5. QED
      BY <1>5, <1>6, <2>1, <3>1, <3>2, <3>3, <3>4
  <2>5. QED
    BY <2>3, <2>4
<1>12. ASSUME NEW kind, NEW v, TimeOut(kind, v), v # u, UNCHANGED <<timers, timer_heartbeat, open, udp, setups>>,
              adjacency_list' \subseteq adjacency_list, failed' \subseteq failed \cup {v},
              n4' = n4 \/ n4' = [pc |-> "timer", upf |-> v]
       PROVE  u \notin failed' /\ OneChain(u)' /\ (setups'[u] = 0 => u \notin adjacency_list' /\ Nowhere(u)')
  <2>1. n4 = Idle /\ timeouts[1].upf = v
    BY <1>12, TakenTimeOut
  <2>2. \A i \in DOMAIN timeouts' : i + 1 \in DOMAIN timeouts /\ timeouts'[i] = timeouts[i + 1]
    BY <1>12, TakenTimeOut
  <2>3. \A i \in DOMAIN timeouts : i # 1 => i - 1 \in DOMAIN timeouts' /\ timeouts'[i - 1] = timeouts[i]
    BY <1>12, TakenTimeOut
  <2>4. NoTimeoutOf(u) => NoTimeoutOf(u)'
    BY <2>2 DEF NoTimeoutOf
  <2>5. ASSUME Triggered(u) PROVE Triggered(u)'
    <3>1. PICK i \in DOMAIN timeouts :
            /\ timeouts[i] = [kind |-> "trigger", upf |-> u]
            /\ \A j \in DOMAIN timeouts : timeouts[j].upf = u => j = i
      BY <2>5 DEF Triggered
    <3>2. timeouts[i].upf = u
      BY <3>1
    <3>3. i # 1
      BY <1>12, <2>1, <3>2
    <3>4. i - 1 \in DOMAIN timeouts' /\ timeouts'[i - 1] = [kind |-> "trigger", upf |-> u]
      BY <2>3, <3>1, <3>3
    <3>5. ASSUME NEW j \in DOMAIN timeouts', timeouts'[j].upf = u PROVE j = i - 1
      <4>1. j + 1 = i
        BY <2>2, <3>1, <3>5
      <4>2. j \in Nat /\ i \in Nat
        BY <1>0
      <4>3. QED
        BY <4>1, <4>2
    <3>6. QED
      BY <3>4, <3>5 DEF Triggered
  <2>6. n4' = n4 \/ (N4Elsewhere(u) /\ N4Elsewhere(u)')
    BY <1>12, <2>1 DEF N4Elsewhere
  <2>7. QED
    BY <1>5, <1>12, <2>4, <2>5, <2>6
<1>13. ASSUME NEW kind, TimeOut(kind, u)
       PROVE  Queued(u) /\ kind = "trigger" /\ n4 = Idle /\ NoTimeoutOf(u)'
  <2>1. n4 = Idle /\ 1 \in DOMAIN timeouts /\ timeouts[1].upf = u /\ timeouts[1].kind = kind
    BY <1>13, TakenTimeOut
  <2>2. Queued(u)
    BY <1>4, <2>1, Phases DEF NoTimeoutOf
  <2>3. PICK i \in DOMAIN timeouts :
          /\ timeouts[i] = [kind |-> "trigger", upf |-> u]
          /\ \A j \in DOMAIN timeouts : timeouts[j].upf = u => j = i
    BY <2>2 DEF Queued, Triggered
  <2>4. i = 1 /\ timeouts[i].kind = "trigger"
    BY <2>1, <2>3
  <2>5. NoTimeoutOf(u)'
    <3> SUFFICES ASSUME NEW j \in DOMAIN timeouts', timeouts'[j].upf = u PROVE FALSE
      BY DEF NoTimeoutOf
    <3>1. j + 1 \in DOMAIN timeouts /\ timeouts'[j] = timeouts[j + 1] /\ j \in Nat
      BY <1>0, <1>13, TakenTimeOut
    <3>2. j + 1 = 1 /\ j # 0
      BY <1>0, <2>3, <2>4, <3>1
    <3>3. QED
      BY <3>1, <3>2
  <2>6. QED
    BY <2>1, <2>2, <2>4, <2>5
<1>14. CASE StaleTimeout
  <2>1. PICK kind \in Kinds, v \in Upfs : TimeOut(kind, v)
    BY <1>14 DEF StaleTimeout
  <2>2. UNCHANGED <<adjacency_list, timer_heartbeat, open, timers, udp, n4, failed, setups>>
    BY <1>14 DEF StaleTimeout, associationVars, upfVars
  <2>3. CASE v = u
    <3>1. Queued(u) /\ NoTimeoutOf(u)'
      BY <1>13, <2>1, <2>3
    <3>2. Nowhere(u)'
      BY <2>2, <3>1 DEF Queued, Nowhere, NoTimerOf, UdpElsewhere, N4Elsewhere
    <3>3. QED
      BY <1>4, <2>2, <3>2 DEF OneChain
  <2>4. CASE v # u
    BY <1>12, <2>1, <2>2, <2>4
  <2>5. QED
    BY <2>3, <2>4
<1>15. ASSUME NEW v \in Upfs, initiate_heartbeat_request(v)
       PROVE  u \notin failed' /\ OneChain(u)' /\ (setups'[u] = 0 => u \notin adjacency_list' /\ Nowhere(u)')
  <2>1. /\ TimeOut("trigger", v) /\ n4' = [pc |-> "timer", upf |-> v] /\ v \in adjacency_list
        /\ UNCHANGED <<adjacency_list, timer_heartbeat, open, timers, udp, failed, setups>>
    BY <1>15 DEF initiate_heartbeat_request, upfVars
  <2>2. CASE v = u
    <3>1. Queued(u) /\ NoTimeoutOf(u)'
      BY <1>13, <2>1, <2>2
    <3>2. ToBeTimed(u)'
      BY <2>1, <2>2, <3>1 DEF Queued, ToBeTimed, NoTimerOf, UdpElsewhere
    <3>3. QED
      BY <1>4, <2>1, <2>2, <3>2 DEF OneChain
  <2>3. CASE v # u
    BY <1>12, <2>1, <2>3
  <2>4. QED
    BY <2>2, <2>3
<1>16. ASSUME NEW v \in Upfs, timeout_heartbeat_request(v) \/ HeartbeatFailure(v)
       PROVE  u \notin failed' /\ OneChain(u)' /\ (setups'[u] = 0 => u \notin adjacency_list' /\ Nowhere(u)')
  <2>1. /\ TimeOut("timeout", v)
        /\ n4' = n4 \/ n4' = [pc |-> "timer", upf |-> v]
        /\ UNCHANGED <<timer_heartbeat, open, timers, udp, setups>>
        /\ adjacency_list' \subseteq adjacency_list /\ failed' \subseteq failed \cup {v}
    BY <1>16 DEF timeout_heartbeat_request, HeartbeatFailure, upfVars
  <2>2. v # u
    BY <1>13, <2>1
  <2>3. QED
    BY <1>12, <2>1, <2>2
<1>17. CASE ArmTimeout
  <2>1. /\ n4 # Idle /\ n4 = [pc |-> "timer", upf |-> n4.upf] /\ n4' = [pc |-> "send", upf |-> n4.upf]
        /\ UNCHANGED <<adjacency_list, open, timeouts, udp, failed, setups>>
    BY <1>17, TimeoutArmed DEF upfVars
  <2>2. PICK id \in TimerIds \ UsedIds :
          /\ timers' = timers \cup {[id |-> id, kind |-> "timeout", upf |-> n4.upf]}
          /\ timer_heartbeat' = [timer_heartbeat EXCEPT ![n4.upf] = id]
    BY <1>17, TimeoutArmed
  <2>3. CASE n4.upf = u
    <3>1. ToBeTimed(u)
      BY <1>4, <2>1, <2>3, Phases DEF ToBeSent
    <3>2. NoTimeoutOf(u)' /\ UdpElsewhere(u)' /\ ~open'[u]
      BY <2>1, <3>1 DEF ToBeTimed, NoTimeoutOf, UdpElsewhere
    <3>3. PICK t : t = [id |-> id, kind |-> "timeout", upf |-> u]
      OBVIOUS
    <3>4. /\ timers' = timers \cup {t} /\ t.kind = "timeout" /\ t.upf = u /\ t.id = id
      BY <2>2, <2>3, <3>3
    <3>5. OnlyTimerOf(u, t)'
      BY <3>1, <3>4 DEF ToBeTimed, NoTimerOf, OnlyTimerOf
    <3>6. timer_heartbeat'[u] = id
      BY <1>1, <2>2, <2>3 DEF TypeOK
    <3>7. Requested(u)'
      BY <3>4, <3>5, <3>6 DEF Requested
    <3>8. ToBeSent(u)' /\ ~Nowhere(u)
      BY <2>1, <2>3, <3>2, <3>7 DEF ToBeSent, Nowhere, N4Elsewhere
    <3>9. QED
      BY <1>4, <2>1, <3>8 DEF OneChain
  <2>4. CASE n4.upf # u
    <3>1. \A t \in timers' : t.upf = u => t \in timers
      BY <2>2, <2>4
    <3>2. timer_heartbeat'[u] = timer_heartbeat[u]
      BY <1>1, <2>2, <2>4 DEF TypeOK
    <3>3. N4Elsewhere(u) /\ N4Elsewhere(u)'
      BY <2>1, <2>4 DEF N4Elsewhere
    <3>4. \A t \in timers : t.upf = u => t \in timers'
      BY <2>2
    <3>5. QED
      BY <1>5, <1>6, <2>1, <3>1, <3>2, <3>3, <3>4
  <2>5. QED
    BY <2>3, <2>4
<1>18. CASE SendHeartbeat
  <2>1. /\ n4 # Idle /\ n4.pc = "send" /\ n4.upf \in Upfs /\ n4' = Idle
        /\ open' = [open EXCEPT ![n4.upf] = TRUE]
        /\ UNCHANGED <<adjacency_list, timer_heartbeat, timers, timeouts, udp, failed, setups>>
    BY <1>18, Threads DEF SendHeartbeat, upfVars
  <2>2. CASE n4.upf = u
    <3>1. ToBeSent(u)
      BY <1>4, <2>1, <2>2, Phases DEF ToBeTimed
    <3>2. NoTimeoutOf(u)' /\ UdpElsewhere(u)' /\ N4Elsewhere(u)'
      BY <2>1, <3>1 DEF ToBeSent, NoTimeoutOf, UdpElsewhere, N4Elsewhere
    <3>3. Requested(u)'
      BY <2>1, <3>1 DEF ToBeSent, Requested, OnlyTimerOf
    <3>4. open'[u]
      BY <1>1, <2>1, <2>2 DEF TypeOK
    <3>5. ToBeAnswered(u)' /\ ~Nowhere(u)
      BY <2>1, <2>2, <3>2, <3>3, <3>4 DEF ToBeAnswered, Nowhere, N4Elsewhere
    <3>6. QED
      BY <1>4, <2>1, <3>5 DEF OneChain
  <2>3. CASE n4.upf # u
    <3>1. open'[u] = open[u]
      BY <1>1, <2>1, <2>3 DEF TypeOK
    <3>2. N4Elsewhere(u) /\ N4Elsewhere(u)'
      BY <2>1, <2>3 DEF N4Elsewhere
    <3>3. QED
      BY <1>5, <1>6, <2>1, <3>1, <3>2
  <2>4. QED
    BY <2>2, <2>3
<1>19. ASSUME NEW t \in timers, Expire(t)
       PROVE  u \notin failed' /\ OneChain(u)' /\ (setups'[u] = 0 => u \notin adjacency_list' /\ Nowhere(u)')
  <2>1. /\ timers' = timers \ {t}
        /\ UNCHANGED <<adjacency_list, timer_heartbeat, open, udp, n4, failed, setups>>
        /\ DOMAIN timeouts' = DOMAIN timeouts \cup {Len(timeouts) + 1}
        /\ Len(timeouts) + 1 \notin DOMAIN timeouts
        /\ \A i \in DOMAIN timeouts : timeouts'[i] = timeouts[i]
        /\ timeouts'[Len(timeouts) + 1].kind = t.kind /\ timeouts'[Len(timeouts) + 1].upf = t.upf
    BY <1>19, PutTimeOut DEF associationVars, upfVars
  <2>2. CASE t.upf = u
    <3>1. ToBeTriggered(u) \/ ToBeSent(u) \/ ToBeAnswered(u) \/ Answered(u)
      BY <1>4, <2>2, Phases DEF NoTimerOf
    <3>2. ToBeTriggered(u)
      <4>1. ASSUME Requested(u) PROVE t.kind = "timeout" /\ t.id = timer_heartbeat[u]
        BY <2>2, <4>1 DEF Requested, OnlyTimerOf
      <4>2. ASSUME t.kind = "timeout", t.id = timer_heartbeat[u]
            PROVE  ~open[u] /\ n4 # [pc |-> "send", upf |-> u] /\ udp # [pc |-> "remove", upf |-> u]
        BY <1>3, <1>19, <2>2, <4>2 DEF Expire
      <4>3. QED
        BY <3>1, <4>1, <4>2 DEF ToBeSent, ToBeAnswered, Answered
    <3>3. t.kind = "trigger" /\ OnlyTimerOf(u, t)
      BY <2>2, <3>2 DEF ToBeTriggered, Waiting, OnlyTimerOf
    <3>4. NoTimerOf(u)'
      BY <2>1, <3>3 DEF OnlyTimerOf, NoTimerOf
    <3>5. Triggered(u)'
      <4>1. timeouts'[Len(timeouts) + 1] = [kind |-> "trigger", upf |-> u]
        BY <1>19, <2>2, <3>3, PutTimeOut DEF Expire, TypeOK
      <4>2. \A j \in DOMAIN timeouts' : timeouts'[j].upf = u => j = Len(timeouts) + 1
        BY <2>1, <3>2 DEF ToBeTriggered, NoTimeoutOf
      <4>3. QED
        BY <2>1, <4>1, <4>2 DEF Triggered
    <3>6. Queued(u)' /\ ~Nowhere(u)
      BY <2>1, <2>2, <3>2, <3>4, <3>5 DEF ToBeTriggered, Queued, UdpElsewhere, N4Elsewhere, Nowhere, NoTimerOf
    <3>7. QED
      BY <1>4, <2>1, <3>6 DEF OneChain
  <2>3. CASE t.upf # u
    <3>1. NoTimeoutOf(u) => NoTimeoutOf(u)'
      BY <2>1, <2>3 DEF NoTimeoutOf
    <3>2. Triggered(u) => Triggered(u)'
      BY <2>1, <2>3 DEF Triggered
    <3>3. QED
      BY <1>5, <2>1, <2>3, <3>1, <3>2
  <2>4. QED
    BY <2>2, <2>3
<1>20. ASSUME NEW v \in Upfs, FallSilent(v)
       PROVE  u \notin failed' /\ OneChain(u)' /\ (setups'[u] = 0 => u \notin adjacency_list' /\ Nowhere(u)')
  BY <1>5, <1>6, <1>20 DEF FallSilent, associationVars
<1>21. CASE UNCHANGED vars
  BY <1>5, <1>6, <1>21 DEF vars, associationVars, upfVars
<1>22. QED
  BY <1>7, <1>8, <1>9, <1>10, <1>11, <1>14, <1>15, <1>16, <1>17, <1>18, <1>19, <1>20, <1>21
  DEF Next, UdpThread, N4Task

\* A UPF that is set up once and answers every heartbeat in time is never reported as
\* failed, whatever happens to the others.
THEOREM PromptKeptInGraph == Spec => []PromptUpfIsKept
<1> DEFINE Inv == TypeOK /\ Bounded /\ OwnTimer /\ PromptKept
<1>1. Init => Inv
  <2> SUFFICES ASSUME Init PROVE Inv
    OBVIOUS
  <2>1. OwnTimer
    BY DEF Init, OwnTimer
  <2>2. \A u \in Prompt : Nowhere(u) /\ u \notin failed /\ u \notin adjacency_list
    BY DEF Init, Nowhere, NoTimerOf, NoTimeoutOf, UdpElsewhere, N4Elsewhere
  <2>3. PromptKept
    BY <2>2 DEF PromptKept, Kept, OneChain
  <2>4. QED
    BY <2>1, <2>3, InitBase
<1>2. Inv /\ [Next]_vars => Inv'
  <2> SUFFICES ASSUME Inv, [Next]_vars PROVE Inv'
    OBVIOUS
  <2>1. TypeOK' /\ Bounded'
    BY NextBase
  <2>2. OwnTimer'
    BY NextOwnTimer
  <2>3. PromptKept'
    BY <2>1, NextPromptKept
  <2>4. QED
    BY <2>1, <2>2, <2>3
<1>3. Inv => PromptUpfIsKept
  <2> SUFFICES ASSUME Inv, NEW u \in Prompt \cap failed, u \notin silent PROVE setups[u] > 1
    BY DEF PromptUpfIsKept
  <2>1. setups[u] \in Nat /\ ~(setups[u] <= 1)
    BY DEF PromptKept, Kept, TypeOK
  <2>2. QED
    BY <2>1
<1>4. QED
  BY <1>1, <1>2, <1>3, PTL DEF Spec
=============================================================================
