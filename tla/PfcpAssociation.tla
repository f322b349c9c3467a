-------------------------- MODULE PfcpAssociation --------------------------
(***************************************************************************)
(* The SMF's PFCP associations and their heartbeat procedure                *)
(* (pfcp_associations, upf_graph, and the handlers of smf_n4).  The UDP     *)
(* receive thread handles set-up messages and heartbeat responses, the N4   *)
(* task handles the TIME_OUTs of the heartbeat timers, and both work on the *)
(* same association without a lock.  An action ends where the other thread  *)
(* can come between.                                                        *)
(*                                                                          *)
(* Ids of timers and transactions are only ever compared for equality.  A   *)
(* timer gets an id that nothing refers to any more; of the transactions    *)
(* only the association's latest, trxn_id_heartbeat, lets a response in, so *)
(* that `open` (it has had no response) stands for it.  Time is left to the *)
(* order in which timers run out; recovery time stamps, function features   *)
(* and UPF profiles are left out.                                           *)
(***************************************************************************)
EXTENDS Naturals, Sequences, FiniteSets

CONSTANTS
    Upfs,
    ShortHash,         \* UPFs whose hash_node_id is the same as an int32_t
    MAX_RETRIES,       \* PFCP_ASSOCIATION_HEARTBEAT_MAX_RETRIES
    MAX_ASSOCIATIONS,  \* PFCP_MAX_ASSOCIATIONS
    Prompt,            \* UPFs whose responses beat the timer of the request
    MaxSetups,         \* per UPF, the bound of its set-up messages
    MaxChains          \* bound of the timers and TIME_OUTs under way

ASSUME UpfsAssumption == IsFiniteSet(Upfs) /\ ShortHash \subseteq Upfs /\ Prompt \subseteq Upfs
ASSUME LimitsAssumption ==
    /\ MAX_RETRIES \in Nat /\ MAX_ASSOCIATIONS \in Nat /\ MaxChains \in Nat
    /\ MaxSetups \in [Upfs -> Nat]

VARIABLES
    adjacency_list,   \* UPFs with an association in the graph
    timer_heartbeat,  \* per association (the removed one, until there is another)
    num_retries,
    open,             \* trxn_id_heartbeat has had no response
    timers,           \* heartbeat timers running in the middleware
    timeouts,         \* TIME_OUTs in the queue of the N4 task
    udp,              \* what the UDP thread is doing
    n4,               \* what the N4 task is doing
    setups,           \* per UPF, its set-up messages so far
    failed,           \* UPFs reported by N4_NODE_FAILURE, not heard of since
    silent            \* UPFs from which nothing will come any more

associationVars == <<adjacency_list, timer_heartbeat, num_retries, open>>
upfVars == <<setups, silent>>
vars == <<associationVars, timers, timeouts, udp, n4, failed, upfVars>>

NoTimer == 0
TimerIds == 1..MaxChains + Cardinality(Upfs) + 1
Kinds == {"trigger", "timeout"}
Idle == [pc |-> "idle"]

TypeOK ==
    /\ adjacency_list \subseteq Upfs
    /\ timer_heartbeat \in [Upfs -> TimerIds \cup {NoTimer}]
    /\ num_retries \in [Upfs -> 0..MAX_RETRIES]
    /\ open \in [Upfs -> BOOLEAN]
    /\ timers \subseteq [id : TimerIds, kind : Kinds, upf : Upfs]
    /\ timeouts \in Seq([kind : Kinds, upf : Upfs])
    /\ udp \in {Idle} \cup [pc : {"remove", "arm"}, upf : Upfs]
    /\ n4 \in {Idle} \cup [pc : {"timer", "send"}, upf : Upfs]
    /\ setups \in [Upfs -> Nat] /\ \A u \in Upfs : setups[u] <= MaxSetups[u]
    /\ failed \subseteq Upfs
    /\ silent \subseteq Upfs

Init ==
    /\ adjacency_list = {}
    /\ timer_heartbeat = [u \in Upfs |-> NoTimer]
    /\ num_retries = [u \in Upfs |-> 0]
    /\ open = [u \in Upfs |-> FALSE]
    /\ timers = {}
    /\ timeouts = <<>>
    /\ udp = Idle
    /\ n4 = Idle
    /\ setups = [u \in Upfs |-> 0]
    /\ failed = {}
    /\ silent = {}

-----------------------------------------------------------------------------
\* timer_setup with the hash of the association, and the store of its id.
SetupTimer(kind, u) ==
    LET used == {t.id : t \in timers} \cup {timer_heartbeat[v] : v \in Upfs}
        id == CHOOSE i \in TimerIds \ used : \A j \in TimerIds \ used : i <= j
    IN
    /\ timers' = timers \cup {[id |-> id, kind |-> kind, upf |-> u]}
    /\ timer_heartbeat' = [timer_heartbeat EXCEPT ![u] = id]

Chains == Cardinality(timers) + Len(timeouts)

-----------------------------------------------------------------------------
(* The UDP receive thread.                                                  *)

\* An Association Setup message from u, request or response.
SetupMessage(u) ==
    /\ u \notin silent
    /\ setups[u] < MaxSetups[u] /\ Chains < MaxChains
    /\ setups' = [setups EXCEPT ![u] = @ + 1]

\* get_association finds the UPF in the graph (check_association_on_add).
SetupKnown(u) ==
    /\ udp = Idle
    /\ u \in adjacency_list
    /\ SetupMessage(u)
    /\ udp' = [pc |-> "remove", upf |-> u]
    /\ UNCHANGED <<associationVars, timers, timeouts, n4, failed, silent>>

\* It does not: a new association, unless the graph is full; the set-up is
\* accepted in either case.
SetupNew(u) ==
    /\ udp = Idle
    /\ u \notin adjacency_list
    /\ SetupMessage(u)
    /\ \/ /\ Cardinality(adjacency_list) < MAX_ASSOCIATIONS
          /\ adjacency_list' = adjacency_list \cup {u}
          /\ timer_heartbeat' = [timer_heartbeat EXCEPT ![u] = NoTimer]
          /\ num_retries' = [num_retries EXCEPT ![u] = 0]
          /\ open' = [open EXCEPT ![u] = FALSE]
          /\ failed' = failed \ {u}
          /\ udp' = [pc |-> "arm", upf |-> u]
       \/ /\ Cardinality(adjacency_list) >= MAX_ASSOCIATIONS
          /\ UNCHANGED <<associationVars, failed, udp>>
    /\ UNCHANGED <<timers, timeouts, n4, silent>>

\* A heartbeat response with the association's latest transaction; any other
\* finds no association and changes nothing.
HeartbeatResponse(u) ==
    /\ udp = Idle
    /\ u \in adjacency_list \ silent
    /\ open[u]
    /\ Chains < MaxChains
    /\ open' = [open EXCEPT ![u] = FALSE]
    /\ udp' = [pc |-> "remove", upf |-> u]
    /\ UNCHANGED <<adjacency_list, timer_heartbeat, num_retries, timers, timeouts,
                   n4, failed, upfVars>>

\* The fault of a handler that leaves the timer of an answered request running.
LeaveTimer ==
    /\ udp.pc = "remove"
    /\ udp' = [udp EXCEPT !.pc = "arm"]
    /\ UNCHANGED <<associationVars, timers, timeouts, n4, failed, upfVars>>

\* timer_remove(timer_heartbeat)
RemoveTimer ==
    /\ udp.pc = "remove"
    /\ timers' = {t \in timers : t.id # timer_heartbeat[udp.upf]}
    /\ udp' = [udp EXCEPT !.pc = "arm"]
    /\ UNCHANGED <<associationVars, timeouts, n4, failed, upfVars>>

\* The fault of a handler that stops the timer and arms none.
ForgetToArm ==
    /\ udp.pc = "arm"
    /\ failed' = failed \ {udp.upf}
    /\ udp' = Idle
    /\ UNCHANGED <<associationVars, timers, timeouts, n4, upfVars>>

\* trigger_heartbeat_request_procedure
trigger_heartbeat_request_procedure ==
    /\ udp.pc = "arm"
    /\ SetupTimer("trigger", udp.upf)
    /\ failed' = failed \ {udp.upf}
    /\ udp' = Idle
    /\ UNCHANGED <<adjacency_list, num_retries, open, timeouts, n4, upfVars>>

-----------------------------------------------------------------------------
(* The N4 task.  Nothing compares the id of a TIME_OUT with timer_heartbeat. *)

\* The TIME_OUT at the head of the queue, and the association its hash finds.
TimeOut(kind, u) ==
    /\ n4 = Idle
    /\ timeouts # <<>>
    /\ Head(timeouts) = [kind |-> kind, upf |-> u]
    /\ timeouts' = Tail(timeouts)

\* It finds none.
StaleTimeout ==
    /\ \E kind \in Kinds, u \in Upfs \ adjacency_list : TimeOut(kind, u)
    /\ UNCHANGED <<associationVars, timers, udp, n4, failed, upfVars>>

initiate_heartbeat_request(u) ==
    /\ TimeOut("trigger", u)
    /\ u \in adjacency_list
    /\ num_retries' = [num_retries EXCEPT ![u] = 0]
    /\ n4' = [pc |-> "timer", upf |-> u]
    /\ UNCHANGED <<adjacency_list, timer_heartbeat, open, timers, udp, failed, upfVars>>

\* num_retries_timer_heartbeat++; the faults of not counting, and of one
\* retry too many.
NotCounted(u) == num_retries
Counted(u) == [num_retries EXCEPT ![u] = @ + 1]
MayRetryOnceMore(u) == num_retries[u] <= MAX_RETRIES
MayRetry(u) == num_retries[u] < MAX_RETRIES

timeout_heartbeat_request(u) ==
    /\ TimeOut("timeout", u)
    /\ u \in adjacency_list
    /\ MayRetry(u)
    /\ num_retries' = Counted(u)
    /\ n4' = [pc |-> "timer", upf |-> u]
    /\ UNCHANGED <<adjacency_list, timer_heartbeat, open, timers, udp, failed, upfVars>>

\* No retry is left: N4_NODE_FAILURE and remove_association(hash_node_id), whose
\* parameter is an int32_t: the graph finds a hash that the conversion keeps.
HeartbeatFailure(u) ==
    /\ TimeOut("timeout", u)
    /\ u \in adjacency_list
    /\ ~MayRetry(u)
    /\ failed' = failed \cup {u}
    /\ adjacency_list' = adjacency_list \ ({u} \cap ShortHash)
    /\ UNCHANGED <<timer_heartbeat, num_retries, open, timers, udp, n4, upfVars>>

\* send_heartbeat_request: the timer first, ...
ArmTimeout ==
    /\ n4.pc = "timer"
    /\ SetupTimer("timeout", n4.upf)
    /\ n4' = [n4 EXCEPT !.pc = "send"]
    /\ UNCHANGED <<adjacency_list, num_retries, open, timeouts, udp, failed, upfVars>>

\* ... then a new transaction and the request.
SendHeartbeat ==
    /\ n4.pc = "send"
    /\ open' = [open EXCEPT ![n4.upf] = TRUE]
    /\ n4' = Idle
    /\ UNCHANGED <<adjacency_list, timer_heartbeat, num_retries, timers, timeouts,
                   udp, failed, upfVars>>

-----------------------------------------------------------------------------
(* Timers and UPFs.                                                         *)

\* A timer runs out, at any time but one: the handler of a prompt UPF's response
\* stops the timer of that request in time.
Expire(t) ==
    /\ t \in timers
    /\ t.kind = "timeout" /\ t.upf \in Prompt \ silent /\ t.id = timer_heartbeat[t.upf] =>
         /\ ~open[t.upf]
         /\ n4 # [pc |-> "send", upf |-> t.upf]
         /\ udp # [pc |-> "remove", upf |-> t.upf]
    /\ timers' = timers \ {t}
    /\ timeouts' = Append(timeouts, [kind |-> t.kind, upf |-> t.upf])
    /\ UNCHANGED <<associationVars, udp, n4, failed, upfVars>>

FallSilent(u) ==
    /\ u \notin silent
    /\ silent' = silent \cup {u}
    /\ UNCHANGED <<associationVars, timers, timeouts, udp, n4, setups, failed>>

-----------------------------------------------------------------------------
UdpThread == RemoveTimer \/ trigger_heartbeat_request_procedure

N4Task ==
    \/ StaleTimeout \/ ArmTimeout \/ SendHeartbeat
    \/ \E u \in Upfs : \/ initiate_heartbeat_request(u)
                       \/ timeout_heartbeat_request(u)
                       \/ HeartbeatFailure(u)

Next ==
    \/ \E u \in Upfs : SetupKnown(u) \/ SetupNew(u) \/ HeartbeatResponse(u) \/ FallSilent(u)
    \/ UdpThread
    \/ N4Task
    \/ \E t \in timers : Expire(t)

Spec == Init /\ [][Next]_vars

\* The threads finish what they began and timers run out; nothing is assumed of
\* the UPFs.
FairSpec ==
    /\ Spec
    /\ WF_vars(UdpThread) /\ WF_vars(N4Task)
    /\ \A id \in TimerIds : WF_vars(\E t \in timers : t.id = id /\ Expire(t))

-----------------------------------------------------------------------------
(* Properties.                                                              *)

\* Something is under way that will look after the association of u.
Attended(u) ==
    \/ \E t \in timers : t.upf = u
    \/ \E i \in DOMAIN timeouts : timeouts[i].upf = u
    \/ u \in {x.upf : x \in {udp, n4} \ {Idle}}

\* However responses, repeated set-ups and TIME_OUTs of the two threads meet, an
\* association that was not reported as failed always has a next heartbeat:
\* nobody removes the last timer of another's making.
HeartbeatGoesOn == \A u \in adjacency_list \ failed : Attended(u)

\* A UPF that falls silent is noticed: its failure is reported, or it had no
\* association.
DeadUpfIsNoticed ==
    \A u \in Upfs : u \in silent ~> u \in failed \/ u \notin adjacency_list

\* A UPF that is set up once and answers every heartbeat in time is not reported
\* as failed: of all timers that were ever armed for it, none counts a heartbeat
\* that was answered.  (After a second set-up, or a response that the TIME_OUT of
\* its request overtakes, it may be: two chains of heartbeats then shut out each
\* other's responses, and share a count of retries that no response resets.)
PromptUpfIsKept == \A u \in Prompt \cap failed : u \in silent \/ setups[u] > 1

\* What the code says of a failure ("Remove UPF from the associations").
RemovedWhenFailed == failed \cap adjacency_list = {}
=============================================================================
