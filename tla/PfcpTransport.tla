--------------------------- MODULE PfcpTransport ---------------------------
(***************************************************************************)
(* pfcp_l4_stack: the request/response transport both ends of N4 (SMF and  *)
(* UPF) run over UDP.  A stack numbers its own requests, keeps one          *)
(* procedure per sequence number for its own requests and its peers' alike, *)
(* lets the messages through that fit the procedure, and arms a retry timer *)
(* and a clean-up timer per procedure.                                      *)
(*                                                                          *)
(* The network loses, duplicates and reorders.  A handler of the stack is   *)
(* one action.                                                              *)
(***************************************************************************)
EXTENDS Naturals, FiniteSets

CONSTANTS
    Nodes,           \* the stacks that talk to each other
    Requesters,      \* those that send requests of their own
    Types,           \* request types
    ReportTypes,     \* those whose response check_request_type takes for a request
    FirstSeqs,       \* values the clock may give seq_num at start
    SeqModulus,      \* 2^31 in the code
    N1,              \* PFCP_N1_REQUESTS
    MaxRequests,     \* bound of the requests each node sends
    MaxTrxns,        \* bound of the transactions of a node
    DispatchTimers   \* whether the owner hands TIME_OUT to time_out_event:
                     \* neither smf_n4 nor upf_n4 does

ASSUME NodesAssumption ==
    /\ IsFiniteSet(Nodes)
    /\ Requesters \subseteq Nodes
    /\ ReportTypes \subseteq Types
ASSUME SeqAssumption ==
    SeqModulus \in Nat \ {0} /\ FirstSeqs \subseteq 0..SeqModulus-1
ASSUME BoundsAssumption ==
    N1 \in Nat /\ MaxRequests \in Nat /\ MaxTrxns \in Nat
ASSUME DispatchAssumption == DispatchTimers \in BOOLEAN

Seqs == 0..SeqModulus-1
Trxns == 1..MaxTrxns
NoTrxn == 0
Kinds == {"request", "response"}

\* A request is named by its sender and the sender's transaction (`of`).
Names == Nodes \X Trxns
Message == [kind : Kinds, type : Types, seq : Seqs, src : Nodes, dst : Nodes,
            of : Names]

NoProc == [trxn |-> NoTrxn]
Proc == [trxn : Trxns, initial : Types \X Kinds, triggered : BOOLEAN,
         retry_count : 0..N1, retry_timer : BOOLEAN, retry_msg : SUBSET Message]
    \* retry_msg: empty for a request of a peer

\* Timer ids are unique: a retry timer is the k-th of its transaction.
RetryId(t, k) == <<"retry", t, k>>
CleanupId(t) == <<"cleanup", t, 0>>
TimerIds == {"retry", "cleanup"} \X Trxns \X (0..N1)

VARIABLES
    seq_num,
    pending_procedures,    \* per node: Seqs -> Proc or NoProc
    trxn_id2seq_num,       \* per node: set of <<trxn, seq>>
    msg_out_retry_timers,  \* per node: set of <<id, seq>>
    proc_cleanup_timers,   \* per node: set of <<id, seq>>
    running,               \* per node: timers running in the middleware
    timeouts,              \* per node: TIME_OUT messages not yet handled
    lastTrxn,              \* generate_trxn_id
    network,
    inProgress,            \* per node: requests handed up, not answered yet
    requests,              \* history, per node: number of requests sent
    copies,                \* history: copies put on the network, per request
    executed,              \* history: times handed up at the peer, per request
    answered,              \* history: times a response was handed up, per request
    crashed                \* per node: retry_msg was null when sent again

stackVars == <<seq_num, pending_procedures, trxn_id2seq_num,
               msg_out_retry_timers, proc_cleanup_timers, running, timeouts, lastTrxn>>
historyVars == <<requests, copies, executed, answered>>
vars == <<stackVars, network, inProgress, historyVars, crashed>>

TypeOK ==
    /\ seq_num \in [Nodes -> Seqs]
    /\ pending_procedures \in [Nodes -> [Seqs -> Proc \cup {NoProc}]]
    /\ trxn_id2seq_num \in [Nodes -> SUBSET (Trxns \X Seqs)]
    /\ msg_out_retry_timers \in [Nodes -> SUBSET (TimerIds \X Seqs)]
    /\ proc_cleanup_timers \in [Nodes -> SUBSET (TimerIds \X Seqs)]
    /\ running \in [Nodes -> SUBSET TimerIds]
    /\ timeouts \in [Nodes -> SUBSET TimerIds]
    /\ lastTrxn \in [Nodes -> 0..MaxTrxns]
    /\ network \subseteq Message
    /\ inProgress \in [Nodes -> SUBSET [trxn : Trxns, msg : Message]]
    /\ requests \in [Nodes -> 0..MaxRequests]
    /\ copies \in [Names -> Nat]
    /\ executed \in [Names -> Nat]
    /\ answered \in [Names -> Nat]
    /\ crashed \in [Nodes -> BOOLEAN]

Init ==
    /\ seq_num \in [Nodes -> FirstSeqs]
    /\ pending_procedures = [n \in Nodes |-> [s \in Seqs |-> NoProc]]
    /\ trxn_id2seq_num = [n \in Nodes |-> {}]
    /\ msg_out_retry_timers = [n \in Nodes |-> {}]
    /\ proc_cleanup_timers = [n \in Nodes |-> {}]
    /\ running = [n \in Nodes |-> {}]
    /\ timeouts = [n \in Nodes |-> {}]
    /\ lastTrxn = [n \in Nodes |-> 0]
    /\ network = {}
    /\ inProgress = [n \in Nodes |-> {}]
    /\ requests = [n \in Nodes |-> 0]
    /\ copies = [r \in Names |-> 0]
    /\ executed = [r \in Names |-> 0]
    /\ answered = [r \in Names |-> 0]
    /\ crashed = [n \in Nodes |-> FALSE]

-----------------------------------------------------------------------------
Proc_at(n, s) == pending_procedures[n][s]
\* The fault of a look-up that finds own procedures only.
BusyWithOwn(n, s) == Proc_at(n, s) # NoProc /\ Proc_at(n, s).retry_msg # {}
Busy(n, s) == Proc_at(n, s) # NoProc

\* std::map::insert: an entry already there stays.
InsertProc(n, s, p) ==
    pending_procedures' = [pending_procedures EXCEPT ![n][s] = IF @ = NoProc THEN p ELSE @]

\* The fault of an erase that misses, as the ones of the two timer tables do.
EraseNothing(n, s) == pending_procedures' = pending_procedures

EraseProc(n, s) ==
    pending_procedures' = [pending_procedures EXCEPT ![n][s] = NoProc]

WithoutId(table, id) == {e \in table : e[1] # id}

\* The fault of a sequence number that does not wrap.
NextSeqUnbounded(n) == seq_num[n] + 1
NextSeq(n) == (seq_num[n] + 1) % SeqModulus
NewTrxn(n) == lastTrxn[n] + 1

check_request_type(m) ==
    m.kind = "request" \/ m.type \in ReportTypes

\* The fault of a procedure that is not marked as having had its response.
check_response_again(p, m) ==
    p.initial = <<m.type, "request">> /\ m.kind = "response"

\* The response to a request of the same type.  Once a response was accepted,
\* the switch reaches its default, which lets only Version Not Supported
\* through: neither end ever sends that one.
check_response_type(p, m) ==
    ~p.triggered /\ p.initial = <<m.type, "request">> /\ m.kind = "response"

-----------------------------------------------------------------------------
\* send_request, all its overloads alike: it numbers the request, arms both
\* timers and files the procedure before it sends.
SendRequest(n, dst, type) ==
    LET s == NextSeq(n)
        t == NewTrxn(n)
        m == [kind |-> "request", type |-> type, seq |-> s, src |-> n,
              dst |-> dst, of |-> <<n, t>>]
    IN
    /\ ~crashed[n]
    /\ n \in Requesters /\ dst # n
    /\ requests[n] < MaxRequests /\ t <= MaxTrxns
    /\ seq_num' = [seq_num EXCEPT ![n] = s]
    /\ lastTrxn' = [lastTrxn EXCEPT ![n] = t]
    /\ InsertProc(n, s, [trxn |-> t, initial |-> <<type, "request">>,
                         triggered |-> FALSE, retry_count |-> 0,
                         retry_timer |-> TRUE, retry_msg |-> {m}])
    /\ trxn_id2seq_num' = [trxn_id2seq_num EXCEPT ![n] = @ \cup {<<t, s>>}]
    /\ msg_out_retry_timers' =
         [msg_out_retry_timers EXCEPT ![n] = @ \cup {<<RetryId(t, 0), s>>}]
    /\ proc_cleanup_timers' =
         [proc_cleanup_timers EXCEPT ![n] = @ \cup {<<CleanupId(t), s>>}]
    /\ running' = [running EXCEPT ![n] = @ \cup {RetryId(t, 0), CleanupId(t)}]
    /\ network' = network \cup {m}
    /\ requests' = [requests EXCEPT ![n] = @ + 1]
    /\ copies' = [copies EXCEPT ![m.of] = 1]
    /\ UNCHANGED <<timeouts, inProgress, executed, answered, crashed>>

\* handle_receive_message_cb on a sequence number without a procedure: a
\* request opens one and goes up.
ReceiveNew(n, m) ==
    LET t == NewTrxn(n) IN
    /\ ~Busy(n, m.seq)
    /\ check_request_type(m)
    /\ t <= MaxTrxns
    /\ lastTrxn' = [lastTrxn EXCEPT ![n] = t]
    /\ InsertProc(n, m.seq, [trxn |-> t, initial |-> <<m.type, m.kind>>,
                             triggered |-> FALSE, retry_count |-> 0,
                             retry_timer |-> FALSE, retry_msg |-> {}])
    /\ trxn_id2seq_num' = [trxn_id2seq_num EXCEPT ![n] = @ \cup {<<t, m.seq>>}]
    /\ proc_cleanup_timers' =
         [proc_cleanup_timers EXCEPT ![n] = @ \cup {<<CleanupId(t), m.seq>>}]
    /\ running' = [running EXCEPT ![n] = @ \cup {CleanupId(t)}]
    /\ IF m.kind = "request"
         THEN /\ inProgress' = [inProgress EXCEPT ![n] = @ \cup {[trxn |-> t, msg |-> m]}]
              /\ executed' = [executed EXCEPT ![m.of] = @ + 1]
              /\ UNCHANGED answered
         ELSE /\ answered' = [answered EXCEPT ![m.of] = @ + 1]
              /\ UNCHANGED <<inProgress, executed>>
    /\ UNCHANGED <<seq_num, msg_out_retry_timers, timeouts, requests, copies, crashed>>

\* The retry timer of a procedure that has had its response is
\* stopped and forgotten; and the fault of leaving it running.
LeaveRetryTimer(n, p) == UNCHANGED <<running, msg_out_retry_timers>>
StopRetryTimer(n, p) ==
    LET id == RetryId(p.trxn, p.retry_count) IN
    /\ running' = [running EXCEPT ![n] = @ \ {id}]
    /\ msg_out_retry_timers' = [msg_out_retry_timers EXCEPT ![n] = WithoutId(@, id)]

\* The same on a sequence number with a procedure: a response that fits goes up
\* and stops the retry timer.
ReceiveTriggered(n, m) ==
    LET p == Proc_at(n, m.seq) IN
    /\ Busy(n, m.seq)
    /\ check_response_type(p, m)
    /\ pending_procedures' = [pending_procedures EXCEPT ![n][m.seq] =
                                [p EXCEPT !.triggered = TRUE, !.retry_timer = FALSE]]
    /\ IF p.retry_timer
         THEN StopRetryTimer(n, p)
         ELSE UNCHANGED <<running, msg_out_retry_timers>>
    /\ answered' = IF p.trxn = m.of[2] /\ m.of[1] = n
                     THEN [answered EXCEPT ![m.of] = @ + 1] ELSE answered
    /\ UNCHANGED <<seq_num, trxn_id2seq_num, proc_cleanup_timers, timeouts, lastTrxn,
                   inProgress, requests, copies, executed, crashed>>

\* Everything else is silently discarded.
Discard(n, m) ==
    /\ IF Busy(n, m.seq) THEN ~check_response_type(Proc_at(n, m.seq), m)
                         ELSE ~check_request_type(m)
    /\ UNCHANGED <<stackVars, inProgress, historyVars, crashed>>

\* A datagram arrives; the network may keep a copy to deliver again.
Receive(m) ==
    /\ ~crashed[m.dst]
    /\ ReceiveNew(m.dst, m) \/ ReceiveTriggered(m.dst, m) \/ Discard(m.dst, m)
    /\ network' \in {network, network \ {m}}

Lose(m) ==
    /\ network' = network \ {m}
    /\ UNCHANGED <<stackVars, inProgress, historyVars, crashed>>

\* send_response with DELETE_TX, for a request that was handed up.  The timer's
\* id is erased from msg_out_retry_timers, where it never is, and stays in
\* proc_cleanup_timers.
SendResponse(n, w) ==
    /\ ~crashed[n]
    /\ inProgress' = [inProgress EXCEPT ![n] = @ \ {w}]
    /\ \E e \in trxn_id2seq_num[n] :
         /\ e[1] = w.trxn
         /\ network' = network \cup
              {[kind |-> "response", type |-> w.msg.type, seq |-> e[2], src |-> n,
                dst |-> w.msg.src, of |-> w.msg.of]}
         /\ IF Busy(n, e[2])
              THEN LET id == CleanupId(Proc_at(n, e[2]).trxn) IN
                   /\ running' = [running EXCEPT ![n] = @ \ {id}]
                   /\ msg_out_retry_timers' = [msg_out_retry_timers EXCEPT ![n] = WithoutId(@, id)]
              ELSE UNCHANGED <<running, msg_out_retry_timers>>
         /\ EraseProc(n, e[2])
         /\ trxn_id2seq_num' = [trxn_id2seq_num EXCEPT ![n] = @ \ {e}]
    /\ UNCHANGED <<seq_num, proc_cleanup_timers, timeouts, lastTrxn, historyVars, crashed>>

\* A timer runs out and its TIME_OUT is queued.  T1 * (N1 + 2) is longer than the
\* retries of a procedure take, so its clean-up timer is the last to run out.
Expire(n, id) ==
    /\ id \in running[n]
    /\ id[1] = "cleanup" => \A k \in 0..N1 : RetryId(id[2], k) \notin running[n] \cup timeouts[n]
    /\ running' = [running EXCEPT ![n] = @ \ {id}]
    /\ timeouts' = IF DispatchTimers THEN [timeouts EXCEPT ![n] = @ \cup {id}] ELSE timeouts
    /\ UNCHANGED <<seq_num, pending_procedures, trxn_id2seq_num, msg_out_retry_timers,
                   proc_cleanup_timers, lastTrxn, network, inProgress, historyVars, crashed>>

\* retry_count < PFCP_N1_REQUESTS; and the fault of one retry less.
MayRetryOnceLess(p) == p.retry_count + 1 < N1
MayRetry(p) == p.retry_count < N1

\* time_out_event on a retry timer: send again, or give up after N1 times.
RetryTimeout(n, id) ==
    /\ ~crashed[n]
    /\ id \in timeouts[n]
    /\ timeouts' = [timeouts EXCEPT ![n] = @ \ {id}]
    /\ \E e \in msg_out_retry_timers[n] :
         LET s == e[2]
             p == Proc_at(n, s)
             next == RetryId(p.trxn, p.retry_count + 1)
             others == WithoutId(msg_out_retry_timers[n], id)
         IN
         /\ e[1] = id
         /\ \/ /\ Busy(n, s) /\ MayRetry(p) /\ p.retry_msg # {}
               /\ pending_procedures' = [pending_procedures EXCEPT ![n][s] =
                    [p EXCEPT !.retry_count = @ + 1, !.retry_timer = TRUE]]
               /\ msg_out_retry_timers' = [msg_out_retry_timers EXCEPT ![n] =
                    others \cup {<<next, s>>}]
               /\ running' = [running EXCEPT ![n] = @ \cup {next}]
               /\ network' = network \cup p.retry_msg
               /\ copies' = [r \in Names |->
                    IF \E m \in p.retry_msg : m.of = r THEN copies[r] + 1 ELSE copies[r]]
               /\ UNCHANGED crashed
            \/ /\ Busy(n, s) /\ MayRetry(p) /\ p.retry_msg = {}
               /\ crashed' = [crashed EXCEPT ![n] = TRUE]
               /\ UNCHANGED <<pending_procedures, msg_out_retry_timers, running, network, copies>>
            \/ /\ Busy(n, s) => ~MayRetry(p)
               /\ msg_out_retry_timers' = [msg_out_retry_timers EXCEPT ![n] = others]
               /\ UNCHANGED <<pending_procedures, running, network, copies, crashed>>
    /\ UNCHANGED <<seq_num, trxn_id2seq_num, proc_cleanup_timers, lastTrxn,
                   inProgress, requests, executed, answered>>

\* time_out_event on a clean-up timer: whatever procedure now has the sequence
\* number goes.
CleanupTimeout(n, id) ==
    /\ ~crashed[n]
    /\ id \in timeouts[n]
    /\ timeouts' = [timeouts EXCEPT ![n] = @ \ {id}]
    /\ \E e \in proc_cleanup_timers[n] :
         /\ e[1] = id
         /\ proc_cleanup_timers' = [proc_cleanup_timers EXCEPT ![n] = @ \ {e}]
         /\ EraseProc(n, e[2])
    /\ UNCHANGED <<seq_num, trxn_id2seq_num, msg_out_retry_timers, running, lastTrxn,
                   network, inProgress, historyVars, crashed>>

\* time_out_event on a timer that is in neither table any more.
StaleTimeout(n, id) ==
    /\ ~crashed[n]
    /\ id \in timeouts[n]
    /\ WithoutId(msg_out_retry_timers[n] \cup proc_cleanup_timers[n], id) =
         msg_out_retry_timers[n] \cup proc_cleanup_timers[n]
    /\ timeouts' = [timeouts EXCEPT ![n] = @ \ {id}]
    /\ UNCHANGED <<seq_num, pending_procedures, trxn_id2seq_num, msg_out_retry_timers,
                   proc_cleanup_timers, running, lastTrxn, network, inProgress,
                   historyVars, crashed>>

time_out_event(n, id) ==
    RetryTimeout(n, id) \/ CleanupTimeout(n, id) \/ StaleTimeout(n, id)

-----------------------------------------------------------------------------
Next ==
    \/ \E n, dst \in Nodes, type \in Types : SendRequest(n, dst, type)
    \/ \E m \in network : Receive(m) \/ Lose(m)
    \/ \E n \in Nodes : \E w \in inProgress[n] : SendResponse(n, w)
    \/ \E n \in Nodes : \E id \in running[n] : Expire(n, id)
    \/ \E n \in Nodes : \E id \in timeouts[n] : time_out_event(n, id)

Spec == Init /\ [][Next]_vars

\* Timers run out and their TIME_OUTs are handled; nothing is assumed of the
\* network or of the peer.
TimerFairness ==
    \A n \in Nodes :
      /\ WF_vars(\E id \in running[n] : Expire(n, id))
      /\ WF_vars(\E id \in timeouts[n] : time_out_event(n, id))

FairSpec == Spec /\ TimerFairness

-----------------------------------------------------------------------------
(* Properties.                                                              *)

Own(p) == p # NoProc /\ p.retry_msg # {}

\* The stacks implement PfcpService: a response is handed up at most once for a
\* request, and only after the peer was handed that very request, however often
\* the network repeats either and whatever else has the same sequence number.
Service == INSTANCE PfcpService WITH
             Requests <- Names,
             asked <- {r \in Names : copies[r] > 0},
             executed <- executed,
             answered <- answered
ImplementsService == Service!Spec

\* The exchanges in one table stay apart.  The procedure of an own request is
\* closed by the response to that request, not by one to another request with the
\* same sequence number; and a peer's request that is still being worked on is not
\* handed up a second time (a retransmission or a duplicate meets the open
\* procedure).
ExchangesStayApart ==
    \A n \in Nodes :
      /\ \A s \in Seqs :
           LET p == Proc_at(n, s) IN
           Own(p) /\ p.triggered => answered[<<n, p.trxn>>] = 1
      /\ \A v, w \in inProgress[n] : v.msg = w.msg => v = w

\* However TIME_OUTs and responses race: no copy of a request is sent after its
\* response, and no more than 1 + N1 without one.
RetriesStop ==
    [][\A r \in Names : copies'[r] > copies[r] =>
          answered[r] = 0 /\ copies'[r] <= 1 + N1]_vars

\* A request that stays without a response is sent again ("send again message"),
\* as long as the peer sends no request, which could have its sequence number.
LostRequestsAreRetried ==
    \A r \in Names :
      copies[r] = 1 ~>
        copies[r] > 1 \/ answered[r] > 0 \/ \E q \in Names : q[1] # r[1] /\ copies[q] > 0

\* No procedure stays in the table for good: its clean-up timer ends it.
EveryProcedureEnds ==
    \A n \in Nodes, s \in Seqs : Busy(n, s) ~> ~Busy(n, s) \/ crashed[n]
=============================================================================
