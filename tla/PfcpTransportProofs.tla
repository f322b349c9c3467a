------------------------- MODULE PfcpTransportProofs -------------------------
(***************************************************************************)
(* Proofs about PfcpTransport, for any number of stacks, requests, retries  *)
(* and sequence numbers: what is handed up and how often, and that the      *)
(* stacks implement PfcpService.                                            *)
(***************************************************************************)
EXTENDS PfcpTransport, TLAPS

Asked(n, t) == copies[<<n, t>>] > 0

\* m is a request that was sent, or the response to one that was executed; the
\* stack that asked still knows the sequence number of its own requests.
IsRequest(m) ==
    /\ m.kind = "request" /\ m.src = m.of[1]
    /\ copies[m.of] > 0
    /\ <<m.of[2], m.seq>> \in trxn_id2seq_num[m.of[1]]

IsResponse(m) ==
    /\ m.kind = "response" /\ m.dst = m.of[1]
    /\ copies[m.of] > 0 /\ executed[m.of] > 0
    /\ <<m.of[2], m.seq>> \in trxn_id2seq_num[m.of[1]]

MailOK == \A m \in network : IsRequest(m) \/ IsResponse(m)

\* A transaction has one sequence number, and only those that were given out
\* are used.
Numbered ==
    \A n \in Nodes :
      /\ \A e \in trxn_id2seq_num[n] : e[1] <= lastTrxn[n]
      /\ \A e, f \in trxn_id2seq_num[n] : e[1] = f[1] => e = f
      /\ \A t \in Trxns : Asked(n, t) => t <= lastTrxn[n]
      /\ \A t \in Trxns : ~Asked(n, t) => answered[<<n, t>>] = 0

\* What is being worked on was asked of the stack, in a transaction of its own.
WorkOK ==
    \A n \in Nodes :
      /\ \A w \in inProgress[n] :
           /\ w.trxn <= lastTrxn[n] /\ ~Asked(n, w.trxn)
           /\ IsRequest(w.msg) /\ executed[w.msg.of] > 0
           /\ <<w.trxn, w.msg.seq>> \in trxn_id2seq_num[n]
      /\ \A v, w \in inProgress[n] : v.trxn = w.trxn => v = w

\* A procedure with a retry_msg is that of an own request, with the sequence number
\* of its transaction; before its response nothing was handed up for it.
ProcOK(n, s, p) ==
    /\ p.trxn <= lastTrxn[n]
    /\ p.retry_msg # {} <=> Asked(n, p.trxn)
    /\ p.retry_msg # {} =>
         /\ <<p.trxn, s>> \in trxn_id2seq_num[n]
         /\ ~p.triggered => answered[<<n, p.trxn>>] = 0
    /\ \A m \in p.retry_msg : m.of = <<n, p.trxn>> /\ m.seq = s /\ IsRequest(m)

ProcsOK == \A n \in Nodes, s \in Seqs : Busy(n, s) => ProcOK(n, s, Proc_at(n, s))

\* The inductive invariant, whoever handles the timers, is TypeOK /\ Facts.
Facts == Numbered /\ MailOK /\ WorkOK /\ ProcsOK

\* Without TIME_OUTs, a procedure that has had a response, or may have one, stays:
\* it is of an own request, or was opened by a response taken for a request.
Closed(p) == p # NoProc /\ (p.retry_msg # {} \/ p.initial[2] = "response")

\* A response is handed up once, and then the sequence number stays closed.
AnsweredOnce ==
    \A n \in Nodes : \A e \in trxn_id2seq_num[n] :
      answered[<<n, e[1]>>] > 0 => answered[<<n, e[1]>>] = 1 /\ Closed(Proc_at(n, e[2]))

\* The procedure of a request that is being worked on is open.
WorkOpen ==
    \A n \in Nodes : \A w \in inProgress[n] :
      LET p == Proc_at(n, w.msg.seq) IN
      p # NoProc /\ p.trxn = w.trxn /\ ~Closed(p)

AnsweredAsked == \A r \in Names : answered[r] <= 1 /\ (answered[r] > 0 => executed[r] > 0)

\* What holds besides when the owner hands no TIME_OUT to the stack.
Wired == (\A n \in Nodes : timeouts[n] = {}) /\ AnsweredOnce /\ WorkOpen /\ AnsweredAsked

\* s was given out within the last requests[n] numbers of the cycle.
Recent(n, s) ==
    \E d \in 0..requests[n]-1 : s + d = seq_num[n] \/ s + d = seq_num[n] + SeqModulus

\* As long as the numbers do not run out, own requests have different ones.
SeqsApart ==
    \A n \in Nodes :
      /\ \A e \in trxn_id2seq_num[n] : Asked(n, e[1]) => Recent(n, e[2])
      /\ \A e, f \in trxn_id2seq_num[n] :
           Asked(n, e[1]) /\ Asked(n, f[1]) /\ e[2] = f[2] => e = f

\* An entry of the retry timers is that of an own request; when its procedure is
\* still there, the entry is its current timer.
RetriesOK ==
    \A n \in Nodes : \A x \in msg_out_retry_timers[n] :
      /\ x[1] = RetryId(x[1][2], x[1][3])
      /\ Asked(n, x[1][2]) /\ <<x[1][2], x[2]>> \in trxn_id2seq_num[n]
      /\ LET p == Proc_at(n, x[2]) IN
         p # NoProc /\ p.trxn = x[1][2] => p.retry_count = x[1][3] /\ p.retry_timer

\* An own procedure counts the copies that were sent, and once it has its response it
\* has no retry timer.
OwnOK ==
    \A n \in Nodes, s \in Seqs :
      LET p == Proc_at(n, s) IN
      Own(p) => /\ p.triggered => ~p.retry_timer /\ answered[<<n, p.trxn>>] > 0
                /\ copies[<<n, p.trxn>>] = 1 + p.retry_count

\* What holds besides while no stack sends more requests than there are numbers.
Once == SeqsApart /\ RetriesOK /\ OwnOK

-----------------------------------------------------------------------------
(* Types.                                                                   *)

USE NodesAssumption, SeqAssumption, BoundsAssumption, DispatchAssumption

\* The parts of a message, and that its name is a pair of the stack and the transaction.
LEMMA MessageType ==
  ASSUME NEW m \in Message
  PROVE  /\ m.kind \in Kinds /\ m.type \in Types /\ m.seq \in Seqs
         /\ m.src \in Nodes /\ m.dst \in Nodes /\ m.of \in Names
         /\ m.of[1] \in Nodes /\ m.of[2] \in Trxns /\ m.of = <<m.of[1], m.of[2]>>
BY DEF Message, Names

\* The fields of a pending procedure, which differs from the absence of one.
LEMMA ProcType ==
  ASSUME NEW p \in Proc
  PROVE  /\ p.trxn \in Trxns /\ p.initial \in Types \X Kinds /\ p.triggered \in BOOLEAN
         /\ p.retry_count \in 0..N1 /\ p.retry_timer \in BOOLEAN
         /\ p.retry_msg \in SUBSET Message
         /\ p # NoProc
BY DEF Proc, NoProc, NoTrxn, Trxns

\* The next sequence number is one.
LEMMA NextSeqType ==
  ASSUME NEW n \in Nodes, seq_num[n] \in Seqs
  PROVE  NextSeq(n) \in Seqs /\ NextSeq(n) = IF seq_num[n] = SeqModulus - 1 THEN 0 ELSE seq_num[n] + 1
BY DEF NextSeq, Seqs

\* The timers of a transaction have ids of the type.
LEMMA TimerIdType ==
  ASSUME NEW t \in Trxns, NEW k \in 0..N1
  PROVE  RetryId(t, k) \in TimerIds /\ CleanupId(t) \in TimerIds
BY DEF RetryId, CleanupId, TimerIds

\* The stacks start in their types.
LEMMA InitTypeOK == Init => TypeOK
<1> SUFFICES ASSUME Init PROVE TypeOK
  OBVIOUS
<1>1. seq_num \in [Nodes -> Seqs]
  BY DEF Init, Seqs
<1>2. pending_procedures \in [Nodes -> [Seqs -> Proc \cup {NoProc}]]
  BY DEF Init
<1>3. /\ lastTrxn \in [Nodes -> 0..MaxTrxns] /\ requests \in [Nodes -> 0..MaxRequests]
      /\ copies \in [Names -> Nat] /\ executed \in [Names -> Nat] /\ answered \in [Names -> Nat]
  BY DEF Init
<1>4. QED
  BY <1>1, <1>2, <1>3 DEF Init, TypeOK

\* Every step keeps the types.
LEMMA NextTypeOK == TypeOK /\ [Next]_vars => TypeOK'
<1> SUFFICES ASSUME TypeOK, [Next]_vars PROVE TypeOK'
  OBVIOUS
<1>1. ASSUME NEW n \in Nodes, NEW dst \in Nodes, NEW type \in Types, SendRequest(n, dst, type)
      PROVE  TypeOK'
  <2> DEFINE s == NextSeq(n)
             t == NewTrxn(n)
             m == [kind |-> "request", type |-> type, seq |-> s, src |-> n,
                   dst |-> dst, of |-> <<n, t>>]
             p == [trxn |-> t, initial |-> <<type, "request">>,
                   triggered |-> FALSE, retry_count |-> 0,
                   retry_timer |-> TRUE, retry_msg |-> {m}]
  <2>1. s \in Seqs /\ t \in Trxns
    BY <1>1, NextSeqType DEF SendRequest, TypeOK, NewTrxn, Trxns
  <2>2. m \in Message
    BY <2>1 DEF Message, Names, Kinds
  <2>3. p \in Proc
    BY <2>1, <2>2 DEF Proc, Kinds
  <2>4. pending_procedures' \in [Nodes -> [Seqs -> Proc \cup {NoProc}]]
    <3> HIDE DEF p, s
    <3>1. InsertProc(n, s, p)
      BY <1>1 DEF SendRequest, p, s
    <3>2. QED
      BY <2>1, <2>3, <3>1 DEF InsertProc, TypeOK
  <2>5. /\ trxn_id2seq_num' \in [Nodes -> SUBSET (Trxns \X Seqs)]
        /\ msg_out_retry_timers' \in [Nodes -> SUBSET (TimerIds \X Seqs)]
        /\ proc_cleanup_timers' \in [Nodes -> SUBSET (TimerIds \X Seqs)]
        /\ running' \in [Nodes -> SUBSET TimerIds]
    <3> HIDE DEF s, t
    <3>1. RetryId(t, 0) \in TimerIds /\ CleanupId(t) \in TimerIds
      BY <2>1, TimerIdType
    <3>2. QED
      BY <1>1, <2>1, <3>1 DEF SendRequest, TypeOK, s, t
  <2>6. /\ lastTrxn' \in [Nodes -> 0..MaxTrxns]
        /\ requests' \in [Nodes -> 0..MaxRequests]
        /\ seq_num' \in [Nodes -> Seqs]
    BY <1>1, <2>1 DEF SendRequest, TypeOK, Trxns
  <2>7. network' \subseteq Message /\ copies' \in [Names -> Nat]
    BY <1>1, <2>2 DEF SendRequest, TypeOK
  <2>8. QED
    BY <1>1, <2>4, <2>5, <2>6, <2>7 DEF SendRequest, TypeOK
<1>2. ASSUME NEW m \in network, ReceiveNew(m.dst, m), network' \in {network, network \ {m}}
      PROVE  TypeOK'
  <2> DEFINE t == NewTrxn(m.dst)
             p == [trxn |-> t, initial |-> <<m.type, m.kind>>,
                   triggered |-> FALSE, retry_count |-> 0,
                   retry_timer |-> FALSE, retry_msg |-> {}]
  <2>1. m \in Message /\ t \in Trxns
    BY <1>2, MessageType DEF ReceiveNew, TypeOK, NewTrxn, Trxns
  <2>2. p \in Proc
    BY <2>1, MessageType DEF Proc
  <2>3. pending_procedures' \in [Nodes -> [Seqs -> Proc \cup {NoProc}]]
    <3> HIDE DEF p
    <3>1. InsertProc(m.dst, m.seq, p)
      BY <1>2 DEF ReceiveNew, p
    <3>2. QED
      BY <2>1, <2>2, <3>1, MessageType DEF InsertProc, TypeOK
  <2>4. /\ trxn_id2seq_num' \in [Nodes -> SUBSET (Trxns \X Seqs)]
        /\ proc_cleanup_timers' \in [Nodes -> SUBSET (TimerIds \X Seqs)]
        /\ running' \in [Nodes -> SUBSET TimerIds]
    <3> HIDE DEF t
    <3>1. CleanupId(t) \in TimerIds
      BY <2>1, TimerIdType
    <3>2. QED
      BY <1>2, <2>1, <3>1, MessageType DEF ReceiveNew, TypeOK, t
  <2>5. lastTrxn' \in [Nodes -> 0..MaxTrxns] /\ network' \subseteq Message
    <3>1. network' \subseteq Message
      BY <1>2 DEF TypeOK
    <3>2. t \in 0..MaxTrxns
      BY <2>1 DEF Trxns
    <3> HIDE DEF t
    <3>3. lastTrxn' = [lastTrxn EXCEPT ![m.dst] = t]
      BY <1>2 DEF ReceiveNew, t
    <3>4. QED
      BY <3>1, <3>2, <3>3 DEF TypeOK
  <2>6. /\ inProgress' \in [Nodes -> SUBSET [trxn : Trxns, msg : Message]]
        /\ executed' \in [Names -> Nat] /\ answered' \in [Names -> Nat]
    <3> HIDE DEF t
    <3>1. [trxn |-> t, msg |-> m] \in [trxn : Trxns, msg : Message]
      BY <2>1
    <3>2. \/ inProgress' = inProgress
          \/ inProgress' = [inProgress EXCEPT ![m.dst] = @ \cup {[trxn |-> t, msg |-> m]}]
      BY <1>2 DEF ReceiveNew, t
    <3>3. executed' = executed \/ executed' = [executed EXCEPT ![m.of] = @ + 1]
      BY <1>2 DEF ReceiveNew
    <3>4. answered' = answered \/ answered' = [answered EXCEPT ![m.of] = @ + 1]
      BY <1>2 DEF ReceiveNew
    <3>5. inProgress' \in [Nodes -> SUBSET [trxn : Trxns, msg : Message]]
      <4>1. CASE inProgress' = inProgress
        BY <4>1 DEF TypeOK
      <4>2. CASE inProgress' = [inProgress EXCEPT ![m.dst] = @ \cup {[trxn |-> t, msg |-> m]}]
        BY <3>1, <4>2 DEF TypeOK
      <4>3. QED
        BY <3>2, <4>1, <4>2
    <3>6. executed' \in [Names -> Nat]
      BY <3>3 DEF TypeOK
    <3>7. answered' \in [Names -> Nat]
      BY <3>4 DEF TypeOK
    <3>8. QED
      BY <3>5, <3>6, <3>7
  <2>7. QED
    BY <1>2, <2>3, <2>4, <2>5, <2>6 DEF ReceiveNew, TypeOK
<1>3. ASSUME NEW m \in network, ReceiveTriggered(m.dst, m), network' \in {network, network \ {m}}
      PROVE  TypeOK'
  <2>1. m \in Message /\ Proc_at(m.dst, m.seq) \in Proc
    BY <1>3, MessageType DEF ReceiveTriggered, TypeOK, Busy, Proc_at
  <2>2. [Proc_at(m.dst, m.seq) EXCEPT !.triggered = TRUE, !.retry_timer = FALSE] \in Proc
    BY <2>1 DEF Proc
  <2>3. pending_procedures' \in [Nodes -> [Seqs -> Proc \cup {NoProc}]]
    BY <1>3, <2>1, <2>2, MessageType DEF ReceiveTriggered, TypeOK
  <2>4. /\ running' \in [Nodes -> SUBSET TimerIds]
        /\ msg_out_retry_timers' \in [Nodes -> SUBSET (TimerIds \X Seqs)]
    <3>1. CASE UNCHANGED <<running, msg_out_retry_timers>>
      BY <3>1 DEF TypeOK
    <3>2. CASE StopRetryTimer(m.dst, Proc_at(m.dst, m.seq))
      BY <3>2 DEF StopRetryTimer, WithoutId, TypeOK
    <3>3. QED
      BY <1>3, <3>1, <3>2 DEF ReceiveTriggered
  <2>5. answered' \in [Names -> Nat] /\ network' \subseteq Message
    BY <1>3, <2>1, MessageType DEF ReceiveTriggered, TypeOK
  <2>6. QED
    BY <1>3, <2>3, <2>4, <2>5 DEF ReceiveTriggered, TypeOK
<1>4. ASSUME NEW m \in network, Discard(m.dst, m) \/ Lose(m), network' \in {network, network \ {m}}
      PROVE  TypeOK'
  BY <1>4 DEF Discard, Lose, TypeOK, stackVars, historyVars
<1>5. ASSUME NEW n \in Nodes, NEW w \in inProgress[n], SendResponse(n, w)
      PROVE  TypeOK'
  <2>1. w.trxn \in Trxns /\ w.msg \in Message
    BY DEF TypeOK
  <2>2. PICK e \in trxn_id2seq_num[n] :
          /\ network' = network \cup
               {[kind |-> "response", type |-> w.msg.type, seq |-> e[2], src |-> n,
                 dst |-> w.msg.src, of |-> w.msg.of]}
          /\ running' = [running EXCEPT ![n] = @ \ {CleanupId(Proc_at(n, e[2]).trxn)}]
               \/ running' = running
          /\ \/ msg_out_retry_timers' = [msg_out_retry_timers EXCEPT ![n] =
                    WithoutId(@, CleanupId(Proc_at(n, e[2]).trxn))]
             \/ msg_out_retry_timers' = msg_out_retry_timers
          /\ EraseProc(n, e[2])
          /\ trxn_id2seq_num' = [trxn_id2seq_num EXCEPT ![n] = @ \ {e}]
    BY <1>5 DEF SendResponse
  <2>3. e[2] \in Seqs
    BY DEF TypeOK
  <2>4. network' \subseteq Message
    BY <2>1, <2>2, <2>3, MessageType DEF Message, Kinds, TypeOK
  <2>5. pending_procedures' \in [Nodes -> [Seqs -> Proc \cup {NoProc}]]
    BY <2>2, <2>3 DEF EraseProc, TypeOK
  <2>6. /\ running' \in [Nodes -> SUBSET TimerIds]
        /\ msg_out_retry_timers' \in [Nodes -> SUBSET (TimerIds \X Seqs)]
        /\ trxn_id2seq_num' \in [Nodes -> SUBSET (Trxns \X Seqs)]
    <3> DEFINE id == CleanupId(Proc_at(n, e[2]).trxn)
    <3> HIDE DEF id
    <3>1. running' \in [Nodes -> SUBSET TimerIds]
      <4>1. running' = [running EXCEPT ![n] = @ \ {id}] \/ running' = running
        BY <2>2 DEF id
      <4>2. QED
        <5>1. CASE running' = running
          BY <5>1 DEF TypeOK
        <5>2. CASE running' = [running EXCEPT ![n] = @ \ {id}]
          BY <5>2 DEF TypeOK
        <5>3. QED
          BY <4>1, <5>1, <5>2
    <3>2. msg_out_retry_timers' \in [Nodes -> SUBSET (TimerIds \X Seqs)]
      <4>1. \/ msg_out_retry_timers' = [msg_out_retry_timers EXCEPT ![n] = WithoutId(@, id)]
            \/ msg_out_retry_timers' = msg_out_retry_timers
        BY <2>2 DEF id
      <4>2. QED
        <5>1. CASE msg_out_retry_timers' = msg_out_retry_timers
          BY <5>1 DEF TypeOK
        <5>2. CASE msg_out_retry_timers' = [msg_out_retry_timers EXCEPT ![n] = WithoutId(@, id)]
          BY <5>2 DEF TypeOK, WithoutId
        <5>3. QED
          BY <4>1, <5>1, <5>2
    <3>3. trxn_id2seq_num' \in [Nodes -> SUBSET (Trxns \X Seqs)]
      BY <2>2 DEF TypeOK
    <3>4. QED
      BY <3>1, <3>2, <3>3
  <2>7. QED
    BY <1>5, <2>4, <2>5, <2>6 DEF SendResponse, TypeOK, historyVars
<1>6. ASSUME NEW n \in Nodes, NEW id \in running[n], Expire(n, id)
      PROVE  TypeOK'
  BY <1>6 DEF Expire, TypeOK, historyVars
<1>7. ASSUME NEW n \in Nodes, NEW id \in timeouts[n], RetryTimeout(n, id)
      PROVE  TypeOK'
  <2>1. PICK e \in msg_out_retry_timers[n] : RetryTimeout(n, id)!4!(e)
    BY <1>7 DEF RetryTimeout
  <2> DEFINE s == e[2]
             p == Proc_at(n, s)
             next == RetryId(p.trxn, p.retry_count + 1)
             others == WithoutId(msg_out_retry_timers[n], id)
  <2>2. s \in Seqs /\ others \in SUBSET (TimerIds \X Seqs)
    BY DEF TypeOK, WithoutId
  <2>6. timeouts' \in [Nodes -> SUBSET TimerIds]
    BY <1>7 DEF RetryTimeout, TypeOK
  <2>3. CASE ~(Busy(n, s) /\ MayRetry(p) /\ p.retry_msg # {})
    <3>0. UNCHANGED <<pending_procedures, running, network, copies>>
      BY <2>1, <2>3
    <3>1. \/ msg_out_retry_timers' = msg_out_retry_timers
          \/ msg_out_retry_timers' = [msg_out_retry_timers EXCEPT ![n] = others]
      BY <2>1, <2>3
    <3>2. crashed' = crashed \/ crashed' = [crashed EXCEPT ![n] = TRUE]
      <4> HIDE DEF s, p, next, others
      <4>1. QED
        BY <2>1, <2>3 DEF s, p, next, others
    <3> HIDE DEF others
    <3>3. msg_out_retry_timers' \in [Nodes -> SUBSET (TimerIds \X Seqs)]
      BY <2>2, <3>1 DEF TypeOK
    <3>4. crashed' \in [Nodes -> BOOLEAN]
      BY <3>2 DEF TypeOK
    <3>5. QED
      BY <1>7, <2>6, <3>0, <3>3, <3>4 DEF RetryTimeout, TypeOK
  <2>4. CASE Busy(n, s) /\ MayRetry(p) /\ p.retry_msg # {}
    <3>0. /\ Busy(n, s) /\ MayRetry(p) /\ p.retry_msg # {}
          /\ pending_procedures' = [pending_procedures EXCEPT ![n][s] =
               [p EXCEPT !.retry_count = @ + 1, !.retry_timer = TRUE]]
          /\ msg_out_retry_timers' = [msg_out_retry_timers EXCEPT ![n] =
               others \cup {<<next, s>>}]
          /\ running' = [running EXCEPT ![n] = @ \cup {next}]
          /\ network' = network \cup p.retry_msg
          /\ copies' = [r \in Names |->
               IF \E m \in p.retry_msg : m.of = r THEN copies[r] + 1 ELSE copies[r]]
          /\ UNCHANGED crashed
      BY <2>1, <2>4
    <3>1. p \in Proc
      BY <2>2, <3>0 DEF Busy, Proc_at, TypeOK
    <3>2. p.retry_count + 1 \in 0..N1
      BY <3>0, <3>1, ProcType DEF MayRetry
    <3>3. [p EXCEPT !.retry_count = @ + 1, !.retry_timer = TRUE] \in Proc
      BY <3>1, <3>2 DEF Proc
    <3>4. next \in TimerIds
      BY <3>1, <3>2, ProcType, TimerIdType
    <3>5. p.retry_msg \subseteq Message
      BY <3>1, ProcType
    <3> HIDE DEF s, p, next, others
    <3>6. pending_procedures' \in [Nodes -> [Seqs -> Proc \cup {NoProc}]]
      BY <2>2, <3>0, <3>3 DEF TypeOK
    <3>7. msg_out_retry_timers' \in [Nodes -> SUBSET (TimerIds \X Seqs)]
      BY <2>2, <3>0, <3>4 DEF TypeOK
    <3>8. running' \in [Nodes -> SUBSET TimerIds]
      BY <3>0, <3>4 DEF TypeOK
    <3>9. network' \subseteq Message /\ copies' \in [Names -> Nat]
      BY <3>0, <3>5 DEF TypeOK
    <3>10. QED
      BY <1>7, <2>6, <3>0, <3>6, <3>7, <3>8, <3>9 DEF RetryTimeout, TypeOK
  <2>5. QED
    BY <2>3, <2>4
<1>8. ASSUME NEW n \in Nodes, NEW id \in timeouts[n], CleanupTimeout(n, id)
      PROVE  TypeOK'
  BY <1>8 DEF CleanupTimeout, EraseProc, TypeOK, historyVars
<1>9. ASSUME NEW n \in Nodes, NEW id \in timeouts[n], StaleTimeout(n, id)
      PROVE  TypeOK'
  BY <1>9 DEF StaleTimeout, TypeOK, historyVars
<1>10. CASE UNCHANGED vars
  BY <1>10 DEF vars, stackVars, historyVars, TypeOK
<1>11. QED
  BY <1>1, <1>2, <1>3, <1>4, <1>5, <1>6, <1>7, <1>8, <1>9, <1>10
  DEF Next, Receive, Lose, time_out_event

-----------------------------------------------------------------------------
(* The inductive invariant.                                                 *)

\* What no step takes back: transactions given out, copies sent, requests handed up,
\* and the sequence numbers of own requests.
Kept ==
    /\ \A n \in Nodes : lastTrxn[n] <= lastTrxn'[n]
    /\ \A r \in Names : copies[r] > 0 => copies'[r] > 0
    /\ \A r \in Names : executed[r] > 0 => executed'[r] > 0
    /\ \A n \in Nodes : \A e \in trxn_id2seq_num[n] :
         Asked(n, e[1]) => e \in trxn_id2seq_num'[n]

\* A message that is a request, or a response, stays one.
LEMMA MessageKept ==
  ASSUME NEW m \in Message, Kept
  PROVE  (IsRequest(m) => IsRequest(m)') /\ (IsResponse(m) => IsResponse(m)')
<1>1. /\ m.of \in Names /\ m.of[1] \in Nodes /\ m.of = <<m.of[1], m.of[2]>>
  BY MessageType
<1>2. ASSUME copies[m.of] > 0, <<m.of[2], m.seq>> \in trxn_id2seq_num[m.of[1]]
      PROVE  copies'[m.of] > 0 /\ <<m.of[2], m.seq>> \in trxn_id2seq_num'[m.of[1]]
  BY <1>1, <1>2 DEF Kept, Asked
<1>3. QED
  BY <1>1, <1>2 DEF Kept, IsRequest, IsResponse

\* A number not given out yet belongs to no entry, request, or procedure.
LEMMA NewTrxnUnused ==
  ASSUME TypeOK, Facts, NEW n \in Nodes, NewTrxn(n) <= MaxTrxns
  PROVE  /\ NewTrxn(n) \in Trxns /\ <<n, NewTrxn(n)>> \in Names
         /\ NewTrxn(n) = lastTrxn[n] + 1 /\ lastTrxn[n] \in Nat
         /\ ~Asked(n, NewTrxn(n)) /\ answered[<<n, NewTrxn(n)>>] = 0
         /\ \A e \in trxn_id2seq_num[n] : e[1] \in Trxns /\ e[1] # NewTrxn(n)
         /\ \A w \in inProgress[n] : w.trxn # NewTrxn(n)
         /\ \A s \in Seqs : Busy(n, s) => Proc_at(n, s).trxn # NewTrxn(n)
<1>1. lastTrxn[n] \in Nat /\ NewTrxn(n) = lastTrxn[n] + 1 /\ NewTrxn(n) \in Trxns
  BY DEF TypeOK, NewTrxn, Trxns
<1>2. <<n, NewTrxn(n)>> \in Names
  BY <1>1 DEF Names
<1>3. ~Asked(n, NewTrxn(n)) /\ answered[<<n, NewTrxn(n)>>] = 0
  BY <1>1 DEF Facts, Numbered
<1>4. \A e \in trxn_id2seq_num[n] : e[1] \in Trxns /\ e[1] # NewTrxn(n)
  BY <1>1 DEF Facts, Numbered, TypeOK, Trxns
<1>5. ASSUME NEW w \in inProgress[n]
      PROVE  w.trxn # NewTrxn(n)
  <2>1. w.trxn \in Trxns
    BY DEF TypeOK
  <2>2. w.trxn <= lastTrxn[n]
    BY DEF Facts, WorkOK
  <2>3. QED
    BY <1>1, <2>1, <2>2 DEF Trxns
<1>6. ASSUME NEW s \in Seqs, Busy(n, s)
      PROVE  Proc_at(n, s).trxn # NewTrxn(n)
  <2>1. Proc_at(n, s).trxn \in Trxns
    BY <1>6, ProcType DEF TypeOK, Busy, Proc_at
  <2>2. Proc_at(n, s).trxn <= lastTrxn[n]
    BY <1>6 DEF Facts, ProcsOK, ProcOK
  <2>3. QED
    BY <1>1, <2>1, <2>2 DEF Trxns
<1>7. QED
  BY <1>1, <1>2, <1>3, <1>4, <1>5, <1>6

\* What a response changes: the procedure of the request goes, with its entry.
LEMMA SendResponseStep ==
  ASSUME TypeOK, Facts, NEW n \in Nodes, NEW w \in inProgress[n], SendResponse(n, w)
  PROVE  \E e, m :
    /\ e = <<w.trxn, w.msg.seq>> /\ e \in trxn_id2seq_num[n]
    /\ m = [kind |-> "response", type |-> w.msg.type, seq |-> w.msg.seq, src |-> n,
            dst |-> w.msg.src, of |-> w.msg.of]
    /\ m \in Message /\ w.msg \in Message /\ w.trxn \in Trxns /\ w.msg.seq \in Seqs
    /\ m.kind = "response" /\ m.of = w.msg.of /\ m.seq = w.msg.seq /\ m.dst = w.msg.of[1]
    /\ network' = network \cup {m}
    /\ trxn_id2seq_num' = [trxn_id2seq_num EXCEPT ![n] = @ \ {e}]
    /\ EraseProc(n, w.msg.seq)
    /\ inProgress' = [inProgress EXCEPT ![n] = @ \ {w}]
    /\ UNCHANGED <<seq_num, lastTrxn, historyVars, timeouts>>
<1>1. PICK e \in trxn_id2seq_num[n] :
         /\ e[1] = w.trxn
         /\ network' = network \cup
              {[kind |-> "response", type |-> w.msg.type, seq |-> e[2], src |-> n,
                dst |-> w.msg.src, of |-> w.msg.of]}
         /\ EraseProc(n, e[2])
         /\ trxn_id2seq_num' = [trxn_id2seq_num EXCEPT ![n] = @ \ {e}]
  BY DEF SendResponse
<1>2. /\ w.trxn \in Trxns /\ w.msg \in Message /\ IsRequest(w.msg)
      /\ <<w.trxn, w.msg.seq>> \in trxn_id2seq_num[n]
  BY DEF TypeOK, Facts, WorkOK
<1>3. e = <<w.trxn, w.msg.seq>>
  BY <1>1, <1>2 DEF Facts, Numbered
<1>4. PICK m : m = [kind |-> "response", type |-> w.msg.type, seq |-> w.msg.seq, src |-> n,
                    dst |-> w.msg.src, of |-> w.msg.of]
  OBVIOUS
<1>5. /\ m \in Message /\ w.msg.seq \in Seqs /\ m.kind = "response" /\ m.of = w.msg.of
      /\ m.seq = w.msg.seq /\ m.dst = w.msg.of[1]
  BY <1>2, <1>4, MessageType DEF Message, Kinds, IsRequest
<1>6. network' = network \cup {m} /\ EraseProc(n, w.msg.seq)
  BY <1>1, <1>3, <1>4
<1>7. /\ inProgress' = [inProgress EXCEPT ![n] = @ \ {w}]
      /\ UNCHANGED <<seq_num, lastTrxn, historyVars, timeouts>>
  BY DEF SendResponse
<1>8. QED
  BY <1>1, <1>2, <1>3, <1>4, <1>5, <1>6, <1>7

\* The retry timer of a procedure runs out and the request is sent again.
SendAgain(n, id, e, p) ==
    LET next == RetryId(p.trxn, p.retry_count + 1) IN
    /\ e \in msg_out_retry_timers[n] /\ e[1] = id
    /\ p = Proc_at(n, e[2]) /\ Busy(n, e[2]) /\ MayRetry(p) /\ p.retry_msg # {}
    /\ pending_procedures' = [pending_procedures EXCEPT ![n][e[2]] =
         [p EXCEPT !.retry_count = @ + 1, !.retry_timer = TRUE]]
    /\ msg_out_retry_timers' = [msg_out_retry_timers EXCEPT ![n] =
         WithoutId(@, id) \cup {<<next, e[2]>>}]
    /\ network' = network \cup p.retry_msg
    /\ copies' = [r \in Names |->
         IF \E m \in p.retry_msg : m.of = r THEN copies[r] + 1 ELSE copies[r]]

\* A TIME_OUT of a retry timer sends a copy of a known request again, or only lets entries go.
LEMMA RetryTimeoutStep ==
  ASSUME TypeOK, NEW n \in Nodes, NEW id \in timeouts[n], RetryTimeout(n, id)
  PROVE  \/ \E e, p : SendAgain(n, id, e, p)
         \/ /\ UNCHANGED <<pending_procedures, network, copies>>
            /\ \A k \in Nodes : msg_out_retry_timers'[k] \subseteq msg_out_retry_timers[k]
<1>1. PICK e \in msg_out_retry_timers[n] : RetryTimeout(n, id)!4!(e)
  BY DEF RetryTimeout
<1>2. PICK p : p = Proc_at(n, e[2])
  OBVIOUS
<1>3. CASE Busy(n, e[2]) /\ MayRetry(p) /\ p.retry_msg # {}
  <2>1. PICK next, others :
          next = RetryId(p.trxn, p.retry_count + 1)
          /\ others = WithoutId(msg_out_retry_timers[n], id)
    OBVIOUS
  <2>2. /\ pending_procedures' = [pending_procedures EXCEPT ![n][e[2]] =
             [p EXCEPT !.retry_count = @ + 1, !.retry_timer = TRUE]]
        /\ msg_out_retry_timers' = [msg_out_retry_timers EXCEPT ![n] = others \cup {<<next, e[2]>>}]
        /\ network' = network \cup p.retry_msg
        /\ copies' = [r \in Names |->
             IF \E m \in p.retry_msg : m.of = r THEN copies[r] + 1 ELSE copies[r]]
    BY <1>1, <1>2, <1>3, <2>1
  <2>3. e[1] = id
    BY <1>1
  <2>4. SendAgain(n, id, e, p)
    BY <1>2, <1>3, <2>1, <2>2, <2>3 DEF SendAgain
  <2>5. QED
    BY <2>4
<1>4. CASE ~(Busy(n, e[2]) /\ MayRetry(p) /\ p.retry_msg # {})
  <2>1. UNCHANGED <<pending_procedures, network, copies>>
    BY <1>1, <1>2, <1>4
  <2>2. \/ msg_out_retry_timers' = msg_out_retry_timers
        \/ msg_out_retry_timers' = [msg_out_retry_timers EXCEPT ![n] = WithoutId(msg_out_retry_timers[n], id)]
    BY <1>1, <1>2, <1>4
  <2>3. \A k \in Nodes : msg_out_retry_timers'[k] \subseteq msg_out_retry_timers[k]
    BY <2>2 DEF WithoutId, TypeOK
  <2>4. QED
    BY <2>1, <2>3
<1>5. QED
  BY <1>3, <1>4

\* No request is sent for the first time.
SameAsked == \A k \in Nodes, u \in Trxns : Asked(k, u)' <=> Asked(k, u)

\* The steps that send no request of the stack's own for the first time.
OtherSteps ==
    \/ \E m \in network : Receive(m) \/ Lose(m)
    \/ \E n \in Nodes : \E w \in inProgress[n] : SendResponse(n, w)
    \/ \E n \in Nodes : \E id \in running[n] : Expire(n, id)
    \/ \E n \in Nodes : \E id \in timeouts[n] : time_out_event(n, id)
    \/ UNCHANGED vars

\* Only send_request asks, numbers and files own requests.
LEMMA OtherStepsAskNothing ==
  ASSUME TypeOK, Facts, OtherSteps
  PROVE  /\ SameAsked
         /\ UNCHANGED <<seq_num, requests>>
         /\ \A n \in Nodes : \A e \in trxn_id2seq_num'[n] :
              Asked(n, e[1]) => e \in trxn_id2seq_num[n]
<1>1. UNCHANGED <<seq_num, requests>>
  BY DEF OtherSteps, Receive, ReceiveNew, ReceiveTriggered, Discard, Lose, SendResponse, Expire,
         time_out_event, RetryTimeout, CleanupTimeout, StaleTimeout, vars, stackVars, historyVars
<1>2. copies' = copies \/ \E n \in Nodes : \E id \in timeouts[n] : RetryTimeout(n, id)
  BY DEF OtherSteps, Receive, ReceiveNew, ReceiveTriggered, Discard, Lose, SendResponse, Expire,
         time_out_event, CleanupTimeout, StaleTimeout, vars, historyVars
<1>3. ASSUME NEW n \in Nodes, NEW e, NEW p, NEW id, SendAgain(n, id, e, p)
      PROVE  \A r \in Names : copies'[r] = copies[r] \/ (copies[r] > 0 /\ copies'[r] = copies[r] + 1)
  <2>1. e[2] \in Seqs /\ ProcOK(n, e[2], p)
    BY <1>3 DEF SendAgain, TypeOK, Facts, ProcsOK
  <2>2. \A m \in p.retry_msg : copies[m.of] > 0
    BY <2>1 DEF ProcOK, IsRequest
  <2>3. QED
    BY <1>3, <2>2 DEF SendAgain, TypeOK
<1>4. \A r \in Names : copies'[r] = copies[r] \/ (copies[r] > 0 /\ copies'[r] = copies[r] + 1)
  BY <1>2, <1>3, RetryTimeoutStep
<1>5. SameAsked
  <2> SUFFICES ASSUME NEW k \in Nodes, NEW u \in Trxns
      PROVE  copies'[<<k, u>>] > 0 <=> copies[<<k, u>>] > 0
    BY DEF SameAsked, Asked
  <2>1. <<k, u>> \in Names /\ copies[<<k, u>>] \in Nat
    BY DEF Names, TypeOK
  <2>2. QED
    BY <1>4, <2>1
<1>6. ASSUME NEW n \in Nodes, NEW e \in trxn_id2seq_num'[n], Asked(n, e[1])
      PROVE  e \in trxn_id2seq_num[n]
  <2>1. CASE trxn_id2seq_num' = trxn_id2seq_num
    BY <2>1
  <2>2. ASSUME NEW m \in network, ReceiveNew(m.dst, m)
        PROVE  e \in trxn_id2seq_num[n]
    <3>1. PICK t : t = NewTrxn(m.dst)
      OBVIOUS
    <3>2. trxn_id2seq_num' = [trxn_id2seq_num EXCEPT ![m.dst] = @ \cup {<<t, m.seq>>}]
      BY <2>2, <3>1 DEF ReceiveNew
    <3>3. m.dst \in Nodes /\ ~Asked(m.dst, t)
      BY <2>2, <3>1, NewTrxnUnused, MessageType DEF ReceiveNew, TypeOK
    <3>4. QED
      BY <1>6, <3>2, <3>3 DEF TypeOK
  <2>3. ASSUME NEW k \in Nodes, NEW w \in inProgress[k], SendResponse(k, w)
        PROVE  e \in trxn_id2seq_num[n]
    BY <2>3, SendResponseStep DEF TypeOK
  <2>4. QED
    BY <2>1, <2>2, <2>3
    DEF OtherSteps, Receive, ReceiveTriggered, Discard, Lose, Expire,
        time_out_event, RetryTimeout, CleanupTimeout, StaleTimeout, vars, stackVars
<1>7. QED
  BY <1>1, <1>5, <1>6

\* Whatever a step does, a name once asked, executed or numbered stays so.
LEMMA StepKept ==
  ASSUME TypeOK, Facts, TypeOK', [Next]_vars
  PROVE  Kept
<1>1. ASSUME NEW n \in Nodes, NEW dst \in Nodes, NEW type \in Types, SendRequest(n, dst, type)
      PROVE  Kept
  <2>1. PICK s, t : s = NextSeq(n) /\ t = NewTrxn(n)
    OBVIOUS
  <2>2. /\ lastTrxn' = [lastTrxn EXCEPT ![n] = t]
        /\ copies' = [copies EXCEPT ![<<n, t>>] = 1]
        /\ trxn_id2seq_num' = [trxn_id2seq_num EXCEPT ![n] = @ \cup {<<t, s>>}]
        /\ executed' = executed
    BY <1>1, <2>1 DEF SendRequest
  <2>3. t = lastTrxn[n] + 1
    BY <2>1 DEF NewTrxn
  <2>4. ASSUME NEW k \in Nodes PROVE lastTrxn[k] <= lastTrxn'[k]
    BY <2>2, <2>3 DEF TypeOK
  <2>5. \A r \in Names : copies[r] > 0 => copies'[r] > 0
    BY <2>2 DEF TypeOK
  <2>6. QED
    BY <2>2, <2>4, <2>5 DEF Kept, TypeOK
<1>2. ASSUME OtherSteps
      PROVE  Kept
  <2>1. \A r \in Names : copies[r] > 0 => copies'[r] > 0
    BY <1>2, OtherStepsAskNothing DEF SameAsked, Asked, Names
  <2>2. ASSUME NEW k \in Nodes PROVE lastTrxn[k] <= lastTrxn'[k]
    <3>1. lastTrxn \in [Nodes -> 0..MaxTrxns] /\ lastTrxn[k] \in Nat
      BY DEF TypeOK
    <3>2. \/ lastTrxn' = lastTrxn
          \/ \E m \in network : lastTrxn' = [lastTrxn EXCEPT ![m.dst] = lastTrxn[m.dst] + 1]
      BY <1>2 DEF OtherSteps, Receive, ReceiveNew, NewTrxn, ReceiveTriggered, Discard, Lose, SendResponse,
        Expire, time_out_event, RetryTimeout, CleanupTimeout, StaleTimeout, vars, stackVars
    <3>3. ASSUME NEW n \in Nodes, lastTrxn' = [lastTrxn EXCEPT ![n] = lastTrxn[n] + 1]
          PROVE  lastTrxn[k] <= lastTrxn'[k]
      BY <3>1, <3>3
    <3>4. \A m \in network : m.dst \in Nodes
      BY MessageType DEF TypeOK
    <3>5. QED
      BY <3>1, <3>2, <3>3, <3>4
  <2>3. ASSUME NEW r \in Names, executed[r] > 0 PROVE executed'[r] > 0
    <3>1. \/ executed' = executed
          \/ \E m \in network : executed' = [executed EXCEPT ![m.of] = executed[m.of] + 1]
      BY <1>2 DEF OtherSteps, Receive, ReceiveNew, ReceiveTriggered, Discard, Lose, SendResponse,
        Expire, time_out_event, RetryTimeout, CleanupTimeout, StaleTimeout, vars, historyVars
    <3>2. executed \in [Names -> Nat]
      BY DEF TypeOK
    <3>3. ASSUME NEW q, executed' = [executed EXCEPT ![q] = executed[q] + 1]
          PROVE  executed'[r] > 0
      BY <2>3, <3>2, <3>3
    <3>4. QED
      BY <2>3, <3>1, <3>3
  <2>4. ASSUME NEW k \in Nodes, NEW e \in trxn_id2seq_num[k], Asked(k, e[1])
        PROVE  e \in trxn_id2seq_num'[k]
    <3>1. ASSUME NEW n \in Nodes, NEW w \in inProgress[n], SendResponse(n, w)
          PROVE  e \in trxn_id2seq_num'[k]
      <4>1. ~Asked(n, w.trxn)
        BY DEF Facts, WorkOK
      <4>2. PICK f : f[1] = w.trxn /\ trxn_id2seq_num' = [trxn_id2seq_num EXCEPT ![n] = @ \ {f}]
        BY <3>1, SendResponseStep
      <4>3. QED
        BY <2>4, <4>1, <4>2 DEF TypeOK
    <3>2. \/ trxn_id2seq_num' = trxn_id2seq_num
          \/ \E m \in network : trxn_id2seq_num' =
               [trxn_id2seq_num EXCEPT ![m.dst] = @ \cup {<<NewTrxn(m.dst), m.seq>>}]
          \/ \E n \in Nodes : \E w \in inProgress[n] : SendResponse(n, w)
      BY <1>2 DEF OtherSteps, Receive, ReceiveNew, ReceiveTriggered, Discard, Lose,
        Expire, time_out_event, RetryTimeout, CleanupTimeout, StaleTimeout, vars, stackVars
    <3>3. QED
      BY <2>4, <3>1, <3>2 DEF TypeOK
  <2>5. QED
    BY <2>1, <2>2, <2>3, <2>4 DEF Kept
<1>3. QED
  BY <1>1, <1>2 DEF Next, OtherSteps

\* Sending a request keeps Facts: it has a transaction and a procedure that nothing else has.
LEMMA SendRequestFacts ==
  ASSUME TypeOK, Facts, TypeOK', Kept,
         NEW n \in Nodes, NEW dst \in Nodes, NEW type \in Types, SendRequest(n, dst, type)
  PROVE  Facts'
<1>1. PICK s, t : s = NextSeq(n) /\ t = NewTrxn(n)
  OBVIOUS
<1>2. PICK m : m = [kind |-> "request", type |-> type, seq |-> s, src |-> n,
                    dst |-> dst, of |-> <<n, t>>]
  OBVIOUS
<1>3. PICK p : p = [trxn |-> t, initial |-> <<type, "request">>,
                    triggered |-> FALSE, retry_count |-> 0,
                    retry_timer |-> TRUE, retry_msg |-> {m}]
  OBVIOUS
<1>a. /\ lastTrxn' = [lastTrxn EXCEPT ![n] = t]
      /\ copies' = [copies EXCEPT ![<<n, t>>] = 1]
      /\ trxn_id2seq_num' = [trxn_id2seq_num EXCEPT ![n] = @ \cup {<<t, s>>}]
      /\ InsertProc(n, s, p)
      /\ network' = network \cup {m}
      /\ UNCHANGED <<inProgress, executed, answered>>
  BY <1>1, <1>2, <1>3 DEF SendRequest
<1>b. /\ s \in Seqs /\ t \in Trxns /\ <<n, t>> \in Names /\ t = lastTrxn[n] + 1
      /\ ~Asked(n, t) /\ answered[<<n, t>>] = 0
      /\ \A e \in trxn_id2seq_num[n] : e[1] # t
      /\ \A w \in inProgress[n] : w.trxn # t
      /\ \A q \in Seqs : Busy(n, q) => Proc_at(n, q).trxn # t
  BY <1>1, NewTrxnUnused, NextSeqType DEF SendRequest, TypeOK
<1>c. /\ m.of = <<n, t>> /\ m.seq = s /\ m \in Message
      /\ m.kind = "request" /\ m.src = n
  BY <1>b, <1>2 DEF Message, Names, Kinds
<1>4. /\ \A k \in Nodes, u \in Trxns : Asked(k, u)' <=> Asked(k, u) \/ (k = n /\ u = t)
      /\ \A k \in Nodes : lastTrxn'[k] = IF k = n THEN t ELSE lastTrxn[k]
      /\ \A k \in Nodes : trxn_id2seq_num'[k] =
           IF k = n THEN trxn_id2seq_num[n] \cup {<<t, s>>} ELSE trxn_id2seq_num[k]
  <2>1. \A k \in Nodes, u \in Trxns : Asked(k, u)' <=> Asked(k, u) \/ (k = n /\ u = t)
    BY <1>b, <1>a DEF TypeOK, Asked, Names
  <2>2. QED
    BY <1>a, <2>1 DEF TypeOK
<1>0. /\ \A k \in Nodes : lastTrxn[k] \in Nat /\ lastTrxn'[k] \in Nat
      /\ \A u \in Trxns : u \in Nat
  BY DEF TypeOK, Trxns
<1>6. IsRequest(m)'
  <2>1. copies'[<<n, t>>] > 0 /\ <<t, s>> \in trxn_id2seq_num'[n]
    BY <1>b, <1>a, <1>4 DEF TypeOK
  <2>2. QED
    BY <1>c, <2>1 DEF IsRequest
<1>7. Numbered'
  <2> SUFFICES ASSUME NEW k \in Nodes
      PROVE  /\ \A e \in trxn_id2seq_num'[k] : e[1] <= lastTrxn'[k]
             /\ \A e, f \in trxn_id2seq_num'[k] : e[1] = f[1] => e = f
             /\ \A u \in Trxns : Asked(k, u)' => u <= lastTrxn'[k]
             /\ \A u \in Trxns : ~Asked(k, u)' => answered'[<<k, u>>] = 0
    BY DEF Numbered
  <2>1. ASSUME NEW e \in trxn_id2seq_num'[k] PROVE e[1] <= lastTrxn'[k]
    <3>1. CASE e \in trxn_id2seq_num[k]
      <4>1. e[1] \in Nat /\ e[1] <= lastTrxn[k]
        BY <3>1 DEF Facts, Numbered, TypeOK, Trxns
      <4>2. QED
        BY <1>0, <4>1 DEF Kept
    <3>2. CASE k = n /\ e = <<t, s>>
      BY <1>0, <1>b, <1>4, <3>2
    <3>3. QED
      BY <1>4, <3>1, <3>2
  <2>2. \A e, f \in trxn_id2seq_num'[k] : e[1] = f[1] => e = f
    BY <1>b, <1>4 DEF Facts, Numbered
  <2>3. ASSUME NEW u \in Trxns, Asked(k, u)' PROVE u <= lastTrxn'[k]
    <3>1. CASE Asked(k, u)
      <4>1. u <= lastTrxn[k]
        BY <3>1 DEF Facts, Numbered
      <4>2. QED
        BY <1>0, <4>1 DEF Kept
    <3>2. CASE k = n /\ u = t
      BY <1>0, <1>b, <1>4, <3>2
    <3>3. QED
      BY <1>4, <2>3, <3>1, <3>2
  <2>4. \A u \in Trxns : ~Asked(k, u)' => answered'[<<k, u>>] = 0
    BY <1>a, <1>4 DEF Facts, Numbered
  <2>5. QED
    BY <2>1, <2>2, <2>3, <2>4
<1>8. MailOK'
  <2> SUFFICES ASSUME NEW x \in network' PROVE IsRequest(x)' \/ IsResponse(x)'
    BY DEF MailOK
  <2>1. CASE x \in network
    BY <2>1, MessageKept DEF Facts, MailOK, TypeOK
  <2>2. IsRequest(m)'
    BY <1>6
  <2>3. QED
    BY <1>a, <2>1, <2>2 DEF IsRequest
<1>9. WorkOK'
  <2> SUFFICES ASSUME NEW k \in Nodes, NEW w \in inProgress[k]
      PROVE  /\ w.trxn <= lastTrxn'[k] /\ ~Asked(k, w.trxn)'
             /\ IsRequest(w.msg)' /\ executed'[w.msg.of] > 0
             /\ <<w.trxn, w.msg.seq>> \in trxn_id2seq_num'[k]
    BY <1>a DEF WorkOK, Facts
  <2>1. /\ w.trxn \in Trxns /\ w.msg \in Message
        /\ w.trxn <= lastTrxn[k] /\ ~Asked(k, w.trxn)
        /\ IsRequest(w.msg) /\ executed[w.msg.of] > 0
        /\ <<w.trxn, w.msg.seq>> \in trxn_id2seq_num[k]
    BY DEF TypeOK, Facts, WorkOK
  <2>2. IsRequest(w.msg)'
    BY <2>1, MessageKept
  <2>3. ~Asked(k, w.trxn)' /\ w.trxn <= lastTrxn'[k]
    <3>1. ~(k = n /\ w.trxn = t)
      BY <1>b
    <3>2. ~Asked(k, w.trxn)'
      BY <1>4, <2>1, <3>1
    <3>3. w.trxn <= lastTrxn'[k]
      BY <1>0, <2>1 DEF Kept
    <3>4. QED
      BY <3>2, <3>3
  <2>4. QED
    BY <1>a, <1>4, <2>1, <2>2, <2>3
<1>10. ProcsOK'
  <2> SUFFICES ASSUME NEW k \in Nodes, NEW q \in Seqs, Busy(k, q)'
      PROVE  ProcOK(k, q, Proc_at(k, q))'
    BY DEF ProcsOK
  <2>1. CASE Busy(k, q)
    <3>0. PICK o : o = Proc_at(k, q)
      OBVIOUS
    <3>1. Proc_at(k, q)' = o /\ o \in Proc /\ ProcOK(k, q, o)
      BY <1>b, <1>a, <2>1, <3>0 DEF InsertProc, Proc_at, Busy, TypeOK, Facts, ProcsOK
    <3>2. o.trxn \in Trxns /\ o.trxn <= lastTrxn[k] /\ (k = n => o.trxn # t)
      BY <1>b, <2>1, <3>0, <3>1, ProcType DEF ProcOK
    <3>3. o.trxn <= lastTrxn'[k] /\ (Asked(k, o.trxn)' <=> Asked(k, o.trxn))
      BY <1>0, <1>b, <1>4, <3>2
    <3>4. \A x \in o.retry_msg : IsRequest(x)'
      BY <3>1, ProcType, MessageKept DEF ProcOK
    <3>5. o.retry_msg # {} => <<o.trxn, q>> \in trxn_id2seq_num'[k]
      BY <1>4, <3>1 DEF ProcOK
    <3>6. QED
      BY <1>a, <3>1, <3>3, <3>4, <3>5 DEF ProcOK, IsRequest, Asked
  <2>2. CASE ~Busy(k, q)
    <3>1. k = n /\ q = s /\ Proc_at(k, q)' = p
      BY <1>b, <1>a, <2>2 DEF InsertProc, Proc_at, Busy, TypeOK
    <3>2. Asked(n, t)' /\ <<t, s>> \in trxn_id2seq_num'[n] /\ t <= lastTrxn'[n] /\ answered'[<<n, t>>] = 0
      BY <1>0, <1>b, <1>a, <1>4
    <3>3. p.trxn = t /\ p.retry_msg = {m} /\ p.triggered = FALSE
      BY <1>3
    <3>4. QED
      BY <1>c, <1>6, <3>1, <3>2, <3>3 DEF ProcOK, IsRequest, Asked
  <2>3. QED
    BY <2>1, <2>2
<1>11. QED
  BY <1>7, <1>8, <1>9, <1>10 DEF Facts

\* Work goes on as it was when its entry stays.
LEMMA WorkKept ==
  ASSUME TypeOK, Facts, TypeOK', Kept, SameAsked, NEW k \in Nodes, NEW w \in inProgress[k],
         <<w.trxn, w.msg.seq>> \in trxn_id2seq_num'[k]
  PROVE  /\ w.trxn <= lastTrxn'[k] /\ ~Asked(k, w.trxn)'
         /\ IsRequest(w.msg)' /\ executed'[w.msg.of] > 0
         /\ <<w.trxn, w.msg.seq>> \in trxn_id2seq_num'[k]
<1>1. /\ w.trxn \in Trxns /\ w.msg \in Message /\ w.msg.of \in Names
      /\ w.trxn <= lastTrxn[k] /\ ~Asked(k, w.trxn)
      /\ IsRequest(w.msg) /\ executed[w.msg.of] > 0
  BY MessageType DEF TypeOK, Facts, WorkOK
<1>2. lastTrxn[k] \in Nat /\ lastTrxn'[k] \in Nat /\ w.trxn \in Nat /\ lastTrxn[k] <= lastTrxn'[k]
  BY <1>1 DEF TypeOK, Trxns, Kept
<1>3. IsRequest(w.msg)'
  BY <1>1, MessageKept
<1>4. executed'[w.msg.of] > 0
  BY <1>1 DEF Kept
<1>5. QED
  BY <1>1, <1>2, <1>3, <1>4 DEF SameAsked

\* A procedure whose response is still awaited, or is accepted in the step, stays in
\* order when nothing is handed up for another one.
LEMMA ProcKept ==
  ASSUME TypeOK, Facts, TypeOK', Kept, SameAsked, NEW k \in Nodes, NEW q \in Seqs, Busy(k, q),
         NEW o, o = Proc_at(k, q),
         NEW p, p = Proc_at(k, q)', p.trxn = o.trxn, p.retry_msg = o.retry_msg,
         o.retry_msg # {} /\ ~p.triggered =>
           ~o.triggered /\ answered'[<<k, o.trxn>>] = answered[<<k, o.trxn>>]
  PROVE  ProcOK(k, q, Proc_at(k, q))'
<1>1. o \in Proc /\ ProcOK(k, q, o)
  BY DEF Busy, TypeOK, Facts, ProcsOK, Proc_at
<1>2. o.trxn \in Trxns /\ o.retry_msg \subseteq Message
  BY <1>1, ProcType
<1>3. /\ lastTrxn[k] \in Nat /\ lastTrxn'[k] \in Nat /\ o.trxn \in Nat
      /\ lastTrxn[k] <= lastTrxn'[k] /\ o.trxn <= lastTrxn[k]
  BY <1>1, <1>2 DEF TypeOK, Trxns, Kept, ProcOK
<1>4. Asked(k, o.trxn)' <=> Asked(k, o.trxn)
  BY <1>2 DEF SameAsked
<1>5. \A x \in o.retry_msg : IsRequest(x)'
  BY <1>1, <1>2, MessageKept DEF ProcOK
<1>6. o.retry_msg # {} => <<o.trxn, q>> \in trxn_id2seq_num'[k]
  BY <1>1 DEF ProcOK, Kept
<1>7. o.retry_msg # {} => Asked(k, o.trxn)' /\ (~p.triggered => answered'[<<k, o.trxn>>] = 0)
  BY <1>1, <1>4 DEF ProcOK
<1>8. /\ p.trxn <= lastTrxn'[k]
      /\ p.retry_msg # {} <=> copies'[<<k, p.trxn>>] > 0
      /\ p.retry_msg # {} =>
           /\ <<p.trxn, q>> \in trxn_id2seq_num'[k]
           /\ ~p.triggered => answered'[<<k, p.trxn>>] = 0
      /\ \A x \in p.retry_msg : x.of = <<k, p.trxn>> /\ x.seq = q /\ IsRequest(x)'
  BY <1>1, <1>3, <1>4, <1>5, <1>6, <1>7 DEF ProcOK, Asked
<1>9. QED
  BY <1>8 DEF ProcOK, Asked, IsRequest

\* Steps that leave the numbers, the work and what was handed up alone.
LEMMA QuietFacts ==
  ASSUME TypeOK, Facts, TypeOK', Kept, SameAsked,
         UNCHANGED <<trxn_id2seq_num, lastTrxn, copies, executed, answered>>,
         inProgress' = inProgress, network' \subseteq network,
         \A k \in Nodes, q \in Seqs :
           Proc_at(k, q)' = Proc_at(k, q) \/ Proc_at(k, q)' = NoProc
  PROVE  Facts'
<1>3. Numbered'
  BY DEF Facts, Numbered, Asked
<1>4. MailOK'
  <2> SUFFICES ASSUME NEW m \in network' PROVE IsRequest(m)' \/ IsResponse(m)'
    BY DEF MailOK
  <2>1. m \in Message /\ (IsRequest(m) \/ IsResponse(m))
    BY DEF Facts, MailOK, TypeOK
  <2>2. QED
    BY <2>1, MessageKept
<1>5. WorkOK'
  <2>1. ASSUME NEW k \in Nodes, NEW w \in inProgress[k]
        PROVE  /\ w.trxn <= lastTrxn'[k] /\ ~Asked(k, w.trxn)'
               /\ IsRequest(w.msg)' /\ executed'[w.msg.of] > 0
               /\ <<w.trxn, w.msg.seq>> \in trxn_id2seq_num'[k]
    <3>1. <<w.trxn, w.msg.seq>> \in trxn_id2seq_num'[k]
      BY DEF Facts, WorkOK
    <3>2. QED
      BY <3>1, WorkKept
  <2>2. \A k \in Nodes : \A v, w \in inProgress'[k] : v.trxn = w.trxn => v = w
    BY DEF Facts, WorkOK
  <2>3. QED
    BY <2>1, <2>2 DEF WorkOK
<1>6. ProcsOK'
  <2> SUFFICES ASSUME NEW k \in Nodes, NEW q \in Seqs, Busy(k, q)'
      PROVE  ProcOK(k, q, Proc_at(k, q))'
    BY DEF ProcsOK
  <2>1. Busy(k, q) /\ Proc_at(k, q)' = Proc_at(k, q)
    BY DEF Busy
  <2>2. PICK o : o = Proc_at(k, q)
    OBVIOUS
  <2>3. QED
    BY <2>1, <2>2, ProcKept
<1>7. QED
  BY <1>3, <1>4, <1>5, <1>6 DEF Facts

\* Accepting what came as a request keeps Facts.
LEMMA ReceiveNewFacts ==
  ASSUME TypeOK, Facts, TypeOK', Kept, SameAsked,
         NEW m \in network, ReceiveNew(m.dst, m), network' \subseteq network
  PROVE  Facts'
<1>1. PICK n, t : n = m.dst /\ t = NewTrxn(n)
  OBVIOUS
<1>2. PICK p : p = [trxn |-> t, initial |-> <<m.type, m.kind>>,
                    triggered |-> FALSE, retry_count |-> 0,
                    retry_timer |-> FALSE, retry_msg |-> {}]
  OBVIOUS
<1>3. /\ m \in Message /\ n \in Nodes /\ m.seq \in Seqs /\ m.of \in Names
      /\ m.of[1] \in Nodes /\ m.of[2] \in Trxns /\ m.of = <<m.of[1], m.of[2]>>
      /\ IsRequest(m) \/ IsResponse(m)
  BY <1>1, MessageType DEF TypeOK, Facts, MailOK
<1>4. /\ ~Busy(n, m.seq)
      /\ lastTrxn' = [lastTrxn EXCEPT ![n] = t]
      /\ trxn_id2seq_num' = [trxn_id2seq_num EXCEPT ![n] = @ \cup {<<t, m.seq>>}]
      /\ InsertProc(n, m.seq, p)
      /\ m.kind = "request" => /\ inProgress' = [inProgress EXCEPT ![n] = @ \cup {[trxn |-> t, msg |-> m]}]
                               /\ executed' = [executed EXCEPT ![m.of] = @ + 1]
                               /\ answered' = answered
      /\ m.kind # "request" => /\ answered' = [answered EXCEPT ![m.of] = @ + 1]
                               /\ inProgress' = inProgress /\ executed' = executed
      /\ copies' = copies
  BY <1>1, <1>2 DEF ReceiveNew
<1>5. /\ t \in Trxns /\ <<n, t>> \in Names /\ t = lastTrxn[n] + 1
      /\ ~Asked(n, t)
      /\ \A e \in trxn_id2seq_num[n] : e[1] # t
      /\ \A w \in inProgress[n] : w.trxn # t
  BY <1>1, <1>3, NewTrxnUnused DEF ReceiveNew
<1>6. /\ \A k \in Nodes : lastTrxn'[k] = IF k = n THEN t ELSE lastTrxn[k]
      /\ \A k \in Nodes : trxn_id2seq_num'[k] =
           IF k = n THEN trxn_id2seq_num[n] \cup {<<t, m.seq>>} ELSE trxn_id2seq_num[k]
      /\ \A k \in Nodes : lastTrxn[k] \in Nat /\ lastTrxn'[k] \in Nat
      /\ \A u \in Trxns : u \in Nat
      /\ \A r \in Names : executed[r] \in Nat /\ answered[r] \in Nat
      /\ \A r \in Names : executed'[r] = IF m.kind = "request" /\ r = m.of THEN executed[r] + 1 ELSE executed[r]
      /\ \A r \in Names : answered'[r] = IF m.kind # "request" /\ r = m.of THEN answered[r] + 1 ELSE answered[r]
  BY <1>3, <1>4 DEF TypeOK, Trxns
<1>9. Numbered'
  <2> SUFFICES ASSUME NEW k \in Nodes
      PROVE  /\ \A e \in trxn_id2seq_num'[k] : e[1] <= lastTrxn'[k]
             /\ \A e, f \in trxn_id2seq_num'[k] : e[1] = f[1] => e = f
             /\ \A u \in Trxns : Asked(k, u)' => u <= lastTrxn'[k]
             /\ \A u \in Trxns : ~Asked(k, u)' => answered'[<<k, u>>] = 0
    BY DEF Numbered
  <2>1. ASSUME NEW e \in trxn_id2seq_num'[k] PROVE e[1] <= lastTrxn'[k]
    <3>1. CASE e \in trxn_id2seq_num[k]
      <4>1. e[1] \in Nat /\ e[1] <= lastTrxn[k]
        BY <3>1 DEF Facts, Numbered, TypeOK, Trxns
      <4>2. QED
        BY <1>6, <4>1 DEF Kept
    <3>2. CASE k = n /\ e = <<t, m.seq>>
      BY <1>5, <1>6, <3>2
    <3>3. QED
      BY <1>6, <3>1, <3>2
  <2>2. \A e, f \in trxn_id2seq_num'[k] : e[1] = f[1] => e = f
    BY <1>5, <1>6 DEF Facts, Numbered
  <2>3. ASSUME NEW u \in Trxns, Asked(k, u)' PROVE u <= lastTrxn'[k]
    <3>1. Asked(k, u) /\ u <= lastTrxn[k]
      BY <2>3 DEF Facts, Numbered, SameAsked
    <3>2. QED
      BY <1>6, <3>1 DEF Kept
  <2>4. ASSUME NEW u \in Trxns, ~Asked(k, u)' PROVE answered'[<<k, u>>] = 0
    <3>1. ~Asked(k, u) /\ answered[<<k, u>>] = 0 /\ <<k, u>> \in Names
      BY <2>4 DEF Facts, Numbered, SameAsked, Names
    <3>2. <<k, u>> # m.of
      BY <1>3, <3>1 DEF IsRequest, IsResponse, Asked
    <3>3. QED
      BY <1>6, <3>1, <3>2
  <2>5. QED
    BY <2>1, <2>2, <2>3, <2>4
<1>10. MailOK'
  <2> SUFFICES ASSUME NEW x \in network' PROVE IsRequest(x)' \/ IsResponse(x)'
    BY DEF MailOK
  <2>1. x \in Message /\ (IsRequest(x) \/ IsResponse(x))
    BY DEF Facts, MailOK, TypeOK
  <2>2. QED
    BY <2>1, MessageKept
<1>11. WorkOK'
  <2>1. ASSUME NEW k \in Nodes, NEW w \in inProgress'[k], w \notin inProgress[k]
        PROVE  k = n /\ w = [trxn |-> t, msg |-> m] /\ m.kind = "request"
    BY <1>4, <2>1 DEF TypeOK
  <2>2. ASSUME NEW k \in Nodes, NEW w \in inProgress'[k]
        PROVE  /\ w.trxn <= lastTrxn'[k] /\ ~Asked(k, w.trxn)'
               /\ IsRequest(w.msg)' /\ executed'[w.msg.of] > 0
               /\ <<w.trxn, w.msg.seq>> \in trxn_id2seq_num'[k]
    <3>1. CASE w \in inProgress[k]
      <4>1. <<w.trxn, w.msg.seq>> \in trxn_id2seq_num'[k]
        BY <1>6, <3>1 DEF Facts, WorkOK
      <4>2. QED
        BY <3>1, <4>1, WorkKept
    <3>2. CASE k = n /\ w = [trxn |-> t, msg |-> m] /\ m.kind = "request"
      <4>1. IsRequest(m)'
        BY <1>3, <3>2, MessageKept DEF IsResponse
      <4>2. ~Asked(n, t)' /\ t <= lastTrxn'[n] /\ <<t, m.seq>> \in trxn_id2seq_num'[n]
        BY <1>3, <1>5, <1>6 DEF SameAsked
      <4>3. executed'[m.of] > 0
        BY <1>3, <1>6, <3>2
      <4>4. w.trxn = t /\ w.msg = m
        BY <3>2
      <4>5. QED
        BY <3>2, <4>1, <4>2, <4>3, <4>4
    <3>3. QED
      BY <2>1, <3>1, <3>2
  <2>3. ASSUME NEW k \in Nodes, NEW v \in inProgress'[k], NEW w \in inProgress'[k], v.trxn = w.trxn
        PROVE  v = w
    BY <1>5, <2>1, <2>3 DEF Facts, WorkOK
  <2>4. QED
    BY <2>2, <2>3 DEF WorkOK
<1>12. ProcsOK'
  <2> SUFFICES ASSUME NEW k \in Nodes, NEW q \in Seqs, Busy(k, q)'
      PROVE  ProcOK(k, q, Proc_at(k, q))'
    BY DEF ProcsOK
  <2>1. CASE Busy(k, q)
    <3>1. PICK o : o = Proc_at(k, q)
      OBVIOUS
    <3>2. Proc_at(k, q)' = o /\ ~(k = n /\ q = m.seq)
      BY <1>3, <1>4, <2>1, <3>1 DEF InsertProc, Proc_at, Busy, TypeOK
    <3>3. o \in Proc /\ ProcOK(k, q, o) /\ o.trxn \in Trxns
      BY <2>1, <3>1, ProcType DEF Busy, TypeOK, Facts, ProcsOK, Proc_at
    <3>4. o.retry_msg # {} => answered'[<<k, o.trxn>>] = answered[<<k, o.trxn>>]
      <4> SUFFICES ASSUME o.retry_msg # {}, m.kind # "request", <<k, o.trxn>> = m.of PROVE FALSE
        BY <1>6, <3>3 DEF Names
      <4>1. IsResponse(m)
        BY <1>3 DEF IsRequest
      <4>2. k = n /\ <<o.trxn, m.seq>> \in trxn_id2seq_num[n] /\ <<o.trxn, q>> \in trxn_id2seq_num[n]
        BY <1>1, <3>3, <4>1 DEF IsResponse, ProcOK
      <4>3. QED
        BY <1>3, <3>2, <4>2 DEF Facts, Numbered
    <3>5. o.retry_msg # {} /\ ~o.triggered =>
            ~o.triggered /\ answered'[<<k, o.trxn>>] = answered[<<k, o.trxn>>]
      BY <3>4
    <3>6. QED
      BY <2>1, <3>1, <3>2, <3>5, ProcKept
  <2>2. CASE ~Busy(k, q)
    <3>1. k = n /\ q = m.seq /\ Proc_at(k, q)' = p
      BY <1>3, <1>4, <2>2 DEF InsertProc, Proc_at, Busy, TypeOK
    <3>2. p.trxn = t /\ p.retry_msg = {} /\ ~Asked(n, t)' /\ t <= lastTrxn'[n]
      BY <1>2, <1>3, <1>5, <1>6 DEF SameAsked
    <3>3. QED
      BY <3>1, <3>2 DEF ProcOK, Asked
  <2>3. QED
    BY <2>1, <2>2
<1>13. QED
  BY <1>9, <1>10, <1>11, <1>12 DEF Facts

\* Taking a response for an open procedure keeps Facts.
LEMMA ReceiveTriggeredFacts ==
  ASSUME TypeOK, Facts, TypeOK', Kept, SameAsked,
         NEW m \in network, ReceiveTriggered(m.dst, m),
         network' \subseteq network
  PROVE  Facts'
<1>1. PICK n, p : n = m.dst /\ p = Proc_at(n, m.seq)
  OBVIOUS
<1>2. /\ m \in Message /\ n \in Nodes /\ m.seq \in Seqs /\ m.of \in Names
      /\ m.of[1] \in Nodes /\ m.of[2] \in Trxns /\ m.of = <<m.of[1], m.of[2]>>
      /\ IsRequest(m) \/ IsResponse(m)
  BY <1>1, MessageType DEF TypeOK, Facts, MailOK
<1>3. PICK o : o = [p EXCEPT !.triggered = TRUE, !.retry_timer = FALSE]
  OBVIOUS
<1>4. /\ Busy(n, m.seq) /\ ~p.triggered /\ m.kind = "response"
      /\ pending_procedures' = [pending_procedures EXCEPT ![n][m.seq] = o]
      /\ answered' = IF p.trxn = m.of[2] /\ m.of[1] = n
                     THEN [answered EXCEPT ![m.of] = @ + 1] ELSE answered
      /\ UNCHANGED <<trxn_id2seq_num, lastTrxn, inProgress, copies, executed>>
  BY <1>1, <1>3 DEF ReceiveTriggered, check_response_type
<1>5. p \in Proc /\ ProcOK(n, m.seq, p) /\ p.trxn \in Trxns
  BY <1>1, <1>2, <1>4, ProcType DEF Busy, TypeOK, Facts, ProcsOK, Proc_at
<1>6. o.trxn = p.trxn /\ o.retry_msg = p.retry_msg /\ o.triggered = TRUE
  BY <1>3, <1>5 DEF Proc
<1>7. IsResponse(m)
  BY <1>2, <1>4 DEF IsRequest
<1>10. \A r \in Names : r # m.of => answered'[r] = answered[r]
  BY <1>4 DEF TypeOK
<1>11. Numbered'
  <2>1. ASSUME NEW k \in Nodes, NEW u \in Trxns, ~Asked(k, u)' PROVE answered'[<<k, u>>] = 0
    <3>1. ~Asked(k, u) /\ answered[<<k, u>>] = 0 /\ <<k, u>> \in Names
      BY <2>1 DEF Facts, Numbered, SameAsked, Names
    <3>2. <<k, u>> # m.of
      BY <1>2, <3>1 DEF IsRequest, IsResponse, Asked
    <3>3. QED
      BY <1>10, <3>1, <3>2
  <2>2. ASSUME NEW k \in Nodes, NEW u \in Trxns, Asked(k, u)' PROVE u <= lastTrxn'[k]
    BY <1>4, <2>2 DEF Facts, Numbered, SameAsked
  <2>3. QED
    BY <1>4, <2>1, <2>2 DEF Numbered, Facts
<1>12. MailOK'
  <2> SUFFICES ASSUME NEW x \in network' PROVE IsRequest(x)' \/ IsResponse(x)'
    BY DEF MailOK
  <2>1. x \in Message /\ (IsRequest(x) \/ IsResponse(x))
    BY DEF Facts, MailOK, TypeOK
  <2>2. QED
    BY <2>1, MessageKept
<1>13. WorkOK'
  <2>1. ASSUME NEW k \in Nodes, NEW w \in inProgress[k]
        PROVE  /\ w.trxn <= lastTrxn'[k] /\ ~Asked(k, w.trxn)'
               /\ IsRequest(w.msg)' /\ executed'[w.msg.of] > 0
               /\ <<w.trxn, w.msg.seq>> \in trxn_id2seq_num'[k]
    <3>1. <<w.trxn, w.msg.seq>> \in trxn_id2seq_num'[k]
      BY <1>4 DEF Facts, WorkOK
    <3>2. QED
      BY <3>1, WorkKept
  <2>2. \A k \in Nodes : \A v, w \in inProgress'[k] : v.trxn = w.trxn => v = w
    BY <1>4 DEF Facts, WorkOK
  <2>3. QED
    BY <1>4, <2>1, <2>2 DEF WorkOK
<1>14. ProcsOK'
  <2> SUFFICES ASSUME NEW k \in Nodes, NEW q \in Seqs, Busy(k, q)'
      PROVE  ProcOK(k, q, Proc_at(k, q))'
    BY DEF ProcsOK
  <2>1. CASE k = n /\ q = m.seq
    <3>1. Proc_at(k, q)' = o
      BY <1>2, <1>4, <2>1 DEF Proc_at, TypeOK
    <3>2. QED
      BY <1>1, <1>4, <1>6, <2>1, <3>1, ProcKept
  <2>2. CASE ~(k = n /\ q = m.seq)
    <3>1. PICK x : x = Proc_at(k, q)
      OBVIOUS
    <3>2. Proc_at(k, q)' = x /\ Busy(k, q)
      BY <1>2, <1>4, <2>2, <3>1 DEF Proc_at, Busy, TypeOK
    <3>3. x \in Proc /\ ProcOK(k, q, x) /\ x.trxn \in Trxns
      BY <3>1, <3>2, ProcType DEF Busy, TypeOK, Facts, ProcsOK, Proc_at
    <3>4. x.retry_msg # {} => answered'[<<k, x.trxn>>] = answered[<<k, x.trxn>>]
      <4> SUFFICES ASSUME x.retry_msg # {}, <<k, x.trxn>> = m.of PROVE FALSE
        BY <1>10, <3>3 DEF Names
      <4>1. k = n /\ <<x.trxn, m.seq>> \in trxn_id2seq_num[n] /\ <<x.trxn, q>> \in trxn_id2seq_num[n]
        BY <1>1, <1>7, <3>3 DEF IsResponse, ProcOK
      <4>2. QED
        BY <1>2, <2>2, <4>1 DEF Facts, Numbered
    <3>5. x.retry_msg # {} /\ ~x.triggered =>
            ~x.triggered /\ answered'[<<k, x.trxn>>] = answered[<<k, x.trxn>>]
      BY <3>4
    <3>6. QED
      BY <3>1, <3>2, <3>5, ProcKept
  <2>3. QED
    BY <2>1, <2>2
<1>15. QED
  BY <1>11, <1>12, <1>13, <1>14 DEF Facts

\* Sending the response to what is being worked on keeps Facts.
LEMMA SendResponseFacts ==
  ASSUME TypeOK, Facts, TypeOK', Kept, SameAsked,
         NEW n \in Nodes, NEW w \in inProgress[n], SendResponse(n, w)
  PROVE  Facts'
<1>1. PICK e, m :
        /\ e = <<w.trxn, w.msg.seq>>
        /\ m \in Message /\ w.msg \in Message /\ w.trxn \in Trxns /\ w.msg.seq \in Seqs
        /\ m.kind = "response" /\ m.of = w.msg.of /\ m.seq = w.msg.seq /\ m.dst = w.msg.of[1]
        /\ network' = network \cup {m}
        /\ trxn_id2seq_num' = [trxn_id2seq_num EXCEPT ![n] = @ \ {e}]
        /\ EraseProc(n, w.msg.seq)
        /\ inProgress' = [inProgress EXCEPT ![n] = @ \ {w}]
        /\ UNCHANGED <<seq_num, lastTrxn, historyVars, timeouts>>
  BY SendResponseStep
<1>2. UNCHANGED <<lastTrxn, copies, executed, answered>>
  BY <1>1 DEF historyVars
<1>3. /\ ~Asked(n, w.trxn) /\ IsRequest(w.msg) /\ executed[w.msg.of] > 0
      /\ \A v \in inProgress[n] : v.trxn = w.trxn => v = w
  BY DEF Facts, WorkOK
<1>4. /\ \A k \in Nodes : \A f \in trxn_id2seq_num[k] : f \in trxn_id2seq_num'[k] \/ (k = n /\ f = e)
      /\ \A k \in Nodes : \A f \in trxn_id2seq_num'[k] : f \in trxn_id2seq_num[k]
      /\ \A k \in Nodes : \A v \in inProgress'[k] : v \in inProgress[k] /\ ~(k = n /\ v = w)
  BY <1>1 DEF TypeOK
<1>7. Numbered'
  BY <1>2, <1>4 DEF Facts, Numbered, Asked
<1>8. MailOK'
  <2> SUFFICES ASSUME NEW x \in network' PROVE IsRequest(x)' \/ IsResponse(x)'
    BY DEF MailOK
  <2>1. CASE x \in network
    <3>1. x \in Message /\ (IsRequest(x) \/ IsResponse(x))
      BY <2>1 DEF Facts, MailOK, TypeOK
    <3>2. QED
      BY <3>1, MessageKept
  <2>2. CASE x = m
    <3>1. IsResponse(m)
      BY <1>1, <1>3 DEF IsRequest, IsResponse
    <3>2. QED
      BY <1>1, <2>2, <3>1, MessageKept
  <2>3. QED
    BY <1>1, <2>1, <2>2
<1>9. WorkOK'
  <2>1. ASSUME NEW k \in Nodes, NEW v \in inProgress'[k]
        PROVE  /\ v.trxn <= lastTrxn'[k] /\ ~Asked(k, v.trxn)'
               /\ IsRequest(v.msg)' /\ executed'[v.msg.of] > 0
               /\ <<v.trxn, v.msg.seq>> \in trxn_id2seq_num'[k]
    <3>1. v \in inProgress[k] /\ <<v.trxn, v.msg.seq>> \in trxn_id2seq_num[k]
      BY <1>4 DEF Facts, WorkOK
    <3>2. <<v.trxn, v.msg.seq>> \in trxn_id2seq_num'[k]
      BY <1>1, <1>3, <1>4, <3>1
    <3>3. QED
      BY <3>1, <3>2, WorkKept
  <2>2. \A k \in Nodes : \A u, v \in inProgress'[k] : u.trxn = v.trxn => u = v
    BY <1>4 DEF Facts, WorkOK
  <2>3. QED
    BY <2>1, <2>2 DEF WorkOK
<1>10. ProcsOK'
  <2> SUFFICES ASSUME NEW k \in Nodes, NEW q \in Seqs, Busy(k, q)'
      PROVE  ProcOK(k, q, Proc_at(k, q))'
    BY DEF ProcsOK
  <2>1. PICK o : o = Proc_at(k, q)
    OBVIOUS
  <2>2. Proc_at(k, q)' = o /\ Busy(k, q)
    BY <1>1, <2>1 DEF EraseProc, Proc_at, Busy, TypeOK
  <2>3. QED
    BY <1>2, <2>1, <2>2, ProcKept
<1>11. QED
  BY <1>7, <1>8, <1>9, <1>10 DEF Facts

\* A TIME_OUT of a retry timer keeps Facts.
LEMMA RetryTimeoutFacts ==
  ASSUME TypeOK, Facts, TypeOK', Kept, SameAsked,
         NEW n \in Nodes, NEW id \in timeouts[n], RetryTimeout(n, id)
  PROVE  Facts'
<1>1. UNCHANGED <<trxn_id2seq_num, lastTrxn, inProgress, executed, answered>>
  BY DEF RetryTimeout
<1>2. CASE UNCHANGED <<pending_procedures, network, copies>>
  BY <1>1, <1>2, QuietFacts DEF Proc_at
<1>3. ASSUME NEW e, NEW p, SendAgain(n, id, e, p)
      PROVE  Facts'
  <2>1. e[2] \in Seqs /\ p \in Proc /\ ProcOK(n, e[2], p) /\ p.retry_msg \subseteq Message
    BY <1>3, ProcType DEF SendAgain, Busy, Proc_at, TypeOK, Facts, ProcsOK
  <2>2. PICK o : o = [p EXCEPT !.retry_count = @ + 1, !.retry_timer = TRUE]
    OBVIOUS
  <2>3. o.trxn = p.trxn /\ o.retry_msg = p.retry_msg /\ o.triggered = p.triggered
    BY <2>1, <2>2 DEF Proc
  <2>7. Numbered'
    BY <1>1 DEF Facts, Numbered, SameAsked
  <2>8. MailOK'
    <3> SUFFICES ASSUME NEW x \in network' PROVE IsRequest(x)' \/ IsResponse(x)'
      BY DEF MailOK
    <3>1. CASE x \in network
      <4>1. x \in Message /\ (IsRequest(x) \/ IsResponse(x))
        BY <3>1 DEF Facts, MailOK, TypeOK
      <4>2. QED
        BY <4>1, MessageKept
    <3>2. CASE x \in p.retry_msg
      <4>1. x \in Message /\ IsRequest(x)
        BY <2>1, <3>2 DEF ProcOK
      <4>2. QED
        BY <4>1, MessageKept
    <3>3. QED
      BY <1>3, <3>1, <3>2 DEF SendAgain
  <2>9. WorkOK'
    <3>1. ASSUME NEW k \in Nodes, NEW w \in inProgress[k]
          PROVE  /\ w.trxn <= lastTrxn'[k] /\ ~Asked(k, w.trxn)'
                 /\ IsRequest(w.msg)' /\ executed'[w.msg.of] > 0
                 /\ <<w.trxn, w.msg.seq>> \in trxn_id2seq_num'[k]
      <4>1. <<w.trxn, w.msg.seq>> \in trxn_id2seq_num'[k]
        BY <1>1 DEF Facts, WorkOK
      <4>2. QED
        BY <4>1, WorkKept
    <3>2. \A k \in Nodes : \A v, w \in inProgress'[k] : v.trxn = w.trxn => v = w
      BY <1>1 DEF Facts, WorkOK
    <3>3. QED
      BY <1>1, <3>1, <3>2 DEF WorkOK
  <2>10. ProcsOK'
    <3> SUFFICES ASSUME NEW k \in Nodes, NEW q \in Seqs, Busy(k, q)'
        PROVE  ProcOK(k, q, Proc_at(k, q))'
      BY DEF ProcsOK
    <3>1. CASE k = n /\ q = e[2]
      <4>1. Proc_at(k, q)' = o /\ Busy(k, q) /\ p = Proc_at(k, q)
        BY <1>3, <2>1, <2>2, <3>1 DEF SendAgain, Proc_at, TypeOK
      <4>2. QED
        BY <1>1, <2>3, <4>1, ProcKept
    <3>2. CASE ~(k = n /\ q = e[2])
      <4>1. PICK x : x = Proc_at(k, q)
        OBVIOUS
      <4>2. Proc_at(k, q)' = x /\ Busy(k, q)
        BY <1>3, <2>1, <2>2, <3>2, <4>1 DEF SendAgain, Proc_at, Busy, TypeOK
      <4>3. QED
        BY <1>1, <4>1, <4>2, ProcKept
    <3>3. QED
      BY <3>1, <3>2
  <2>11. QED
    BY <2>7, <2>8, <2>9, <2>10 DEF Facts
<1>4. QED
  BY <1>2, <1>3, RetryTimeoutStep

\* Every step keeps Facts.
LEMMA NextFacts == TypeOK /\ Facts /\ TypeOK' /\ [Next]_vars => Facts'
<1> SUFFICES ASSUME TypeOK, Facts, TypeOK', [Next]_vars PROVE Facts'
  OBVIOUS
<1>0. Kept
  BY StepKept
<1>1. ASSUME NEW n \in Nodes, NEW dst \in Nodes, NEW type \in Types, SendRequest(n, dst, type)
      PROVE  Facts'
  BY <1>0, <1>1, SendRequestFacts
<1> SUFFICES ASSUME OtherSteps, SameAsked PROVE Facts'
  BY <1>1, OtherStepsAskNothing DEF Next, OtherSteps
<1>2. ASSUME NEW m \in network, Receive(m)
      PROVE  Facts'
  <2>1. network' \subseteq network
    BY <1>2 DEF Receive
  <2>2. CASE Discard(m.dst, m)
    BY <1>0, <2>1, <2>2, QuietFacts DEF Discard, stackVars, historyVars, Proc_at
  <2>3. QED
    BY <1>0, <1>2, <2>1, <2>2, ReceiveNewFacts, ReceiveTriggeredFacts DEF Receive
<1>3. ASSUME NEW m \in network, Lose(m)
      PROVE  Facts'
  BY <1>0, <1>3, QuietFacts DEF Lose, stackVars, historyVars, Proc_at
<1>4. ASSUME NEW n \in Nodes, NEW w \in inProgress[n], SendResponse(n, w)
      PROVE  Facts'
  BY <1>0, <1>4, SendResponseFacts
<1>5. ASSUME NEW n \in Nodes, NEW id \in running[n], Expire(n, id)
      PROVE  Facts'
  BY <1>0, <1>5, QuietFacts DEF Expire, historyVars, Proc_at
<1>6. ASSUME NEW n \in Nodes, NEW id \in timeouts[n], RetryTimeout(n, id)
      PROVE  Facts'
  BY <1>0, <1>6, RetryTimeoutFacts
<1>7. ASSUME NEW n \in Nodes, NEW id \in timeouts[n], CleanupTimeout(n, id)
      PROVE  Facts'
  <2>1. PICK s : EraseProc(n, s)
    BY <1>7 DEF CleanupTimeout
  <2>2. \A k \in Nodes, q \in Seqs : Proc_at(k, q)' = Proc_at(k, q) \/ Proc_at(k, q)' = NoProc
    BY <2>1 DEF EraseProc, Proc_at, TypeOK
  <2>3. QED
    BY <1>0, <1>7, <2>2, QuietFacts DEF CleanupTimeout, historyVars
<1>8. ASSUME NEW n \in Nodes, NEW id \in timeouts[n], StaleTimeout(n, id)
      PROVE  Facts'
  BY <1>0, <1>8, QuietFacts DEF StaleTimeout, historyVars, Proc_at
<1>9. CASE UNCHANGED vars
  BY <1>0, <1>9, QuietFacts DEF vars, stackVars, historyVars, Proc_at
<1>10. QED
  BY <1>2, <1>3, <1>4, <1>5, <1>6, <1>7, <1>8, <1>9 DEF OtherSteps, time_out_event

\* Facts hold before the first message.
LEMMA InitFacts == Init => Facts
<1> SUFFICES ASSUME Init PROVE Facts
  OBVIOUS
<1>1. \A n \in Nodes, t \in Trxns : <<n, t>> \in Names
  BY DEF Names
<1>2. Numbered /\ MailOK /\ WorkOK
  BY <1>1 DEF Init, Numbered, MailOK, WorkOK, Asked
<1>3. ProcsOK
  BY DEF Init, ProcsOK, Busy, Proc_at
<1>4. QED
  BY <1>2, <1>3 DEF Facts

\* Every variable stays in its type.
THEOREM TypeCorrect == Spec => []TypeOK
<1>1. Init => TypeOK
  BY InitTypeOK
<1>2. TypeOK /\ [Next]_vars => TypeOK'
  BY NextTypeOK
<1>3. QED
  BY <1>1, <1>2, PTL DEF Spec

\* What a stack numbers, sends and works on goes back to a request that was sent, in a transaction
\* of its own, with or without TIME_OUTs.
THEOREM BaseInvariant == Spec => [](TypeOK /\ Facts)
<1>1. Init => TypeOK /\ Facts
  BY InitTypeOK, InitFacts
<1>2. TypeOK /\ Facts /\ [Next]_vars => (TypeOK /\ Facts)'
  BY NextTypeOK, NextFacts
<1>3. QED
  BY <1>1, <1>2, PTL DEF Spec

-----------------------------------------------------------------------------
(* The stack as its two owners use it: no TIME_OUT reaches it.              *)

\* A response that arrives where no procedure is, or for an own procedure that still
\* waits, was not handed up before.
LEMMA NotYetAnswered ==
  ASSUME TypeOK, Facts, Wired, NEW m \in network, m.kind = "response",
         \/ ~Busy(m.dst, m.seq)
         \/ /\ Busy(m.dst, m.seq) /\ ~Proc_at(m.dst, m.seq).triggered
            /\ Proc_at(m.dst, m.seq).trxn = m.of[2]
  PROVE  /\ m.of \in Names /\ m.dst = m.of[1] /\ m.dst \in Nodes /\ m.seq \in Seqs
         /\ answered[m.of] = 0 /\ executed[m.of] > 0 /\ copies[m.of] > 0
         /\ <<m.of[2], m.seq>> \in trxn_id2seq_num[m.dst]
         /\ m.of = <<m.dst, m.of[2]>> /\ m.of[2] \in Trxns
<1>1. /\ m \in Message /\ m.dst \in Nodes /\ m.seq \in Seqs /\ m.of \in Names
      /\ m.of[2] \in Trxns /\ m.of = <<m.of[1], m.of[2]>>
  BY MessageType DEF TypeOK
<1>2. IsResponse(m)
  BY DEF Facts, MailOK, IsRequest
<1>3. /\ m.dst = m.of[1] /\ executed[m.of] > 0 /\ copies[m.of] > 0
      /\ <<m.of[2], m.seq>> \in trxn_id2seq_num[m.dst] /\ m.of = <<m.dst, m.of[2]>>
  BY <1>1, <1>2 DEF IsResponse
<1>4. answered[m.of] = 0
  <2>1. answered[m.of] \in Nat
    BY <1>1 DEF TypeOK
  <2>2. CASE ~Busy(m.dst, m.seq)
    <3>1. ~Closed(Proc_at(m.dst, m.seq))
      BY <2>2 DEF Closed, Busy
    <3>2. ~(answered[<<m.dst, m.of[2]>>] > 0)
      BY <1>1, <1>3, <3>1 DEF Wired, AnsweredOnce
    <3>3. QED
      BY <1>3, <2>1, <3>2
  <2>3. CASE /\ Busy(m.dst, m.seq) /\ ~Proc_at(m.dst, m.seq).triggered
             /\ Proc_at(m.dst, m.seq).trxn = m.of[2]
    <3>1. ProcOK(m.dst, m.seq, Proc_at(m.dst, m.seq))
      BY <1>1, <2>3 DEF Facts, ProcsOK
    <3>2. Asked(m.dst, m.of[2])
      BY <1>3 DEF Asked
    <3>3. QED
      BY <1>3, <2>3, <3>1, <3>2 DEF ProcOK
  <2>4. QED
    BY <2>2, <2>3
<1>5. QED
  BY <1>1, <1>3, <1>4

\* Steps that hand nothing up and take no work, request or closed procedure away.
LEMMA QuietWired ==
  ASSUME TypeOK, Facts, Wired, TypeOK',
         UNCHANGED <<timeouts, inProgress, executed, answered>>,
         \A k \in Nodes : \A e \in trxn_id2seq_num'[k] :
           e \in trxn_id2seq_num[k] \/ answered[<<k, e[1]>>] = 0,
         \A k \in Nodes, q \in Seqs : Busy(k, q) => Proc_at(k, q)' = Proc_at(k, q)
  PROVE  Wired'
<1>1. AnsweredOnce'
  <2> SUFFICES ASSUME NEW n \in Nodes, NEW e \in trxn_id2seq_num'[n], answered[<<n, e[1]>>] > 0
      PROVE  answered[<<n, e[1]>>] = 1 /\ Closed(Proc_at(n, e[2]))'
    BY DEF AnsweredOnce
  <2>1. e[2] \in Seqs /\ answered[<<n, e[1]>>] = 1 /\ Closed(Proc_at(n, e[2]))
    BY DEF Wired, AnsweredOnce, TypeOK
  <2>2. QED
    BY <2>1 DEF Closed, Busy
<1>2. WorkOpen'
  <2> SUFFICES ASSUME NEW n \in Nodes, NEW w \in inProgress[n]
      PROVE  /\ Proc_at(n, w.msg.seq)' # NoProc /\ Proc_at(n, w.msg.seq)'.trxn = w.trxn
             /\ ~Closed(Proc_at(n, w.msg.seq))'
    BY DEF WorkOpen
  <2>1. w.msg.seq \in Seqs
    BY MessageType DEF TypeOK
  <2>2. Proc_at(n, w.msg.seq)' = Proc_at(n, w.msg.seq)
    BY <2>1 DEF Wired, WorkOpen, Busy
  <2>3. QED
    BY <2>2 DEF Wired, WorkOpen, Closed
<1>3. QED
  BY <1>1, <1>2 DEF Wired, AnsweredAsked

\* Sending a request keeps Wired: its name has had no response.
LEMMA SendRequestWired ==
  ASSUME TypeOK, Facts, Wired, TypeOK',
         NEW n \in Nodes, NEW dst \in Nodes, NEW type \in Types, SendRequest(n, dst, type)
  PROVE  Wired'
<1>1. PICK s, t, p : /\ s = NextSeq(n) /\ t = NewTrxn(n) /\ InsertProc(n, s, p)
  BY DEF SendRequest
<1>2. trxn_id2seq_num' = [trxn_id2seq_num EXCEPT ![n] = @ \cup {<<t, s>>}]
  BY <1>1 DEF SendRequest
<1>3. answered[<<n, t>>] = 0
  BY <1>1, NewTrxnUnused DEF SendRequest
<1>4. \A k \in Nodes : \A e \in trxn_id2seq_num'[k] :
        e \in trxn_id2seq_num[k] \/ answered[<<k, e[1]>>] = 0
  <2>1. \A k \in Nodes : trxn_id2seq_num'[k] =
          IF k = n THEN trxn_id2seq_num[n] \cup {<<t, s>>} ELSE trxn_id2seq_num[k]
    BY <1>2 DEF TypeOK
  <2>2. QED
    BY <1>3, <2>1
<1>5. \A k \in Nodes, q \in Seqs : Busy(k, q) => Proc_at(k, q)' = Proc_at(k, q)
  BY <1>1, NextSeqType DEF InsertProc, Proc_at, Busy, TypeOK
<1>6. UNCHANGED <<timeouts, inProgress, executed, answered>>
  BY DEF SendRequest
<1>7. QED
  BY <1>4, <1>5, <1>6, QuietWired

\* Accepting a request, or a response where no procedure is, keeps Wired: that response is
\* handed up the first time.
LEMMA ReceiveNewWired ==
  ASSUME TypeOK, Facts, Wired, TypeOK', NEW m \in network, ReceiveNew(m.dst, m)
  PROVE  Wired'
<1>1. PICK n, t : n = m.dst /\ t = NewTrxn(n)
  OBVIOUS
<1>2. PICK p : p = [trxn |-> t, initial |-> <<m.type, m.kind>>,
                    triggered |-> FALSE, retry_count |-> 0,
                    retry_timer |-> FALSE, retry_msg |-> {}]
  OBVIOUS
<1>3. /\ m \in Message /\ n \in Nodes /\ m.seq \in Seqs /\ m.of \in Names /\ m.kind \in Kinds
  BY <1>1, MessageType DEF TypeOK
<1>4. /\ ~Busy(n, m.seq)
      /\ trxn_id2seq_num' = [trxn_id2seq_num EXCEPT ![n] = @ \cup {<<t, m.seq>>}]
      /\ InsertProc(n, m.seq, p)
      /\ m.kind = "request" => /\ inProgress' = [inProgress EXCEPT ![n] = @ \cup {[trxn |-> t, msg |-> m]}]
                               /\ executed' = [executed EXCEPT ![m.of] = @ + 1]
                               /\ answered' = answered
      /\ m.kind # "request" => /\ answered' = [answered EXCEPT ![m.of] = @ + 1]
                               /\ inProgress' = inProgress /\ executed' = executed
      /\ timeouts' = timeouts
  BY <1>1, <1>2 DEF ReceiveNew
<1>5. /\ t \in Trxns /\ ~Asked(n, t) /\ answered[<<n, t>>] = 0
      /\ \A w \in inProgress[n] : w.trxn # t
  BY <1>1, <1>3, NewTrxnUnused DEF ReceiveNew
<1>6. /\ \A k \in Nodes, q \in Seqs : Proc_at(k, q)' = IF k = n /\ q = m.seq THEN p ELSE Proc_at(k, q)
      /\ \A k \in Nodes : trxn_id2seq_num'[k] =
           IF k = n THEN trxn_id2seq_num[n] \cup {<<t, m.seq>>} ELSE trxn_id2seq_num[k]
  BY <1>3, <1>4 DEF InsertProc, Proc_at, Busy, TypeOK
<1>7. p.trxn = t /\ p.retry_msg = {} /\ p.initial[2] = m.kind /\ p # NoProc
  BY <1>2, <1>5 DEF NoProc, NoTrxn, Trxns
<1>8. CASE m.kind = "request"
  <2>1. AnsweredOnce'
    <3> SUFFICES ASSUME NEW k \in Nodes, NEW e \in trxn_id2seq_num'[k], answered[<<k, e[1]>>] > 0
        PROVE  answered[<<k, e[1]>>] = 1 /\ Closed(Proc_at(k, e[2]))'
      BY <1>4, <1>8 DEF AnsweredOnce
    <3>1. e \in trxn_id2seq_num[k]
      BY <1>5, <1>6
    <3>2. e[2] \in Seqs /\ answered[<<k, e[1]>>] = 1 /\ Closed(Proc_at(k, e[2]))
      BY <3>1 DEF Wired, AnsweredOnce, TypeOK
    <3>3. Proc_at(k, e[2])' = Proc_at(k, e[2])
      BY <1>4, <1>6, <3>2 DEF Busy, Closed
    <3>4. QED
      BY <3>2, <3>3 DEF Closed
  <2>2. WorkOpen'
    <3> SUFFICES ASSUME NEW k \in Nodes, NEW w \in inProgress'[k]
        PROVE  /\ Proc_at(k, w.msg.seq)' # NoProc /\ Proc_at(k, w.msg.seq)'.trxn = w.trxn
               /\ ~Closed(Proc_at(k, w.msg.seq))'
      BY DEF WorkOpen
    <3>1. CASE w \in inProgress[k]
      <4>1. w.msg.seq \in Seqs
        BY <3>1, MessageType DEF TypeOK
      <4>2. Busy(k, w.msg.seq)
        BY <3>1 DEF Wired, WorkOpen, Busy
      <4>3. Proc_at(k, w.msg.seq)' = Proc_at(k, w.msg.seq)
        BY <1>4, <1>6, <4>1, <4>2
      <4>4. QED
        BY <3>1, <4>3 DEF Wired, WorkOpen, Closed
    <3>2. CASE k = n /\ w = [trxn |-> t, msg |-> m]
      <4>1. w.msg.seq = m.seq /\ w.trxn = t /\ Proc_at(k, w.msg.seq)' = p
        BY <1>3, <1>6, <3>2
      <4>2. QED
        BY <1>7, <1>8, <4>1 DEF Closed
    <3>3. QED
      BY <1>4, <1>8, <3>1, <3>2 DEF TypeOK
  <2>3. AnsweredAsked'
    <3>1. ASSUME NEW r \in Names, executed[r] > 0 PROVE executed'[r] > 0
      <4>1. executed \in [Names -> Nat] /\ executed' = [executed EXCEPT ![m.of] = @ + 1]
        BY <1>4, <1>8 DEF TypeOK
      <4>2. QED
        BY <3>1, <4>1
    <3>2. QED
      BY <1>4, <1>8, <3>1 DEF Wired, AnsweredAsked
  <2>4. QED
    BY <1>4, <2>1, <2>2, <2>3 DEF Wired
<1>9. CASE m.kind = "response"
  <2>1. /\ m.of = <<n, m.of[2]>> /\ answered[m.of] = 0 /\ executed[m.of] > 0 /\ copies[m.of] > 0
        /\ <<m.of[2], m.seq>> \in trxn_id2seq_num[n]
    BY <1>1, <1>4, <1>9, NotYetAnswered
  <2>2. /\ \A r \in Names : r # m.of => answered'[r] = answered[r]
        /\ answered'[m.of] = 1
    BY <1>3, <1>4, <1>9, <2>1 DEF TypeOK
  <2>3. AnsweredOnce'
    <3> SUFFICES ASSUME NEW k \in Nodes, NEW e \in trxn_id2seq_num'[k], answered'[<<k, e[1]>>] > 0
        PROVE  answered'[<<k, e[1]>>] = 1 /\ Closed(Proc_at(k, e[2]))'
      BY DEF AnsweredOnce
    <3>1. Closed(p)
      BY <1>7, <1>9 DEF Closed
    <3>2. <<k, e[1]>> \in Names /\ e[2] \in Seqs
      BY DEF TypeOK, Names
    <3>3. <<n, t>> # m.of
      BY <1>5, <2>1 DEF Asked
    <3>4. CASE <<k, e[1]>> = m.of
      <4>1. k = n /\ e[1] = m.of[2] /\ e \in trxn_id2seq_num[n]
        BY <1>6, <2>1, <3>3, <3>4
      <4>2. e = <<m.of[2], m.seq>>
        BY <2>1, <4>1, <1>3 DEF Facts, Numbered
      <4>3. QED
        BY <1>3, <1>6, <2>2, <3>1, <3>4, <4>1, <4>2 DEF Closed
    <3>5. CASE <<k, e[1]>> # m.of
      <4>1. answered'[<<k, e[1]>>] = answered[<<k, e[1]>>]
        BY <2>2, <3>2, <3>5
      <4>2. e \in trxn_id2seq_num[k]
        BY <1>5, <1>6, <4>1
      <4>3. answered[<<k, e[1]>>] = 1 /\ Closed(Proc_at(k, e[2]))
        BY <4>1, <4>2 DEF Wired, AnsweredOnce
      <4>4. Proc_at(k, e[2])' = Proc_at(k, e[2])
        BY <1>4, <1>6, <3>2, <4>3 DEF Busy, Closed
      <4>5. QED
        BY <4>1, <4>3, <4>4 DEF Closed
    <3>6. QED
      BY <3>4, <3>5
  <2>4. WorkOpen'
    <3> SUFFICES ASSUME NEW k \in Nodes, NEW w \in inProgress[k]
        PROVE  /\ Proc_at(k, w.msg.seq)' # NoProc /\ Proc_at(k, w.msg.seq)'.trxn = w.trxn
               /\ ~Closed(Proc_at(k, w.msg.seq))'
      BY <1>4, <1>9 DEF WorkOpen
    <3>1. w.msg.seq \in Seqs
      BY MessageType DEF TypeOK
    <3>2. Busy(k, w.msg.seq)
      BY DEF Wired, WorkOpen, Busy
    <3>3. Proc_at(k, w.msg.seq)' = Proc_at(k, w.msg.seq)
      BY <1>4, <1>6, <3>1, <3>2
    <3>4. QED
      BY <3>3 DEF Wired, WorkOpen, Closed
  <2>5. AnsweredAsked'
    <3>1. \A r \in Names : answered'[r] <= 1 /\ (answered'[r] > 0 => executed[r] > 0)
      BY <2>1, <2>2 DEF Wired, AnsweredAsked
    <3>2. QED
      BY <1>4, <1>9, <3>1 DEF AnsweredAsked
  <2>6. QED
    BY <1>4, <2>3, <2>4, <2>5 DEF Wired
<1>10. QED
  BY <1>3, <1>8, <1>9 DEF Kinds

\* Taking a response for an open procedure keeps Wired: it is handed up the first time.
LEMMA ReceiveTriggeredWired ==
  ASSUME TypeOK, Facts, Wired, TypeOK', NEW m \in network, ReceiveTriggered(m.dst, m)
  PROVE  Wired'
<1>1. PICK n, p : n = m.dst /\ p = Proc_at(n, m.seq)
  OBVIOUS
<1>2. m \in Message /\ n \in Nodes /\ m.seq \in Seqs /\ m.of \in Names /\ m.of = <<m.of[1], m.of[2]>>
  BY <1>1, MessageType DEF TypeOK
<1>3. PICK o : o = [p EXCEPT !.triggered = TRUE, !.retry_timer = FALSE]
  OBVIOUS
<1>4. /\ Busy(n, m.seq) /\ ~p.triggered /\ m.kind = "response"
      /\ pending_procedures' = [pending_procedures EXCEPT ![n][m.seq] = o]
      /\ answered' = IF p.trxn = m.of[2] /\ m.of[1] = n
                     THEN [answered EXCEPT ![m.of] = @ + 1] ELSE answered
      /\ UNCHANGED <<trxn_id2seq_num, timeouts, inProgress, executed>>
  BY <1>1, <1>3 DEF ReceiveTriggered, check_response_type
<1>5. p \in Proc /\ ProcOK(n, m.seq, p) /\ p # NoProc
  BY <1>1, <1>2, <1>4 DEF Busy, TypeOK, Facts, ProcsOK, Proc_at
<1>6. /\ o.trxn = p.trxn /\ o.retry_msg = p.retry_msg /\ o.initial = p.initial /\ o # NoProc
      /\ Closed(o) <=> Closed(p)
  BY <1>3, <1>5, ProcType DEF Proc, NoProc, NoTrxn, Trxns, Closed
<1>7. \A k \in Nodes, q \in Seqs : Proc_at(k, q)' = IF k = n /\ q = m.seq THEN o ELSE Proc_at(k, q)
  BY <1>2, <1>4 DEF Proc_at, TypeOK
<1>8. /\ \A k \in Nodes, q \in Seqs : Closed(Proc_at(k, q)) => Closed(Proc_at(k, q))'
      /\ \A k \in Nodes, q \in Seqs : ~Closed(Proc_at(k, q)) => ~Closed(Proc_at(k, q))'
  BY <1>1, <1>6, <1>7 DEF Closed
<1>9. \A r \in Names : answered'[r] = answered[r] \/
        /\ r = m.of /\ r = <<n, p.trxn>> /\ answered[r] = 0 /\ answered'[r] = 1 /\ executed[r] > 0
        /\ Closed(p) /\ <<p.trxn, m.seq>> \in trxn_id2seq_num[n]
  <2>1. CASE p.trxn = m.of[2] /\ m.of[1] = n
    <3>1. /\ m.of = <<n, p.trxn>> /\ answered[m.of] = 0 /\ executed[m.of] > 0 /\ copies[m.of] > 0
          /\ <<p.trxn, m.seq>> \in trxn_id2seq_num[n]
      BY <1>1, <1>4, <2>1, NotYetAnswered
    <3>2. Closed(p)
      BY <1>5, <3>1 DEF ProcOK, Asked, Closed
    <3>3. \A r \in Names : answered'[r] = IF r = m.of THEN 1 ELSE answered[r]
      BY <1>2, <1>4, <2>1, <3>1 DEF TypeOK
    <3>4. QED
      BY <3>1, <3>2, <3>3
  <2>2. CASE ~(p.trxn = m.of[2] /\ m.of[1] = n)
    BY <1>4, <2>2
  <2>3. QED
    BY <2>1, <2>2
<1>10. AnsweredOnce'
  <2> SUFFICES ASSUME NEW k \in Nodes, NEW e \in trxn_id2seq_num[k], answered'[<<k, e[1]>>] > 0
      PROVE  answered'[<<k, e[1]>>] = 1 /\ Closed(Proc_at(k, e[2]))'
    BY <1>4 DEF AnsweredOnce
  <2>1. e[2] \in Seqs /\ <<k, e[1]>> \in Names /\ e = <<e[1], e[2]>>
    BY DEF TypeOK, Names
  <2>2. CASE answered'[<<k, e[1]>>] = answered[<<k, e[1]>>]
    <3>1. answered[<<k, e[1]>>] = 1 /\ Closed(Proc_at(k, e[2]))
      BY <2>2 DEF Wired, AnsweredOnce
    <3>2. QED
      BY <1>8, <2>1, <2>2, <3>1
  <2>3. CASE answered'[<<k, e[1]>>] # answered[<<k, e[1]>>]
    <3>1. /\ k = n /\ e[1] = p.trxn /\ answered'[<<k, e[1]>>] = 1 /\ Closed(p)
          /\ <<p.trxn, m.seq>> \in trxn_id2seq_num[n]
      BY <1>9, <2>1, <2>3
    <3>2. e[2] = m.seq
      BY <2>1, <3>1, <1>2 DEF Facts, Numbered
    <3>3. QED
      BY <1>1, <1>2, <1>8, <3>1, <3>2
  <2>4. QED
    BY <2>2, <2>3
<1>11. WorkOpen'
  <2> SUFFICES ASSUME NEW k \in Nodes, NEW w \in inProgress[k]
      PROVE  /\ Proc_at(k, w.msg.seq)' # NoProc /\ Proc_at(k, w.msg.seq)'.trxn = w.trxn
             /\ ~Closed(Proc_at(k, w.msg.seq))'
    BY <1>4 DEF WorkOpen
  <2>1. w.msg.seq \in Seqs
    BY MessageType DEF TypeOK
  <2>2. /\ Proc_at(k, w.msg.seq) # NoProc /\ Proc_at(k, w.msg.seq).trxn = w.trxn
        /\ ~Closed(Proc_at(k, w.msg.seq))
    BY DEF Wired, WorkOpen
  <2>3. QED
    BY <1>1, <1>6, <1>7, <1>8, <2>1, <2>2
<1>12. AnsweredAsked'
  <2>1. \A r \in Names : answered'[r] <= 1 /\ (answered'[r] > 0 => executed[r] > 0)
    BY <1>9 DEF Wired, AnsweredAsked
  <2>2. QED
    BY <1>4, <2>1 DEF AnsweredAsked
<1>13. QED
  BY <1>4, <1>10, <1>11, <1>12 DEF Wired

\* Sending a response keeps Wired: its own procedure goes, no closed one.
LEMMA SendResponseWired ==
  ASSUME TypeOK, Facts, Wired, TypeOK', NEW n \in Nodes, NEW w \in inProgress[n], SendResponse(n, w)
  PROVE  Wired'
<1>1. /\ w.msg.seq \in Seqs /\ EraseProc(n, w.msg.seq)
      /\ inProgress' = [inProgress EXCEPT ![n] = @ \ {w}]
      /\ UNCHANGED <<timeouts, executed, answered>>
      /\ \A k \in Nodes : \A e \in trxn_id2seq_num'[k] : e \in trxn_id2seq_num[k]
  <2>1. PICK e, m :
          /\ m \in Message /\ w.msg.seq \in Seqs /\ EraseProc(n, w.msg.seq)
          /\ inProgress' = [inProgress EXCEPT ![n] = @ \ {w}]
          /\ UNCHANGED <<seq_num, lastTrxn, historyVars, timeouts>>
          /\ trxn_id2seq_num' = [trxn_id2seq_num EXCEPT ![n] = @ \ {e}]
    BY SendResponseStep
  <2>2. \A k \in Nodes : \A f \in trxn_id2seq_num'[k] : f \in trxn_id2seq_num[k]
    BY <2>1 DEF TypeOK
  <2>3. QED
    BY <2>1, <2>2 DEF historyVars
<1>2. /\ \A k \in Nodes, q \in Seqs :
           Proc_at(k, q)' = IF k = n /\ q = w.msg.seq THEN NoProc ELSE Proc_at(k, q)
      /\ \A k \in Nodes : \A v \in inProgress'[k] : v \in inProgress[k] /\ ~(k = n /\ v = w)
  BY <1>1 DEF EraseProc, Proc_at, TypeOK
<1>3. Proc_at(n, w.msg.seq).trxn = w.trxn /\ ~Closed(Proc_at(n, w.msg.seq))
  BY DEF Wired, WorkOpen
<1>4. AnsweredOnce'
  <2> SUFFICES ASSUME NEW k \in Nodes, NEW e \in trxn_id2seq_num[k], answered[<<k, e[1]>>] > 0
      PROVE  answered[<<k, e[1]>>] = 1 /\ Closed(Proc_at(k, e[2]))'
    BY <1>1 DEF AnsweredOnce
  <2>1. e[2] \in Seqs /\ answered[<<k, e[1]>>] = 1 /\ Closed(Proc_at(k, e[2]))
    BY DEF Wired, AnsweredOnce, TypeOK
  <2>2. QED
    BY <1>2, <1>3, <2>1 DEF Closed
<1>5. WorkOpen'
  <2> SUFFICES ASSUME NEW k \in Nodes, NEW v \in inProgress'[k]
      PROVE  /\ Proc_at(k, v.msg.seq)' # NoProc /\ Proc_at(k, v.msg.seq)'.trxn = v.trxn
             /\ ~Closed(Proc_at(k, v.msg.seq))'
    BY DEF WorkOpen
  <2>1. v \in inProgress[k] /\ ~(k = n /\ v = w) /\ v.msg.seq \in Seqs
    BY <1>2, MessageType DEF TypeOK
  <2>2. /\ Proc_at(k, v.msg.seq) # NoProc /\ Proc_at(k, v.msg.seq).trxn = v.trxn
        /\ ~Closed(Proc_at(k, v.msg.seq))
    BY <2>1 DEF Wired, WorkOpen
  <2>3. ~(k = n /\ v.msg.seq = w.msg.seq)
    BY <1>3, <2>1, <2>2 DEF Facts, WorkOK
  <2>4. QED
    BY <1>2, <2>1, <2>2, <2>3 DEF Closed
<1>6. QED
  BY <1>1, <1>4, <1>5 DEF Wired, AnsweredAsked

\* Without TIME_OUTs every step keeps Wired.
LEMMA NextWired ==
  ASSUME DispatchTimers = FALSE, TypeOK, Facts, Wired, TypeOK', [Next]_vars
  PROVE  Wired'
<1>1. ASSUME UNCHANGED <<timeouts, inProgress, executed, answered, trxn_id2seq_num, pending_procedures>>
      PROVE  Wired'
  BY <1>1, QuietWired DEF Proc_at
<1>2. ASSUME NEW m \in network, Receive(m)
      PROVE  Wired'
  <2>1. CASE Discard(m.dst, m)
    BY <1>1, <2>1 DEF Discard, stackVars, historyVars
  <2>2. QED
    BY <1>2, <2>1, ReceiveNewWired, ReceiveTriggeredWired DEF Receive
<1>3. ASSUME NEW m \in network, Lose(m)
      PROVE  Wired'
  BY <1>1, <1>3 DEF Lose, stackVars, historyVars
<1>4. ASSUME NEW n \in Nodes, NEW id \in running[n], Expire(n, id)
      PROVE  Wired'
  BY <1>1, <1>4 DEF Expire, historyVars
<1>5. ASSUME NEW n \in Nodes, NEW id \in timeouts[n], time_out_event(n, id)
      PROVE  Wired'
  BY DEF Wired
<1>6. CASE UNCHANGED vars
  BY <1>1, <1>6 DEF vars, stackVars, historyVars
<1>7. QED
  BY <1>2, <1>3, <1>4, <1>5, <1>6, SendRequestWired, SendResponseWired DEF Next

-----------------------------------------------------------------------------
(* While the sequence numbers do not run out.                               *)

\* The number of a new request is that of no earlier one.
LEMMA SendRequestApart ==
  ASSUME MaxRequests <= SeqModulus, TypeOK, Facts, SeqsApart,
         NEW n \in Nodes, NEW dst \in Nodes, NEW type \in Types, SendRequest(n, dst, type)
  PROVE  SeqsApart'
<1>1. PICK s, t : s = NextSeq(n) /\ t = NewTrxn(n)
  OBVIOUS
<1>2. /\ seq_num' = [seq_num EXCEPT ![n] = s]
      /\ copies' = [copies EXCEPT ![<<n, t>>] = 1]
      /\ trxn_id2seq_num' = [trxn_id2seq_num EXCEPT ![n] = @ \cup {<<t, s>>}]
      /\ requests' = [requests EXCEPT ![n] = @ + 1]
      /\ requests[n] < MaxRequests
  BY <1>1 DEF SendRequest
<1>3. /\ t \in Trxns /\ <<n, t>> \in Names
      /\ \A e \in trxn_id2seq_num[n] : e[1] \in Trxns /\ e[1] # t
  BY <1>1, NewTrxnUnused DEF SendRequest
<1>4. PICK c, r : c = seq_num[n] /\ r = requests[n]
  OBVIOUS
<1>5. /\ c \in 0..SeqModulus-1 /\ r \in 0..MaxRequests /\ r < MaxRequests
      /\ s = IF c = SeqModulus - 1 THEN 0 ELSE c + 1
      /\ s \in Seqs /\ SeqModulus \in Nat /\ SeqModulus > 0 /\ MaxRequests \in Nat
  BY <1>1, <1>2, <1>4, NextSeqType DEF TypeOK, Seqs
<1>6. /\ seq_num'[n] = s /\ requests'[n] = r + 1
      /\ \A k \in Nodes : k # n => seq_num'[k] = seq_num[k] /\ requests'[k] = requests[k]
      /\ \A k \in Nodes : trxn_id2seq_num'[k] =
           IF k = n THEN trxn_id2seq_num[n] \cup {<<t, s>>} ELSE trxn_id2seq_num[k]
      /\ \A k \in Nodes : \A u \in Trxns : <<k, u>> # <<n, t>> => (Asked(k, u)' <=> Asked(k, u))
  BY <1>2, <1>4 DEF TypeOK, Asked, Names
<1>7. ASSUME NEW q \in Seqs, Recent(n, q)
      PROVE  Recent(n, q)' /\ q # s
  <2>1. PICK d \in 0..r-1 : q + d = c \/ q + d = c + SeqModulus
    BY <1>4, <1>7 DEF Recent
  <2>2. q \in 0..SeqModulus-1 /\ d \in Nat /\ d + 1 \in 0..(r+1)-1
    BY <1>5, <2>1 DEF Seqs
  <2>3. q + (d + 1) = s \/ q + (d + 1) = s + SeqModulus
    BY <1>5, <2>1, <2>2
  <2>4. q # s
    BY <1>5, <2>1, <2>2
  <2>5. QED
    BY <1>6, <2>2, <2>3, <2>4 DEF Recent
<1>8. Recent(n, s)'
  <2>1. 0 \in 0..(r+1)-1 /\ s + 0 = s
    BY <1>5 DEF Seqs
  <2>2. QED
    BY <1>6, <2>1 DEF Recent
<1>9. ASSUME NEW e \in trxn_id2seq_num[n], Asked(n, e[1])
      PROVE  Recent(n, e[2])' /\ e[2] # s
  BY <1>7, <1>9 DEF SeqsApart, TypeOK
<1>10. ASSUME NEW k \in Nodes
       PROVE  /\ \A e \in trxn_id2seq_num'[k] : Asked(k, e[1])' => Recent(k, e[2])'
              /\ \A e, f \in trxn_id2seq_num'[k] :
                   Asked(k, e[1])' /\ Asked(k, f[1])' /\ e[2] = f[2] => e = f
  <2>1. CASE k # n
    <3>1. \A e \in trxn_id2seq_num[k] : e[1] \in Trxns
      BY DEF TypeOK
    <3>2. \A e \in trxn_id2seq_num'[k] : e \in trxn_id2seq_num[k] /\ (Asked(k, e[1])' => Asked(k, e[1]))
      BY <1>6, <2>1, <3>1
    <3>3. \A q : Recent(k, q) => Recent(k, q)'
      BY <1>6, <2>1 DEF Recent
    <3>4. QED
      BY <3>2, <3>3 DEF SeqsApart
  <2>2. CASE k = n
    <3>1. \A e \in trxn_id2seq_num'[n] :
            e = <<t, s>> \/ (e \in trxn_id2seq_num[n] /\ (Asked(n, e[1])' => Asked(n, e[1])))
      BY <1>3, <1>6
    <3>2. QED
      BY <1>8, <1>9, <2>2, <3>1 DEF SeqsApart
  <2>3. QED
    BY <2>1, <2>2
<1>11. QED
  BY <1>10 DEF SeqsApart

\* Every step keeps the own requests apart, as long as the numbers do not run out.
LEMMA NextApart ==
  ASSUME MaxRequests <= SeqModulus, TypeOK, Facts, SeqsApart, TypeOK', [Next]_vars
  PROVE  SeqsApart'
<1>1. ASSUME OtherSteps
      PROVE  SeqsApart'
  <2>1. /\ SameAsked
        /\ UNCHANGED <<seq_num, requests>>
        /\ \A n \in Nodes : \A e \in trxn_id2seq_num'[n] :
             Asked(n, e[1]) => e \in trxn_id2seq_num[n]
    BY <1>1, OtherStepsAskNothing
  <2>2. ASSUME NEW n \in Nodes, NEW e \in trxn_id2seq_num'[n], Asked(n, e[1])'
        PROVE  e \in trxn_id2seq_num[n] /\ Asked(n, e[1])
    <3>1. e[1] \in Trxns
      BY DEF TypeOK
    <3>2. QED
      BY <2>1, <2>2, <3>1 DEF SameAsked
  <2>3. \A n \in Nodes : \A q : Recent(n, q) => Recent(n, q)'
    BY <2>1 DEF Recent
  <2>4. QED
    BY <2>2, <2>3 DEF SeqsApart
<1>2. QED
  BY <1>1, SendRequestApart DEF Next, OtherSteps

\* A retry timer's entry in order, in its fields.
LEMMA RetryEntry ==
  ASSUME TypeOK, RetriesOK, NEW n \in Nodes, NEW x \in msg_out_retry_timers[n]
  PROVE  /\ x[1][2] \in Trxns /\ x[2] \in Seqs /\ x = <<x[1], x[2]>>
         /\ x[1] = RetryId(x[1][2], x[1][3])
         /\ Asked(n, x[1][2]) /\ <<x[1][2], x[2]>> \in trxn_id2seq_num[n]
         /\ Busy(n, x[2]) /\ Proc_at(n, x[2]).trxn = x[1][2] =>
              Proc_at(n, x[2]).retry_count = x[1][3] /\ Proc_at(n, x[2]).retry_timer
<1>1. x \in TimerIds \X Seqs
  BY DEF TypeOK
<1>2. x[1][2] \in Trxns /\ x[2] \in Seqs /\ x = <<x[1], x[2]>>
  BY <1>1 DEF TimerIds
<1>3. QED
  BY <1>2 DEF RetriesOK, Busy

\* Steps that leave the copies and the procedures of own requests alone.
LEMMA QuietOnce ==
  ASSUME TypeOK, Facts, RetriesOK, OwnOK, TypeOK', Kept, SameAsked,
         UNCHANGED copies, \A r \in Names : answered[r] > 0 => answered'[r] > 0,
         \A k \in Nodes, q \in Seqs :
           \/ Proc_at(k, q)' = Proc_at(k, q) \/ Proc_at(k, q)' = NoProc
           \/ Proc_at(k, q)'.retry_msg = {} /\ ~Asked(k, Proc_at(k, q)'.trxn),
         \A k \in Nodes : msg_out_retry_timers'[k] \subseteq msg_out_retry_timers[k]
  PROVE  RetriesOK' /\ OwnOK'
<1>1. RetriesOK'
  <2> SUFFICES ASSUME NEW n \in Nodes, NEW x \in msg_out_retry_timers'[n]
      PROVE  /\ x[1] = RetryId(x[1][2], x[1][3])
             /\ Asked(n, x[1][2])' /\ <<x[1][2], x[2]>> \in trxn_id2seq_num'[n]
             /\ LET p == Proc_at(n, x[2])' IN
                p # NoProc /\ p.trxn = x[1][2] => p.retry_count = x[1][3] /\ p.retry_timer
    BY DEF RetriesOK
  <2>1. /\ x[1][2] \in Trxns /\ x[2] \in Seqs /\ x[1] = RetryId(x[1][2], x[1][3])
        /\ Asked(n, x[1][2]) /\ <<x[1][2], x[2]>> \in trxn_id2seq_num[n]
        /\ Busy(n, x[2]) /\ Proc_at(n, x[2]).trxn = x[1][2] =>
             Proc_at(n, x[2]).retry_count = x[1][3] /\ Proc_at(n, x[2]).retry_timer
    BY RetryEntry
  <2>2. Asked(n, x[1][2])' /\ <<x[1][2], x[2]>> \in trxn_id2seq_num'[n]
    BY <2>1 DEF SameAsked, Kept
  <2>3. QED
    BY <2>1, <2>2 DEF Busy
<1>2. OwnOK'
  <2> SUFFICES ASSUME NEW n \in Nodes, NEW s \in Seqs, NEW p, p = Proc_at(n, s)', Own(p)
      PROVE  /\ p.triggered => ~p.retry_timer /\ answered'[<<n, p.trxn>>] > 0
             /\ copies'[<<n, p.trxn>>] = 1 + p.retry_count
    BY DEF OwnOK, Own
  <2>1. p = Proc_at(n, s)
    BY DEF Own
  <2>2. <<n, p.trxn>> \in Names
    BY <2>1, ProcType DEF Own, Proc_at, TypeOK, Names
  <2>3. QED
    BY <2>1, <2>2 DEF OwnOK
<1>3. QED
  BY <1>1, <1>2

\* A new request starts with one copy and one retry timer of its own.
LEMMA SendRequestOnce ==
  ASSUME TypeOK, Facts, RetriesOK, OwnOK, TypeOK', Kept,
         NEW n \in Nodes, NEW dst \in Nodes, NEW type \in Types, SendRequest(n, dst, type)
  PROVE  RetriesOK' /\ OwnOK'
<1>1. PICK s, t, m : /\ s = NextSeq(n) /\ t = NewTrxn(n)
                     /\ m = [kind |-> "request", type |-> type, seq |-> s, src |-> n,
                             dst |-> dst, of |-> <<n, t>>]
  OBVIOUS
<1>2. PICK p : p = [trxn |-> t, initial |-> <<type, "request">>,
                    triggered |-> FALSE, retry_count |-> 0,
                    retry_timer |-> TRUE, retry_msg |-> {m}]
  OBVIOUS
<1>3. /\ copies' = [copies EXCEPT ![<<n, t>>] = 1]
      /\ trxn_id2seq_num' = [trxn_id2seq_num EXCEPT ![n] = @ \cup {<<t, s>>}]
      /\ msg_out_retry_timers' = [msg_out_retry_timers EXCEPT ![n] = @ \cup {<<RetryId(t, 0), s>>}]
      /\ InsertProc(n, s, p)
      /\ answered' = answered
  BY <1>1, <1>2 DEF SendRequest
<1>4. /\ s \in Seqs /\ t \in Trxns /\ <<n, t>> \in Names
      /\ \A e \in trxn_id2seq_num[n] : e[1] # t
      /\ \A q \in Seqs : Busy(n, q) => Proc_at(n, q).trxn # t
  BY <1>1, NewTrxnUnused, NextSeqType DEF SendRequest, TypeOK
<1>5. /\ \A k \in Nodes, q \in Seqs : Proc_at(k, q)' =
           IF k = n /\ q = s /\ ~Busy(n, s) THEN p ELSE Proc_at(k, q)
      /\ \A r \in Names : copies'[r] = IF r = <<n, t>> THEN 1 ELSE copies[r]
      /\ \A k \in Nodes : \A x \in msg_out_retry_timers'[k] :
           x \in msg_out_retry_timers[k] \/ (k = n /\ x = <<RetryId(t, 0), s>>)
      /\ <<t, s>> \in trxn_id2seq_num'[n]
  <2>1. \A k \in Nodes, q \in Seqs : Proc_at(k, q)' =
           IF k = n /\ q = s /\ ~Busy(n, s) THEN p ELSE Proc_at(k, q)
    BY <1>3, <1>4 DEF InsertProc, Proc_at, Busy, TypeOK
  <2>2. \A r \in Names : copies'[r] = IF r = <<n, t>> THEN 1 ELSE copies[r]
    BY <1>3 DEF TypeOK
  <2>3. \A k \in Nodes : \A x \in msg_out_retry_timers'[k] :
           x \in msg_out_retry_timers[k] \/ (k = n /\ x = <<RetryId(t, 0), s>>)
    BY <1>3 DEF TypeOK
  <2>4. <<t, s>> \in trxn_id2seq_num'[n]
    BY <1>3 DEF TypeOK
  <2>5. QED
    BY <2>1, <2>2, <2>3, <2>4
<1>6. p # NoProc /\ p.trxn = t /\ p.retry_count = 0 /\ p.retry_timer = TRUE /\ p.triggered = FALSE
  BY <1>2, <1>4 DEF NoProc, NoTrxn, Trxns
<1>7. RetriesOK'
  <2> SUFFICES ASSUME NEW k \in Nodes, NEW x \in msg_out_retry_timers'[k]
      PROVE  /\ x[1] = RetryId(x[1][2], x[1][3])
             /\ Asked(k, x[1][2])' /\ <<x[1][2], x[2]>> \in trxn_id2seq_num'[k]
             /\ LET o == Proc_at(k, x[2])' IN
                o # NoProc /\ o.trxn = x[1][2] => o.retry_count = x[1][3] /\ o.retry_timer
    BY DEF RetriesOK
  <2>1. CASE x \in msg_out_retry_timers[k]
    <3>1. /\ x[1][2] \in Trxns /\ x[2] \in Seqs /\ x[1] = RetryId(x[1][2], x[1][3])
          /\ Asked(k, x[1][2]) /\ <<x[1][2], x[2]>> \in trxn_id2seq_num[k]
          /\ Busy(k, x[2]) /\ Proc_at(k, x[2]).trxn = x[1][2] =>
               Proc_at(k, x[2]).retry_count = x[1][3] /\ Proc_at(k, x[2]).retry_timer
      BY <2>1, RetryEntry
    <3>2. Asked(k, x[1][2])' /\ <<x[1][2], x[2]>> \in trxn_id2seq_num'[k]
      BY <3>1 DEF Kept, Asked, Names
    <3>3. ~(k = n /\ x[1][2] = t)
      BY <1>4, <3>1
    <3>4. QED
      BY <1>5, <1>6, <3>1, <3>2, <3>3 DEF Busy
  <2>2. CASE k = n /\ x = <<RetryId(t, 0), s>>
    <3>1. x[1] = RetryId(t, 0) /\ x[1][2] = t /\ x[1][3] = 0 /\ x[2] = s
      BY <2>2 DEF RetryId
    <3>2. Asked(n, t)'
      BY <1>4, <1>5 DEF Asked
    <3>3. Proc_at(n, s)' # NoProc /\ Proc_at(n, s)'.trxn = t => Proc_at(n, s)' = p
      BY <1>4, <1>5
    <3>4. QED
      BY <1>5, <1>6, <2>2, <3>1, <3>2, <3>3
  <2>3. QED
    BY <1>5, <2>1, <2>2
<1>8. OwnOK'
  <2> SUFFICES ASSUME NEW k \in Nodes, NEW q \in Seqs, NEW o, o = Proc_at(k, q)', Own(o)
      PROVE  /\ o.triggered => ~o.retry_timer /\ answered'[<<k, o.trxn>>] > 0
             /\ copies'[<<k, o.trxn>>] = 1 + o.retry_count
    BY DEF OwnOK, Own
  <2>1. CASE o = Proc_at(k, q)
    <3>1. <<k, o.trxn>> \in Names /\ <<k, o.trxn>> # <<n, t>>
      BY <1>4, <2>1, ProcType DEF Own, Busy, Proc_at, TypeOK, Names
    <3>2. QED
      BY <1>3, <1>5, <2>1, <3>1 DEF OwnOK
  <2>2. CASE k = n /\ o = p
    BY <1>4, <1>5, <1>6, <2>2
  <2>3. QED
    BY <1>5, <2>1, <2>2
<1>9. QED
  BY <1>7, <1>8

\* A response to an own request meets its procedure, and no other one.
LEMMA ReceiveTriggeredOnce ==
  ASSUME TypeOK, Facts, SeqsApart, RetriesOK, OwnOK, TypeOK', Kept, SameAsked,
         NEW m \in network, ReceiveTriggered(m.dst, m)
  PROVE  RetriesOK' /\ OwnOK'
<1>1. PICK n, p : n = m.dst /\ p = Proc_at(n, m.seq)
  OBVIOUS
<1>2. /\ m \in Message /\ n \in Nodes /\ m.seq \in Seqs /\ m.of \in Names
      /\ m.of = <<m.of[1], m.of[2]>> /\ m.of[2] \in Trxns
  BY <1>1, MessageType DEF TypeOK
<1>3. PICK o, id : o = [p EXCEPT !.triggered = TRUE, !.retry_timer = FALSE]
                   /\ id = RetryId(p.trxn, p.retry_count)
  OBVIOUS
<1>4. /\ Busy(n, m.seq) /\ m.kind = "response"
      /\ pending_procedures' = [pending_procedures EXCEPT ![n][m.seq] = o]
      /\ p.retry_timer => msg_out_retry_timers' =
           [msg_out_retry_timers EXCEPT ![n] = WithoutId(@, id)]
      /\ ~p.retry_timer => msg_out_retry_timers' = msg_out_retry_timers
      /\ answered' = IF p.trxn = m.of[2] /\ m.of[1] = n
                     THEN [answered EXCEPT ![m.of] = @ + 1] ELSE answered
      /\ UNCHANGED copies
  BY <1>1, <1>3 DEF ReceiveTriggered, StopRetryTimer, check_response_type
<1>5. p \in Proc /\ ProcOK(n, m.seq, p) /\ p # NoProc /\ p.trxn \in Trxns
  BY <1>1, <1>2, <1>4, ProcType DEF Busy, TypeOK, Facts, ProcsOK, Proc_at
<1>6. /\ o.trxn = p.trxn /\ o.retry_msg = p.retry_msg /\ o.retry_count = p.retry_count
      /\ o.triggered = TRUE /\ o.retry_timer = FALSE /\ o # NoProc
  BY <1>3, <1>5 DEF Proc, NoProc, NoTrxn, Trxns
<1>7. \A k \in Nodes, q \in Seqs : Proc_at(k, q)' = IF k = n /\ q = m.seq THEN o ELSE Proc_at(k, q)
  BY <1>2, <1>4 DEF Proc_at, TypeOK
<1>8. \A k \in Nodes : \A x \in msg_out_retry_timers'[k] :
        /\ x \in msg_out_retry_timers[k]
        /\ k = n /\ p.retry_timer => x[1] # id
  BY <1>4 DEF WithoutId, TypeOK
<1>9. \A r \in Names : answered[r] > 0 => answered'[r] > 0
  BY <1>4 DEF TypeOK
<1>10. RetriesOK'
  <2> SUFFICES ASSUME NEW k \in Nodes, NEW x \in msg_out_retry_timers'[k]
      PROVE  /\ x[1] = RetryId(x[1][2], x[1][3])
             /\ Asked(k, x[1][2])' /\ <<x[1][2], x[2]>> \in trxn_id2seq_num'[k]
             /\ LET a == Proc_at(k, x[2])' IN
                a # NoProc /\ a.trxn = x[1][2] => a.retry_count = x[1][3] /\ a.retry_timer
    BY DEF RetriesOK
  <2>1. x \in msg_out_retry_timers[k]
    BY <1>8
  <2>2. /\ x[1][2] \in Trxns /\ x[2] \in Seqs /\ x[1] = RetryId(x[1][2], x[1][3])
        /\ Asked(k, x[1][2]) /\ <<x[1][2], x[2]>> \in trxn_id2seq_num[k]
        /\ Busy(k, x[2]) /\ Proc_at(k, x[2]).trxn = x[1][2] =>
             Proc_at(k, x[2]).retry_count = x[1][3] /\ Proc_at(k, x[2]).retry_timer
    BY <2>1, RetryEntry
  <2>3. Asked(k, x[1][2])' /\ <<x[1][2], x[2]>> \in trxn_id2seq_num'[k]
    BY <2>2 DEF Kept, SameAsked
  <2>4. ASSUME k = n, x[2] = m.seq, p.trxn = x[1][2]
        PROVE  FALSE
    <3>1. p.retry_count = x[1][3] /\ p.retry_timer
      BY <1>1, <1>4, <2>2, <2>4
    <3>2. x[1] = id
      BY <1>3, <2>2, <2>4, <3>1
    <3>3. QED
      BY <1>8, <2>4, <3>1, <3>2
  <2>5. QED
    BY <1>6, <1>7, <2>2, <2>3, <2>4 DEF Busy
<1>11. OwnOK'
  <2> SUFFICES ASSUME NEW k \in Nodes, NEW q \in Seqs, NEW a, a = Proc_at(k, q)', Own(a)
      PROVE  /\ a.triggered => ~a.retry_timer /\ answered'[<<k, a.trxn>>] > 0
             /\ copies'[<<k, a.trxn>>] = 1 + a.retry_count
    BY DEF OwnOK, Own
  <2>1. CASE k = n /\ q = m.seq
    <3>1. a = o /\ Own(p)
      BY <1>5, <1>6, <1>7, <2>1 DEF Own
    <3>2. copies[<<n, p.trxn>>] = 1 + p.retry_count
      BY <1>1, <1>2, <3>1 DEF OwnOK
    <3>3. /\ m.of[1] = n /\ copies[m.of] > 0 /\ <<m.of[2], m.seq>> \in trxn_id2seq_num[n]
      BY <1>1, <1>2, <1>4 DEF Facts, MailOK, IsRequest, IsResponse
    <3>4. <<p.trxn, m.seq>> \in trxn_id2seq_num[n] /\ Asked(n, p.trxn) /\ Asked(n, m.of[2])
      BY <1>2, <1>5, <3>1, <3>3 DEF ProcOK, Own, Asked
    <3>5. m.of[2] = p.trxn
      <4>1. PICK e, f : e = <<m.of[2], m.seq>> /\ f = <<p.trxn, m.seq>>
        OBVIOUS
      <4>2. e = f
        BY <1>2, <3>3, <3>4, <4>1 DEF SeqsApart
      <4>3. QED
        BY <4>1, <4>2
    <3>6. answered'[<<n, p.trxn>>] > 0
      <4>1. answered \in [Names -> Nat] /\ m.of = <<n, p.trxn>>
        BY <1>2, <3>3, <3>5 DEF TypeOK
      <4>2. answered' = [answered EXCEPT ![m.of] = @ + 1]
        BY <1>4, <3>3, <3>5
      <4>3. QED
        BY <1>2, <4>1, <4>2
    <3>7. QED
      BY <1>4, <1>6, <2>1, <3>1, <3>2, <3>6
  <2>2. CASE ~(k = n /\ q = m.seq)
    <3>1. a = Proc_at(k, q)
      BY <1>7, <2>2
    <3>2. <<k, a.trxn>> \in Names
      BY <3>1, ProcType DEF Own, Proc_at, TypeOK, Names
    <3>3. QED
      BY <1>4, <1>9, <3>1, <3>2 DEF OwnOK
  <2>3. QED
    BY <2>1, <2>2
<1>12. QED
  BY <1>10, <1>11

\* The entry that runs out is that of the procedure it meets.
LEMMA SendAgainIsDue ==
  ASSUME TypeOK, Facts, Once, NEW n \in Nodes, NEW id, NEW e, NEW p, SendAgain(n, id, e, p)
  PROVE  /\ e[2] \in Seqs /\ p \in Proc /\ ProcOK(n, e[2], p) /\ Own(p) /\ ~p.triggered
         /\ id = RetryId(p.trxn, p.retry_count)
         /\ p.retry_count < N1 /\ copies[<<n, p.trxn>>] = 1 + p.retry_count
         /\ answered[<<n, p.trxn>>] = 0 /\ <<n, p.trxn>> \in Names
         /\ \A r \in Names : copies'[r] = IF r = <<n, p.trxn>> THEN copies[r] + 1 ELSE copies[r]
<1>1. /\ e \in msg_out_retry_timers[n] /\ e[1] = id
      /\ p = Proc_at(n, e[2]) /\ Busy(n, e[2]) /\ p.retry_count < N1 /\ p.retry_msg # {}
  BY DEF SendAgain, MayRetry
<1>2. /\ e[1][2] \in Trxns /\ e[2] \in Seqs /\ e[1] = RetryId(e[1][2], e[1][3])
      /\ Asked(n, e[1][2]) /\ <<e[1][2], e[2]>> \in trxn_id2seq_num[n]
      /\ p.trxn = e[1][2] => p.retry_count = e[1][3] /\ p.retry_timer
  BY <1>1, RetryEntry DEF Once
<1>3. p \in Proc /\ ProcOK(n, e[2], p) /\ p.trxn \in Trxns /\ Own(p) /\ p.triggered \in BOOLEAN
  BY <1>1, <1>2, ProcType DEF Busy, TypeOK, Facts, ProcsOK, Proc_at, Own
<1>4. p.trxn = e[1][2]
  <2>1. PICK f, g : f = <<p.trxn, e[2]>> /\ g = <<e[1][2], e[2]>>
    OBVIOUS
  <2>2. /\ f \in trxn_id2seq_num[n] /\ Asked(n, f[1]) /\ f[2] = g[2]
        /\ g \in trxn_id2seq_num[n] /\ Asked(n, g[1])
    BY <1>1, <1>2, <1>3, <2>1 DEF ProcOK
  <2>3. QED
    BY <2>1, <2>2 DEF Once, SeqsApart
<1>5. p.retry_count = e[1][3] /\ p.retry_timer
  BY <1>2, <1>4
<1>6. ~p.triggered /\ copies[<<n, p.trxn>>] = 1 + p.retry_count
  BY <1>1, <1>2, <1>3, <1>5 DEF Once, OwnOK
<1>7. answered[<<n, p.trxn>>] = 0 /\ <<n, p.trxn>> \in Names
  BY <1>1, <1>3, <1>6 DEF ProcOK, Names
<1>8. \A r \in Names : copies'[r] = IF r = <<n, p.trxn>> THEN copies[r] + 1 ELSE copies[r]
  <2>1. \A m \in p.retry_msg : m.of = <<n, p.trxn>>
    BY <1>3 DEF ProcOK
  <2>2. QED
    BY <1>1, <2>1 DEF SendAgain
<1>9. QED
  BY <1>1, <1>2, <1>3, <1>4, <1>5, <1>6, <1>7, <1>8

\* A copy that is sent again is counted, and its timer replaced by the next one.
LEMMA SendAgainOnce ==
  ASSUME TypeOK, Facts, Once, TypeOK', Kept, SameAsked, answered' = answered,
         NEW n \in Nodes, NEW id, NEW e, NEW p, SendAgain(n, id, e, p)
  PROVE  RetriesOK' /\ OwnOK'
<1>1. /\ e[2] \in Seqs /\ p \in Proc /\ ProcOK(n, e[2], p) /\ Own(p) /\ ~p.triggered
      /\ id = RetryId(p.trxn, p.retry_count)
      /\ p.retry_count < N1 /\ copies[<<n, p.trxn>>] = 1 + p.retry_count
      /\ <<n, p.trxn>> \in Names
      /\ \A r \in Names : copies'[r] = IF r = <<n, p.trxn>> THEN copies[r] + 1 ELSE copies[r]
  BY SendAgainIsDue
<1>2. PICK o, next : o = [p EXCEPT !.retry_count = @ + 1, !.retry_timer = TRUE]
                     /\ next = RetryId(p.trxn, p.retry_count + 1)
  OBVIOUS
<1>3. /\ o.trxn = p.trxn /\ o.retry_msg = p.retry_msg /\ o.triggered = p.triggered /\ o # NoProc
      /\ o.retry_count = p.retry_count + 1 /\ o.retry_timer = TRUE /\ p.retry_count \in Nat
      /\ p.trxn \in Trxns
  <2>1. p.trxn \in Trxns /\ p.retry_count \in Nat
    BY <1>1, ProcType
  <2>2. /\ o.trxn = p.trxn /\ o.retry_msg = p.retry_msg /\ o.triggered = p.triggered
        /\ o.retry_count = p.retry_count + 1 /\ o.retry_timer = TRUE
    BY <1>1, <1>2 DEF Proc
  <2>3. o # NoProc
    BY <2>1, <2>2 DEF NoProc, NoTrxn, Trxns
  <2>4. QED
    BY <2>1, <2>2, <2>3
<1>4. /\ p = Proc_at(n, e[2]) /\ Busy(n, e[2])
      /\ pending_procedures' = [pending_procedures EXCEPT ![n][e[2]] = o]
      /\ msg_out_retry_timers' = [msg_out_retry_timers EXCEPT ![n] =
           WithoutId(@, id) \cup {<<next, e[2]>>}]
  BY <1>2 DEF SendAgain
<1>5. /\ \A k \in Nodes, q \in Seqs : Proc_at(k, q)' = IF k = n /\ q = e[2] THEN o ELSE Proc_at(k, q)
      /\ \A k \in Nodes : \A x \in msg_out_retry_timers'[k] :
           \/ x \in msg_out_retry_timers[k] /\ (k = n => x[1] # id)
           \/ k = n /\ x = <<next, e[2]>>
  <2>1. \A k \in Nodes, q \in Seqs : Proc_at(k, q)' = IF k = n /\ q = e[2] THEN o ELSE Proc_at(k, q)
    BY <1>1, <1>4 DEF Proc_at, TypeOK
  <2>2. \A k \in Nodes : \A x \in msg_out_retry_timers'[k] :
           \/ x \in msg_out_retry_timers[k] /\ (k = n => x[1] # id)
           \/ k = n /\ x = <<next, e[2]>>
    BY <1>4 DEF WithoutId, TypeOK
  <2>3. QED
    BY <2>1, <2>2
<1>6. RetriesOK'
  <2> SUFFICES ASSUME NEW k \in Nodes, NEW x \in msg_out_retry_timers'[k]
      PROVE  /\ x[1] = RetryId(x[1][2], x[1][3])
             /\ Asked(k, x[1][2])' /\ <<x[1][2], x[2]>> \in trxn_id2seq_num'[k]
             /\ LET a == Proc_at(k, x[2])' IN
                a # NoProc /\ a.trxn = x[1][2] => a.retry_count = x[1][3] /\ a.retry_timer
    BY DEF RetriesOK
  <2>1. CASE x \in msg_out_retry_timers[k] /\ (k = n => x[1] # id)
    <3>1. /\ x[1][2] \in Trxns /\ x[2] \in Seqs /\ x[1] = RetryId(x[1][2], x[1][3])
          /\ Asked(k, x[1][2]) /\ <<x[1][2], x[2]>> \in trxn_id2seq_num[k]
          /\ Busy(k, x[2]) /\ Proc_at(k, x[2]).trxn = x[1][2] =>
               Proc_at(k, x[2]).retry_count = x[1][3] /\ Proc_at(k, x[2]).retry_timer
      BY <2>1, RetryEntry DEF Once
    <3>2. Asked(k, x[1][2])' /\ <<x[1][2], x[2]>> \in trxn_id2seq_num'[k]
      BY <3>1 DEF Kept, SameAsked
    <3>3. ~(k = n /\ x[2] = e[2] /\ p.trxn = x[1][2])
      BY <1>1, <1>4, <2>1, <3>1
    <3>4. QED
      BY <1>3, <1>5, <3>1, <3>2, <3>3 DEF Busy
  <2>2. CASE k = n /\ x = <<next, e[2]>>
    <3>1. /\ x[2] = e[2] /\ x[1][2] = p.trxn /\ x[1][3] = p.retry_count + 1
          /\ x[1] = RetryId(x[1][2], x[1][3])
      BY <1>2, <2>2 DEF RetryId
    <3>2. Asked(n, p.trxn) /\ <<p.trxn, e[2]>> \in trxn_id2seq_num[n]
      BY <1>1 DEF ProcOK, Own
    <3>3. Asked(n, p.trxn)' /\ <<p.trxn, e[2]>> \in trxn_id2seq_num'[n]
      BY <1>3, <3>2 DEF Kept, SameAsked
    <3>4. QED
      BY <1>1, <1>3, <1>5, <2>2, <3>1, <3>3
  <2>3. QED
    BY <1>5, <2>1, <2>2
<1>7. OwnOK'
  <2> SUFFICES ASSUME NEW k \in Nodes, NEW q \in Seqs, NEW a, a = Proc_at(k, q)', Own(a)
      PROVE  /\ a.triggered => ~a.retry_timer /\ answered'[<<k, a.trxn>>] > 0
             /\ copies'[<<k, a.trxn>>] = 1 + a.retry_count
    BY DEF OwnOK, Own
  <2>1. CASE k = n /\ q = e[2]
    BY <1>1, <1>3, <1>5, <2>1
  <2>2. CASE ~(k = n /\ q = e[2])
    <3>1. a = Proc_at(k, q) /\ Busy(k, q)
      BY <1>5, <2>2 DEF Own, Busy
    <3>2. <<k, a.trxn>> \in Names /\ a.trxn \in Trxns /\ ProcOK(k, q, a)
      BY <3>1, ProcType DEF Busy, Proc_at, TypeOK, Names, Facts, ProcsOK
    <3>3. <<k, a.trxn>> # <<n, p.trxn>>
      <4> SUFFICES ASSUME k = n, a.trxn = p.trxn PROVE FALSE
        OBVIOUS
      <4>1. PICK f, g : f = <<a.trxn, q>> /\ g = <<p.trxn, e[2]>>
        OBVIOUS
      <4>2. f \in trxn_id2seq_num[n] /\ g \in trxn_id2seq_num[n]
        BY <1>1, <3>2, <4>1 DEF ProcOK, Own
      <4>3. f = g
        BY <4>1, <4>2 DEF Facts, Numbered
      <4>4. QED
        BY <2>2, <4>1, <4>3
    <3>4. QED
      BY <1>1, <3>1, <3>2, <3>3 DEF Once, OwnOK
  <2>3. QED
    BY <2>1, <2>2
<1>8. QED
  BY <1>6, <1>7

\* Every step keeps Once, as long as the numbers do not run out.
LEMMA NextOnce ==
  ASSUME MaxRequests <= SeqModulus, TypeOK, Facts, Once, TypeOK', [Next]_vars
  PROVE  Once'
<1>1. Kept /\ SeqsApart'
  BY StepKept, NextApart DEF Once
<1>2. ASSUME NEW n \in Nodes, NEW dst \in Nodes, NEW type \in Types, SendRequest(n, dst, type)
      PROVE  Once'
  BY <1>1, <1>2, SendRequestOnce DEF Once
<1> SUFFICES ASSUME OtherSteps, SameAsked PROVE RetriesOK' /\ OwnOK'
  BY <1>1, <1>2, OtherStepsAskNothing DEF Next, OtherSteps, Once
<1>3. RetriesOK /\ OwnOK
  BY DEF Once
<1>4. ASSUME UNCHANGED <<pending_procedures, msg_out_retry_timers, copies, answered>>
      PROVE  RetriesOK' /\ OwnOK'
  BY <1>1, <1>3, <1>4, QuietOnce DEF Proc_at
<1>5. ASSUME NEW m \in network, Receive(m)
      PROVE  RetriesOK' /\ OwnOK'
  <2>1. CASE ReceiveNew(m.dst, m)
    <3>1. PICK n, t : n = m.dst /\ t = NewTrxn(n)
      OBVIOUS
    <3>2. PICK p : p = [trxn |-> t, initial |-> <<m.type, m.kind>>,
                        triggered |-> FALSE, retry_count |-> 0,
                        retry_timer |-> FALSE, retry_msg |-> {}]
      OBVIOUS
    <3>3. /\ InsertProc(n, m.seq, p)
          /\ answered' = answered \/ answered' = [answered EXCEPT ![m.of] = @ + 1]
          /\ UNCHANGED <<copies, msg_out_retry_timers>>
      BY <2>1, <3>1, <3>2 DEF ReceiveNew
    <3>4. n \in Nodes /\ m.seq \in Seqs /\ ~Asked(n, t)
      BY <2>1, <3>1, NewTrxnUnused, MessageType DEF ReceiveNew, TypeOK
    <3>5. \A r \in Names : answered[r] > 0 => answered'[r] > 0
      <4>1. answered \in [Names -> Nat]
        BY DEF TypeOK
      <4>2. ASSUME answered' = [answered EXCEPT ![m.of] = @ + 1], NEW r \in Names, answered[r] > 0
            PROVE  answered'[r] > 0
        BY <4>1, <4>2
      <4>3. QED
        BY <3>3, <4>2
    <3>6. \A k \in Nodes, q \in Seqs :
            \/ Proc_at(k, q)' = Proc_at(k, q)
            \/ k = n /\ Proc_at(k, q)' = p
      BY <3>3, <3>4 DEF InsertProc, Proc_at, TypeOK
    <3>7. p.trxn = t /\ p.retry_msg = {}
      BY <3>2
    <3>8. QED
      BY <1>1, <1>3, <3>3, <3>4, <3>5, <3>6, <3>7, QuietOnce
  <2>2. CASE ReceiveTriggered(m.dst, m)
    BY <1>1, <2>2, ReceiveTriggeredOnce DEF Once
  <2>3. CASE Discard(m.dst, m)
    BY <1>4, <2>3 DEF Discard, stackVars, historyVars
  <2>4. QED
    BY <1>5, <2>1, <2>2, <2>3 DEF Receive
<1>6. ASSUME NEW m \in network, Lose(m)
      PROVE  RetriesOK' /\ OwnOK'
  BY <1>4, <1>6 DEF Lose, stackVars, historyVars
<1>7. ASSUME NEW n \in Nodes, NEW w \in inProgress[n], SendResponse(n, w)
      PROVE  RetriesOK' /\ OwnOK'
  <2>1. PICK e \in trxn_id2seq_num[n] :
          /\ IF Busy(n, e[2])
               THEN msg_out_retry_timers' = [msg_out_retry_timers EXCEPT ![n] =
                      WithoutId(@, CleanupId(Proc_at(n, e[2]).trxn))]
               ELSE msg_out_retry_timers' = msg_out_retry_timers
          /\ EraseProc(n, e[2])
    BY <1>7 DEF SendResponse
  <2>2. PICK id : \/ msg_out_retry_timers' = [msg_out_retry_timers EXCEPT ![n] = WithoutId(@, id)]
                  \/ msg_out_retry_timers' = msg_out_retry_timers
    BY <2>1
  <2>3. \A k \in Nodes : msg_out_retry_timers'[k] \subseteq msg_out_retry_timers[k]
    <3>1. CASE msg_out_retry_timers' = [msg_out_retry_timers EXCEPT ![n] = WithoutId(@, id)]
      BY <3>1 DEF WithoutId, TypeOK
    <3>2. QED
      BY <2>2, <3>1
  <2>4. \A k \in Nodes, q \in Seqs : Proc_at(k, q)' = Proc_at(k, q) \/ Proc_at(k, q)' = NoProc
    BY <2>1 DEF EraseProc, Proc_at, TypeOK
  <2>5. UNCHANGED <<copies, answered>>
    BY <1>7 DEF SendResponse, historyVars
  <2>6. QED
    BY <1>1, <1>3, <2>3, <2>4, <2>5, QuietOnce
<1>8. ASSUME NEW n \in Nodes, NEW id \in running[n], Expire(n, id)
      PROVE  RetriesOK' /\ OwnOK'
  BY <1>4, <1>8 DEF Expire, historyVars
<1>9. ASSUME NEW n \in Nodes, NEW id \in timeouts[n], RetryTimeout(n, id)
      PROVE  RetriesOK' /\ OwnOK'
  <2>1. answered' = answered
    BY <1>9 DEF RetryTimeout
  <2>2. CASE \E e, p : SendAgain(n, id, e, p)
    BY <1>1, <2>1, <2>2, SendAgainOnce
  <2>3. CASE /\ UNCHANGED <<pending_procedures, network, copies>>
             /\ \A k \in Nodes : msg_out_retry_timers'[k] \subseteq msg_out_retry_timers[k]
    BY <1>1, <1>3, <2>1, <2>3, QuietOnce DEF Proc_at
  <2>4. QED
    BY <1>9, <2>2, <2>3, RetryTimeoutStep
<1>10. ASSUME NEW n \in Nodes, NEW id \in timeouts[n], CleanupTimeout(n, id)
       PROVE  RetriesOK' /\ OwnOK'
  <2>1. PICK s : EraseProc(n, s)
    BY <1>10 DEF CleanupTimeout
  <2>2. \A k \in Nodes, q \in Seqs : Proc_at(k, q)' = Proc_at(k, q) \/ Proc_at(k, q)' = NoProc
    BY <2>1 DEF EraseProc, Proc_at, TypeOK
  <2>3. QED
    BY <1>1, <1>3, <1>10, <2>2, QuietOnce DEF CleanupTimeout, historyVars
<1>11. ASSUME NEW n \in Nodes, NEW id \in timeouts[n], StaleTimeout(n, id)
       PROVE  RetriesOK' /\ OwnOK'
  BY <1>4, <1>11 DEF StaleTimeout, historyVars
<1>12. CASE UNCHANGED vars
  BY <1>4, <1>12 DEF vars, stackVars, historyVars
<1>13. QED
  BY <1>5, <1>6, <1>7, <1>8, <1>9, <1>10, <1>11, <1>12 DEF OtherSteps, time_out_event

\* Wired and Once hold before the first request.
LEMMA InitWiredOnce == Init => Wired /\ Once
<1> SUFFICES ASSUME Init PROVE Wired /\ Once
  OBVIOUS
<1>1. Wired
  BY DEF Init, Wired, AnsweredOnce, WorkOpen, AnsweredAsked
<1>2. SeqsApart /\ RetriesOK
  BY DEF Init, SeqsApart, RetriesOK
<1>3. OwnOK
  BY DEF Init, OwnOK, Own, Proc_at
<1>4. QED
  BY <1>1, <1>2, <1>3 DEF Once

-----------------------------------------------------------------------------
(* The theorems.                                                            *)

\* The retries of a request stop: whoever handles the TIME_OUTs, and in whatever
\* order they and the responses come, no copy of a request leaves after its response
\* was handed up, and no more than 1 + N1 copies leave at all.
THEOREM RetriesEnd ==
  ASSUME MaxRequests <= SeqModulus
  PROVE  Spec => RetriesStop
<1>1. Init => TypeOK /\ Facts /\ Once
  BY InitTypeOK, InitFacts, InitWiredOnce
<1>2. TypeOK /\ Facts /\ Once /\ [Next]_vars => (TypeOK /\ Facts /\ Once)'
  BY NextTypeOK, NextFacts, NextOnce
<1>3. ASSUME TypeOK, Facts, Once, [Next]_vars, NEW r \in Names, copies'[r] > copies[r]
      PROVE  answered[r] = 0 /\ copies'[r] <= 1 + N1
  <2>1. ASSUME NEW n \in Nodes, NEW dst \in Nodes, NEW type \in Types, SendRequest(n, dst, type)
        PROVE  answered[r] = 0 /\ copies'[r] <= 1 + N1
    <3>1. PICK t : t = NewTrxn(n)
      OBVIOUS
    <3>2. copies' = [copies EXCEPT ![<<n, t>>] = 1] /\ answered[<<n, t>>] = 0
      BY <1>3, <2>1, <3>1, NewTrxnUnused DEF SendRequest
    <3>3. r = <<n, t>> /\ copies'[r] = 1
      BY <1>3, <3>2 DEF TypeOK
    <3>4. QED
      BY <3>2, <3>3
  <2>2. ASSUME NEW n \in Nodes, NEW id, NEW e, NEW p, SendAgain(n, id, e, p)
        PROVE  answered[r] = 0 /\ copies'[r] <= 1 + N1
    <3>1. /\ p.retry_count < N1 /\ copies[<<n, p.trxn>>] = 1 + p.retry_count /\ p \in Proc
          /\ answered[<<n, p.trxn>>] = 0
          /\ \A q \in Names : copies'[q] = IF q = <<n, p.trxn>> THEN copies[q] + 1 ELSE copies[q]
      BY <1>3, <2>2, SendAgainIsDue
    <3>2. r = <<n, p.trxn>> /\ copies'[r] = 2 + p.retry_count /\ p.retry_count \in Nat
      <4>1. copies'[r] # copies[r]
        BY <1>3 DEF TypeOK
      <4>2. r = <<n, p.trxn>> /\ p.retry_count \in Nat
        BY <3>1, <4>1, ProcType
      <4>3. QED
        BY <3>1, <4>2
    <3>3. QED
      BY <3>1, <3>2
  <2>3. \/ copies' = copies
        \/ \E n, dst \in Nodes, type \in Types : SendRequest(n, dst, type)
        \/ \E n \in Nodes : \E id \in timeouts[n] : RetryTimeout(n, id)
    BY <1>3 DEF Next, Receive, ReceiveNew, ReceiveTriggered, Discard, Lose, SendResponse, Expire,
         time_out_event, CleanupTimeout, StaleTimeout, vars, historyVars
  <2>4. copies' # copies
    BY <1>3 DEF TypeOK
  <2>5. QED
    BY <1>3, <2>1, <2>2, <2>3, <2>4, RetryTimeoutStep
<1>4. TypeOK /\ Facts /\ Once /\ [Next]_vars =>
        [\A r \in Names : copies'[r] > copies[r] => answered[r] = 0 /\ copies'[r] <= 1 + N1]_vars
  BY <1>3
<1>5. QED
  BY <1>1, <1>2, <1>4, PTL DEF Spec, RetriesStop

\* With the owners as they are, the exchanges in one table stay apart: an own request's
\* procedure is closed by the response to that request, and a request that is being worked on
\* is not handed up again.
THEOREM ExchangesApart ==
  ASSUME DispatchTimers = FALSE, MaxRequests <= SeqModulus
  PROVE  Spec => []ExchangesStayApart
<1>1. Init => TypeOK /\ Facts /\ Wired /\ Once
  BY InitTypeOK, InitFacts, InitWiredOnce
<1>2. TypeOK /\ Facts /\ Wired /\ Once /\ [Next]_vars => (TypeOK /\ Facts /\ Wired /\ Once)'
  BY NextTypeOK, NextFacts, NextWired, NextOnce
<1>3. TypeOK /\ Facts /\ Wired /\ Once => ExchangesStayApart
  <2> SUFFICES ASSUME TypeOK, Facts, Wired, Once, NEW n \in Nodes
      PROVE  /\ \A s \in Seqs :
                  Own(Proc_at(n, s)) /\ Proc_at(n, s).triggered => answered[<<n, Proc_at(n, s).trxn>>] = 1
             /\ \A v, w \in inProgress[n] : v.msg = w.msg => v = w
    BY DEF ExchangesStayApart
  <2>1. ASSUME NEW s \in Seqs, NEW p, p = Proc_at(n, s), Own(p), p.triggered
        PROVE  answered[<<n, p.trxn>>] = 1
    <3>1. <<n, p.trxn>> \in Names
      BY <2>1, ProcType DEF Own, Proc_at, TypeOK, Names
    <3>2. answered[<<n, p.trxn>>] > 0
      BY <2>1 DEF Once, OwnOK
    <3>3. answered[<<n, p.trxn>>] <= 1 /\ answered[<<n, p.trxn>>] \in Nat
      BY <3>1 DEF Wired, AnsweredAsked, TypeOK
    <3>4. QED
      BY <3>2, <3>3
  <2>2. \A v, w \in inProgress[n] : v.msg = w.msg => v = w
    BY DEF Wired, WorkOpen, Facts, WorkOK
  <2>3. QED
    BY <2>1, <2>2
<1>4. QED
  BY <1>1, <1>2, <1>3, PTL DEF Spec

\* A step of the stacks is a step of the service, or none.
LEMMA StepOfService ==
  ASSUME TypeOK, Facts, Wired, TypeOK', [Next]_vars
  PROVE  [Service!Next]_(Service!vars)
<1>1. PICK a : a = {r \in Names : copies[r] > 0}
  OBVIOUS
<1>2. ASSUME NEW n \in Nodes, NEW dst \in Nodes, NEW type \in Types, SendRequest(n, dst, type)
      PROVE  \E r \in Names : Service!Ask(r)
  <2>1. PICK t : t = NewTrxn(n)
    OBVIOUS
  <2>2. copies' = [copies EXCEPT ![<<n, t>>] = 1] /\ UNCHANGED <<executed, answered>>
    BY <1>2, <2>1 DEF SendRequest
  <2>3. <<n, t>> \in Names /\ ~(copies[<<n, t>>] > 0)
    BY <1>2, <2>1, NewTrxnUnused DEF SendRequest, Asked
  <2>4. {r \in Names : copies[r] > 0}' = {r \in Names : copies[r] > 0} \cup {<<n, t>>}
    <3>1. \A r \in Names : copies'[r] = IF r = <<n, t>> THEN 1 ELSE copies[r]
      BY <2>2 DEF TypeOK
    <3>2. QED
      BY <2>3, <3>1
  <2>5. Service!Ask(<<n, t>>)
    BY <2>2, <2>3, <2>4 DEF Service!Ask
  <2>6. QED
    BY <2>3, <2>5
<1> SUFFICES ASSUME OtherSteps, SameAsked PROVE [Service!Next]_(Service!vars)
  BY <1>2, OtherStepsAskNothing DEF Next, OtherSteps, Service!Next
<1>3. {r \in Names : copies[r] > 0}' = {r \in Names : copies[r] > 0}
  BY DEF SameAsked, Asked, Names
<1>4. ASSUME UNCHANGED <<executed, answered>>
      PROVE  UNCHANGED Service!vars
  BY <1>3, <1>4 DEF Service!vars
<1>5. ASSUME NEW m \in network, ReceiveNew(m.dst, m)
      PROVE  Service!Next
  <2>1. m \in Message /\ m.of \in Names /\ m.kind \in Kinds
    BY MessageType DEF TypeOK
  <2>2. CASE m.kind = "request"
    <3>1. executed' = [executed EXCEPT ![m.of] = @ + 1] /\ answered' = answered
      BY <1>5, <2>2 DEF ReceiveNew
    <3>2. copies[m.of] > 0
      BY DEF Facts, MailOK, IsRequest, IsResponse
    <3>3. Service!Execute(m.of)
      BY <1>3, <2>1, <3>1, <3>2 DEF Service!Execute
    <3>4. QED
      BY <2>1, <3>3 DEF Service!Next
  <2>3. CASE m.kind = "response"
    <3>1. answered' = [answered EXCEPT ![m.of] = @ + 1] /\ executed' = executed
      BY <1>5, <2>3 DEF ReceiveNew
    <3>2. answered[m.of] = 0 /\ executed[m.of] > 0
      BY <1>5, <2>3, NotYetAnswered DEF ReceiveNew
    <3>3. Service!Answer(m.of)
      BY <1>3, <2>1, <3>1, <3>2 DEF Service!Answer
    <3>4. QED
      BY <2>1, <3>3 DEF Service!Next
  <2>4. QED
    BY <2>1, <2>2, <2>3 DEF Kinds
<1>6. ASSUME NEW m \in network, ReceiveTriggered(m.dst, m)
      PROVE  [Service!Next]_(Service!vars)
  <2>1. m.of \in Names
    BY MessageType DEF TypeOK
  <2>2. /\ Busy(m.dst, m.seq) /\ ~Proc_at(m.dst, m.seq).triggered /\ m.kind = "response"
        /\ executed' = executed
        /\ answered' = IF Proc_at(m.dst, m.seq).trxn = m.of[2] /\ m.of[1] = m.dst
                         THEN [answered EXCEPT ![m.of] = @ + 1] ELSE answered
    BY <1>6 DEF ReceiveTriggered, check_response_type
  <2>3. CASE Proc_at(m.dst, m.seq).trxn = m.of[2] /\ m.of[1] = m.dst
    <3>1. answered[m.of] = 0 /\ executed[m.of] > 0
      BY <2>2, <2>3, NotYetAnswered
    <3>2. Service!Answer(m.of)
      BY <1>3, <2>1, <2>2, <2>3, <3>1 DEF Service!Answer
    <3>3. QED
      BY <2>1, <3>2 DEF Service!Next
  <2>4. CASE ~(Proc_at(m.dst, m.seq).trxn = m.of[2] /\ m.of[1] = m.dst)
    BY <1>4, <2>2, <2>4
  <2>5. QED
    BY <2>3, <2>4
<1>7. \/ UNCHANGED <<executed, answered>>
      \/ \E m \in network : ReceiveNew(m.dst, m) \/ ReceiveTriggered(m.dst, m)
  BY DEF OtherSteps, Receive, Discard, Lose, SendResponse, Expire,
         time_out_event, RetryTimeout, CleanupTimeout, StaleTimeout, vars, historyVars
<1>8. QED
  BY <1>4, <1>5, <1>6, <1>7

\* With the owners as they are, the stacks implement the service: whatever the network
\* loses, repeats or reorders, and even when the sequence numbers run out, a response
\* is handed up at most once for a request, and only after the peer has executed it.
THEOREM StacksImplementService ==
  ASSUME DispatchTimers = FALSE
  PROVE  Spec => ImplementsService
<1>1. Init => TypeOK /\ Facts /\ Wired
  BY InitTypeOK, InitFacts, InitWiredOnce
<1>2. TypeOK /\ Facts /\ Wired /\ [Next]_vars => (TypeOK /\ Facts /\ Wired)'
  BY NextTypeOK, NextFacts, NextWired
<1>3. Init => Service!Init
  <2> SUFFICES ASSUME Init PROVE Service!Init
    OBVIOUS
  <2>1. {r \in Names : copies[r] > 0} = {}
    BY DEF Init
  <2>2. QED
    BY <2>1 DEF Init, Service!Init
<1>4. TypeOK /\ Facts /\ Wired /\ [Next]_vars => [Service!Next]_(Service!vars)
  BY NextTypeOK, StepOfService
<1>5. QED
  BY <1>1, <1>2, <1>3, <1>4, PTL DEF Spec, ImplementsService, Service!Spec
=============================================================================
