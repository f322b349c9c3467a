------------------------ MODULE AmfConnectionsProofs ------------------------
(***************************************************************************)
(* Proofs about AmfConnections, for any UEs and bounds: types, that the     *)
(* implicit deregistration timeout always finds a context, that the end of  *)
(* a connection that a UE has left does not count it as lost, that what has *)
(* ended is forgotten, and that a UE is accepted on one connection only.    *)
(***************************************************************************)
EXTENDS AmfConnections, SequenceTheorems, TLAPS

USE BoundsAssumption

-----------------------------------------------------------------------------
(* Types.                                                                   *)

Whats == Requests \cup {"none", "complete", "identity", "deregister", "challenge",
                        "accept", "reject", "goodbye", "data", "identify",
                        "paging", "nas", "setup"}

MessagesOf(types) ==
    [type : types, ran : RanIds \cup {None}, amf : AmfIds \cup {None}, what : Whats,
     ue : UEs \cup {None}, tmsi : Tmsi \cup {None}]

N2Messages == MessagesOf({"initial", "uplink", "release request", "release complete",
                          "reset", "release command", "downlink", "setup", "paging"})
AppMessages == MessagesOf({"initial", "transfer"})
N1Messages == MessagesOf({"initial", "uplink", "transfer", "mobile", "implicit"})
SctpMessages == MessagesOf({"release command", "downlink", "setup", "paging"})

QueueTypes ==
    /\ n2_queue \in Seq(N2Messages) /\ app_queue \in Seq(AppMessages)
    /\ n1_queue \in Seq(N1Messages) /\ sctp \in Seq(SctpMessages)

NasContexts == [ue : UEs \cup {None}, cm : {"CM_IDLE", "CM_CONNECTED"},
                ran : RanIds \cup {None}, amf : AmfIds \cup {None},
                oldRan : RanIds \cup {None}, oldAmf : AmfIds \cup {None},
                unreachable : BOOLEAN, secured : BOOLEAN]
Connections == [ue : UEs \cup {None}, amf : AmfIds \cup {None}]

\* What TypeOK says of N2's tables, of those of APP and N1, and of the gNB and the UEs.
N2Types ==
    /\ ranid2uecontext \in
          [RanIds -> [known : BOOLEAN, amf : AmfIds \cup {None}, tmsi : Tmsi \cup {None}]]
    /\ amfueid2uecontext \subseteq 1..generated
AppTypes ==
    /\ ue_context \in [AmfIds -> [ran : RanIds \cup {None}, tmsi : Tmsi]]
    /\ generated \in AmfIds
N1Types ==
    /\ amfueid2nas_context \in [AmfIds -> Contexts \cup {None}]
    /\ supi2Id \in [UEs -> [ran : RanIds, amf : 1..generated]]
    /\ nas \in [Contexts -> NasContexts]
    /\ timers \subseteq {"mobile", "implicit"} \X AmfIds
RadioTypes ==
    /\ crashed \in BOOLEAN
    /\ gnb \in [RanIds -> Connections]
    /\ rrc \in [UEs -> RanIds \cup {None}] /\ guti \in [UEs -> Tmsi \cup {None}]
    /\ request \in [UEs -> [kind : Requests \cup {"none"}, waits : BOOLEAN]]
    /\ opened \in AmfIds
    /\ others \in 0..MaxEvents

Types == QueueTypes /\ N2Types /\ AppTypes /\ N1Types /\ RadioTypes

-----------------------------------------------------------------------------
(* What messages carry.                                                     *)

Ids == 1..generated

\* The RAN UE NGAP ID and the AMF UE NGAP ID of one connection are the same number.
Paired(m) == m.ran = m.amf /\ m.amf \in Ids

\* A first message is of a connection that has no AMF UE NGAP ID yet.
Fresh(m) == m.amf = None /\ m.ran \in (generated + 1)..opened /\ m.what \in Requests

\* A connection of which the release is complete stays free in the gNB.
N2Message(m) ==
    /\ m.type = "initial" => Fresh(m)
    /\ m.type \notin {"initial", "reset"} => Paired(m)
    /\ m.type = "release complete" => gnb[m.ran] = Free

AppMessage(m) ==
    /\ m.type = "initial" => Fresh(m)
    /\ m.type = "transfer" => m.ue \in UEs

N1Message(m) ==
    /\ m.type \notin {"mobile", "implicit"} => Paired(m)
    /\ m.type = "initial" => m.what \in Requests
    /\ m.type \in {"mobile", "implicit"} => m.amf \in Ids

AllMessages ==
    /\ \A i \in DOMAIN n2_queue : N2Message(n2_queue[i])
    /\ \A i \in DOMAIN app_queue : AppMessage(app_queue[i])
    /\ \A i \in DOMAIN n1_queue : N1Message(n1_queue[i])
    /\ \A i \in DOMAIN sctp : Paired(sctp[i])

Initials(q) == {i \in DOMAIN q : q[i].type = "initial"}

\* The first messages of all connections without an AMF UE NGAP ID are on their way,
\* in the order in which the connections were opened.
Order ==
    /\ generated <= opened
    /\ \A i, j \in Initials(n2_queue) : i < j => n2_queue[i].ran < n2_queue[j].ran
    /\ \A i, j \in Initials(app_queue) : i < j => app_queue[i].ran < app_queue[j].ran
    /\ \A i \in Initials(app_queue), j \in Initials(n2_queue) :
          app_queue[i].ran < n2_queue[j].ran
    /\ \A r \in (generated + 1)..opened :
          \/ \E i \in Initials(app_queue) : app_queue[i].ran = r
          \/ \E i \in Initials(n2_queue) : n2_queue[i].ran = r

\* The same of the tables.
OwnContext == \A a \in AmfIds : ue_context[a].ran = IF a <= generated THEN a ELSE None
OwnConnection == \A r \in RanIds : ranid2uecontext[r].amf \in {None, r}
OwnRadio == \A r \in RanIds : gnb[r].amf \in {None, r} /\ (gnb[r].amf # None => r <= generated)
OwnIds == \A u \in UEs : supi2Id[u].ran = supi2Id[u].amf
OwnNas == \A c \in Contexts : nas[c].ran = nas[c].amf /\ nas[c].amf \in Ids \cup {None}

Own == OwnContext /\ OwnConnection /\ OwnRadio /\ OwnIds /\ OwnNas

-----------------------------------------------------------------------------
(* The timers.                                                              *)

Watched(kind, a) ==
    \/ <<kind, a>> \in timers
    \/ \E i \in DOMAIN n1_queue : n1_queue[i].type = kind /\ n1_queue[i].amf = a

Deregisters(m, a) == m.type = "uplink" /\ m.what = "deregister" /\ m.amf = a

\* A timer is about a connection that N2 has forgotten.
WatchedIsGone == \A a \in AmfIds : Watched("mobile", a) \/ Watched("implicit", a) =>
    a <= generated /\ ~ranid2uecontext[a].known

\* Nothing that was sent on it before can still end the context.
WatchedIsKept == \A a \in AmfIds : Watched("implicit", a) =>
    /\ amfueid2nas_context[a] # None
    /\ \A j \in DOMAIN n1_queue : ~Deregisters(n1_queue[j], a)

\* What is still to be taken from the queue was put there before the timeout.
DeregisteredBefore == \A i, j \in DOMAIN n1_queue : n1_queue[i].type = "mobile" =>
    (Deregisters(n1_queue[j], n1_queue[i].amf) => j < i)

Watch == WatchedIsGone /\ WatchedIsKept /\ DeregisteredBefore

\* The context of a UE's last connection has that connection.
Current == \A a \in AmfIds :
    LET c == amfueid2nas_context[a]
    IN  c # None /\ nas[c].ue # None /\ supi2Id[nas[c].ue].amf = a => nas[c].amf = a

Inv == Types /\ AllMessages /\ Order /\ Own /\ Watch /\ Current

-----------------------------------------------------------------------------
(* Queues.                                                                  *)

\* What is left when the first message is taken.
LEMMA Taking ==
  ASSUME NEW S, NEW q \in Seq(S), q # <<>>
  PROVE  /\ Tail(q) \in Seq(S) /\ Len(q) \in Nat \ {0} /\ Len(Tail(q)) = Len(q) - 1
         /\ \A i \in DOMAIN Tail(q) : i + 1 \in DOMAIN q /\ Tail(q)[i] = q[i + 1]
         /\ 1 \in DOMAIN q /\ Head(q) = q[1] /\ q[1] \in S
OBVIOUS

\* What there is when one is put at the end.
LEMMA Putting ==
  ASSUME NEW S, NEW q \in Seq(S), NEW m \in S
  PROVE  /\ Append(q, m) \in Seq(S) /\ Len(q) \in Nat /\ Len(Append(q, m)) = Len(q) + 1
         /\ \A i \in DOMAIN Append(q, m) :
              Append(q, m)[i] = IF i <= Len(q) THEN q[i] ELSE m
OBVIOUS

\* A queue's messages: all but the first d, and new ones, which are of M.
Moves(q, r, d, M) ==
    /\ d \in {0, 1} /\ d <= Len(q) /\ Len(r) >= Len(q) - d
    /\ \A i \in DOMAIN r : IF i + d <= Len(q) THEN r[i] = q[i + d] ELSE r[i] \in M

\* A queue is left alone.
LEMMA MovesSame ==
  ASSUME NEW S, NEW q \in Seq(S), NEW M
  PROVE  Moves(q, q, 0, M)
BY DEF Moves

\* A message is taken.
LEMMA MovesTail ==
  ASSUME NEW S, NEW q \in Seq(S), q # <<>>, NEW M
  PROVE  Tail(q) \in Seq(S) /\ Moves(q, Tail(q), 1, M)
BY Taking DEF Moves

\* A message is put.
LEMMA MovesAppend ==
  ASSUME NEW S, NEW q \in Seq(S), NEW M, NEW m \in S \cap M
  PROVE  Append(q, m) \in Seq(S) /\ Moves(q, Append(q, m), 0, M)
BY Putting DEF Moves

\* Several messages are put.
LEMMA MovesConcat ==
  ASSUME NEW S, NEW q \in Seq(S), NEW M, NEW r \in Seq(S \cap M)
  PROVE  q \o r \in Seq(S) /\ Moves(q, q \o r, 0, M)
<1>1. r \in Seq(S)
  OBVIOUS
<1>2. /\ q \o r \in Seq(S)
      /\ Len(q \o r) = Len(q) + Len(r)
      /\ \A i \in 1..(Len(q) + Len(r)) : (q \o r)[i] = IF i <= Len(q) THEN q[i] ELSE r[i - Len(q)]
  BY <1>1, ConcatProperties
<1>3. /\ Len(q) \in Nat /\ Len(r) \in Nat /\ DOMAIN (q \o r) = 1..(Len(q) + Len(r))
      /\ \A i \in 1..Len(r) : r[i] \in M
  BY <1>1, <1>2
<1>4. QED
  BY <1>2, <1>3 DEF Moves

\* New messages are such as the tables after the step allow; first messages of
\* connections are treated apart.
NewN2 == {m \in N2Messages : m.type # "initial" /\ N2Message(m)'}
NewApp == {m \in AppMessages : m.type # "initial" /\ AppMessage(m)'}
NewN1 == {m \in N1Messages : N1Message(m)'}
NewSctp == {m \in SctpMessages : Paired(m)'}

\* No first message of a connection leaves the queue.
KeepsFirst(q, d) == d = 1 => q[1].type # "initial"

N2Moves == /\ n2_queue' \in Seq(N2Messages)
           /\ \E d \in {0, 1} : Moves(n2_queue, n2_queue', d, NewN2) /\ KeepsFirst(n2_queue, d)
AppMoves == /\ app_queue' \in Seq(AppMessages)
            /\ \E d \in {0, 1} : Moves(app_queue, app_queue', d, NewApp) /\ KeepsFirst(app_queue, d)
N1Moves == /\ n1_queue' \in Seq(N1Messages)
           /\ \E d \in {0, 1} : Moves(n1_queue, n1_queue', d, NewN1)
SctpMoves == /\ sctp' \in Seq(SctpMessages)
             /\ \E d \in {0, 1} : Moves(sctp, sctp', d, NewSctp)

\* What the gNB has given up stays so.
FreeStays == \A r \in RanIds : gnb[r] = Free => gnb'[r] = Free

\* A number between 1 and generated is an id.
LEMMA IdsAreAmfIds ==
  ASSUME Types
  PROVE  /\ generated \in Nat /\ opened \in Nat /\ Ids \subseteq AmfIds /\ Ids \subseteq RanIds
         /\ None \notin Ids /\ AmfIds \subseteq Nat /\ RanIds = AmfIds /\ Contexts = AmfIds
         /\ None \notin AmfIds
BY DEF Types, AppTypes, RadioTypes, Ids, AmfIds, RanIds, None, Contexts

\* Messages that stay valid: those of N2.
LEMMA N2MessagesKept ==
  ASSUME Types, \A i \in DOMAIN n2_queue : N2Message(n2_queue[i]), N2Moves,
         UNCHANGED <<generated, opened>>, FreeStays
  PROVE  \A i \in DOMAIN n2_queue' : N2Message(n2_queue[i])'
<1> SUFFICES ASSUME NEW i \in DOMAIN n2_queue' PROVE N2Message(n2_queue[i])'
  OBVIOUS
<1>1. PICK d \in {0, 1} : Moves(n2_queue, n2_queue', d, NewN2)
  BY DEF N2Moves
<1>2. PICK m : m = n2_queue'[i]
  OBVIOUS
<1>3. CASE m \in NewN2
  <2>1. N2Message(m)'
    BY <1>3 DEF NewN2
  <2>2. QED
    BY <1>2, <2>1 DEF N2Message, Fresh, Paired, Ids
<1>4. CASE i + d <= Len(n2_queue) /\ m = n2_queue[i + d]
  <2>1. i + d \in DOMAIN n2_queue
    BY <1>4 DEF N2Moves, Types, QueueTypes
  <2>2. N2Message(m)
    BY <1>4, <2>1
  <2>3. m.type = "release complete" => m.ran \in RanIds
    BY <2>2, IdsAreAmfIds DEF N2Message, Paired
  <2>4. N2Message(m)'
    <3>1. m.type = "initial" => Fresh(m)'
      BY <2>2 DEF N2Message, Fresh
    <3>2. m.type \notin {"initial", "reset"} => Paired(m)'
      BY <2>2 DEF N2Message, Paired, Ids
    <3>3. m.type = "release complete" => gnb'[m.ran] = Free'
      BY <2>2, <2>3 DEF N2Message, FreeStays, Free
    <3>4. QED
      BY <3>1, <3>2, <3>3 DEF N2Message
  <2>5. QED
    BY <1>2, <2>4 DEF N2Message, Fresh, Paired, Ids
<1>5. QED
  BY <1>1, <1>2, <1>3, <1>4 DEF Moves

\* Those of the others.
LEMMA OtherMessagesKept ==
  ASSUME Types, AllMessages, AppMoves, N1Moves, SctpMoves, UNCHANGED <<generated, opened>>
  PROVE  /\ \A i \in DOMAIN app_queue' : AppMessage(app_queue[i])'
         /\ \A i \in DOMAIN n1_queue' : N1Message(n1_queue[i])'
         /\ \A i \in DOMAIN sctp' : Paired(sctp[i])'
<1>1. ASSUME NEW i \in DOMAIN app_queue' PROVE AppMessage(app_queue[i])'
  <2>1. PICK d \in {0, 1} : Moves(app_queue, app_queue', d, NewApp)
    BY DEF AppMoves
  <2>2. PICK m : m = app_queue'[i]
    OBVIOUS
  <2>3. CASE m \in NewApp
    <3>1. AppMessage(m)'
      BY <2>3 DEF NewApp
    <3>2. QED
      BY <2>2, <3>1 DEF AppMessage, Fresh
  <2>4. CASE i + d <= Len(app_queue) /\ m = app_queue[i + d]
    <3>1. i + d \in DOMAIN app_queue
      BY <2>4 DEF AppMoves, Types, QueueTypes
    <3>2. AppMessage(m)
      BY <2>4, <3>1 DEF AllMessages
    <3>3. AppMessage(m)'
      BY <3>2 DEF AppMessage, Fresh
    <3>4. QED
      BY <2>2, <3>3 DEF AppMessage, Fresh
  <2>5. QED
    BY <2>1, <2>2, <2>3, <2>4 DEF Moves
<1>2. ASSUME NEW i \in DOMAIN n1_queue' PROVE N1Message(n1_queue[i])'
  <2>1. PICK d \in {0, 1} : Moves(n1_queue, n1_queue', d, NewN1)
    BY DEF N1Moves
  <2>2. PICK m : m = n1_queue'[i]
    OBVIOUS
  <2>3. CASE m \in NewN1
    <3>1. N1Message(m)'
      BY <2>3 DEF NewN1
    <3>2. QED
      BY <2>2, <3>1 DEF N1Message, Paired, Ids
  <2>4. CASE i + d <= Len(n1_queue) /\ m = n1_queue[i + d]
    <3>1. i + d \in DOMAIN n1_queue
      BY <2>4 DEF N1Moves, Types, QueueTypes
    <3>2. N1Message(m)
      BY <2>4, <3>1 DEF AllMessages
    <3>3. N1Message(m)'
      BY <3>2 DEF N1Message, Paired, Ids
    <3>4. QED
      BY <2>2, <3>3 DEF N1Message, Paired, Ids
  <2>5. QED
    BY <2>1, <2>2, <2>3, <2>4 DEF Moves
<1>3. ASSUME NEW i \in DOMAIN sctp' PROVE Paired(sctp[i])'
  <2>1. PICK d \in {0, 1} : Moves(sctp, sctp', d, NewSctp)
    BY DEF SctpMoves
  <2>2. PICK m : m = sctp'[i]
    OBVIOUS
  <2>3. CASE m \in NewSctp
    <3>1. Paired(m)'
      BY <2>3 DEF NewSctp
    <3>2. QED
      BY <2>2, <3>1 DEF Paired, Ids
  <2>4. CASE i + d <= Len(sctp) /\ m = sctp[i + d]
    <3>1. i + d \in DOMAIN sctp
      BY <2>4 DEF SctpMoves, Types, QueueTypes
    <3>2. Paired(m)
      BY <2>4, <3>1 DEF AllMessages
    <3>3. Paired(m)'
      BY <3>2 DEF Paired, Ids
    <3>4. QED
      BY <2>2, <3>3 DEF Paired, Ids
  <2>5. QED
    BY <2>1, <2>2, <2>3, <2>4 DEF Moves
<1>4. QED
  BY <1>1, <1>2, <1>3

\* A queue that moves and gets no first message has the ones it had, in their order.
LEMMA InitialsKept ==
  ASSUME NEW S, NEW q \in Seq(S), NEW r \in Seq(S), NEW d \in {0, 1}, NEW M,
         Moves(q, r, d, M), KeepsFirst(q, d), \A m \in M : m.type # "initial"
  PROVE  /\ \A i \in Initials(r) : i + d \in Initials(q) /\ r[i] = q[i + d]
         /\ \A j \in Initials(q) : j - d \in Initials(r) /\ r[j - d] = q[j]
<1>1. Len(q) \in Nat /\ Len(r) \in Nat /\ DOMAIN q = 1..Len(q) /\ DOMAIN r = 1..Len(r)
  OBVIOUS
<1>2. ASSUME NEW i \in Initials(r) PROVE i + d \in Initials(q) /\ r[i] = q[i + d]
  BY <1>1 DEF Initials, Moves
<1>3. ASSUME NEW j \in Initials(q) PROVE j - d \in Initials(r) /\ r[j - d] = q[j]
  <2>1. j \in 1..Len(q) /\ q[j].type = "initial" /\ j - d \in Nat /\ j - d # 0
    BY <1>1 DEF Initials, KeepsFirst
  <2>2. j - d \in DOMAIN r /\ j - d + d = j
    BY <1>1, <2>1 DEF Moves
  <2>3. r[j - d] = q[j]
    BY <1>1, <2>1, <2>2, SMTT(30) DEF Moves
  <2>4. QED
    BY <2>1, <2>2, <2>3 DEF Initials
<1>4. QED
  BY <1>2, <1>3

\* So the first messages keep their order.
LEMMA OrderKept ==
  ASSUME Types, Order, N2Moves, AppMoves, UNCHANGED <<generated, opened>>
  PROVE  Order'
<1>1. PICK d \in {0, 1} :
        /\ \A i \in Initials(n2_queue') : i + d \in Initials(n2_queue) /\ n2_queue'[i] = n2_queue[i + d]
        /\ \A j \in Initials(n2_queue) : j - d \in Initials(n2_queue') /\ n2_queue'[j - d] = n2_queue[j]
  <2>1. PICK d \in {0, 1} : Moves(n2_queue, n2_queue', d, NewN2) /\ KeepsFirst(n2_queue, d)
    BY DEF N2Moves
  <2>2. \A m \in NewN2 : m.type # "initial"
    BY DEF NewN2
  <2>3. n2_queue \in Seq(N2Messages) /\ n2_queue' \in Seq(N2Messages)
    BY DEF N2Moves, Types, QueueTypes
  <2>4. QED
    BY <2>1, <2>2, <2>3, InitialsKept
<1>2. PICK e \in {0, 1} :
        /\ \A i \in Initials(app_queue') : i + e \in Initials(app_queue) /\ app_queue'[i] = app_queue[i + e]
        /\ \A j \in Initials(app_queue) : j - e \in Initials(app_queue') /\ app_queue'[j - e] = app_queue[j]
  <2>1. PICK e \in {0, 1} : Moves(app_queue, app_queue', e, NewApp) /\ KeepsFirst(app_queue, e)
    BY DEF AppMoves
  <2>2. \A m \in NewApp : m.type # "initial"
    BY DEF NewApp
  <2>3. app_queue \in Seq(AppMessages) /\ app_queue' \in Seq(AppMessages)
    BY DEF AppMoves, Types, QueueTypes
  <2>4. QED
    BY <2>1, <2>2, <2>3, InitialsKept
<1>3. Initials(n2_queue') \subseteq Nat /\ Initials(app_queue') \subseteq Nat
  BY DEF Initials, N2Moves, AppMoves
<1>4. /\ \A i, j \in Initials(n2_queue') : i < j => n2_queue'[i].ran < n2_queue'[j].ran
      /\ \A i, j \in Initials(app_queue') : i < j => app_queue'[i].ran < app_queue'[j].ran
      /\ \A i \in Initials(app_queue'), j \in Initials(n2_queue') :
            app_queue'[i].ran < n2_queue'[j].ran
  <2>1. \A i, j \in Initials(n2_queue') : i < j => n2_queue'[i].ran < n2_queue'[j].ran
    BY <1>1, <1>3 DEF Order
  <2>2. \A i, j \in Initials(app_queue') : i < j => app_queue'[i].ran < app_queue'[j].ran
    BY <1>2, <1>3 DEF Order
  <2>3. \A i \in Initials(app_queue'), j \in Initials(n2_queue') :
            app_queue'[i].ran < n2_queue'[j].ran
    BY <1>1, <1>2 DEF Order
  <2>4. QED
    BY <2>1, <2>2, <2>3
<1>5. \A r \in (generated + 1)..opened :
        \/ \E i \in Initials(app_queue') : app_queue'[i].ran = r
        \/ \E i \in Initials(n2_queue') : n2_queue'[i].ran = r
  BY <1>1, <1>2 DEF Order
<1>6. Initials(n2_queue)' = Initials(n2_queue') /\ Initials(app_queue)' = Initials(app_queue')
  BY DEF Initials
<1>7. QED
  BY <1>4, <1>5, <1>6 DEF Order

-----------------------------------------------------------------------------
(* How an action moves the queues.                                          *)

\* A message of given parts.
LEMMA MessageParts ==
  ASSUME NEW types, NEW type \in types, NEW ran \in RanIds \cup {None}, NEW amf \in AmfIds \cup {None},
         NEW what \in Whats, NEW ue \in UEs \cup {None}, NEW tmsi \in Tmsi \cup {None}
  PROVE  /\ Message(type, ran, amf, what, ue, tmsi) \in MessagesOf(types)
         /\ Message(type, ran, amf, what, ue, tmsi).type = type
         /\ Message(type, ran, amf, what, ue, tmsi).ran = ran
         /\ Message(type, ran, amf, what, ue, tmsi).amf = amf
         /\ Message(type, ran, amf, what, ue, tmsi).what = what
         /\ Message(type, ran, amf, what, ue, tmsi).ue = ue
         /\ Message(type, ran, amf, what, ue, tmsi).tmsi = tmsi
BY DEF Message, MessagesOf

\* One that is of no UE.
LEMMA NgapParts ==
  ASSUME NEW types, NEW type \in types, NEW ran \in RanIds \cup {None}, NEW amf \in AmfIds \cup {None}
  PROVE  /\ Ngap(type, ran, amf) \in MessagesOf(types)
         /\ Ngap(type, ran, amf).type = type
         /\ Ngap(type, ran, amf).ran = ran
         /\ Ngap(type, ran, amf).amf = amf
         /\ Ngap(type, ran, amf).what = "none"
<1>1. "none" \in Whats /\ None \in UEs \cup {None} /\ None \in Tmsi \cup {None}
  BY DEF Whats
<1>2. QED
  BY <1>1 DEF Ngap, Message, MessagesOf

\* A first message apart, what N1 gets is of no timer and ends no context.
QuietN1 == {m \in NewN1 : m.type \notin {"mobile", "implicit"}
                          /\ (m.type = "uplink" => m.what # "deregister")}

N1Quiet == /\ n1_queue' \in Seq(N1Messages)
           /\ \E d \in {0, 1} : Moves(n1_queue, n1_queue', d, QuietN1)

\* What the queue of N2 may do in one step.
LEMMA N2Steps ==
  ASSUME Types
  PROVE  /\ UNCHANGED n2_queue => N2Moves
         /\ n2_queue # <<>> /\ Head(n2_queue).type # "initial" /\ n2_queue' = Tail(n2_queue) => N2Moves
         /\ \A m \in NewN2 : n2_queue' = Append(n2_queue, m) => N2Moves
         /\ \A r \in Seq(NewN2) : n2_queue' = n2_queue \o r => N2Moves
<1>1. n2_queue \in Seq(N2Messages)
  BY DEF Types, QueueTypes
<1>2. UNCHANGED n2_queue => N2Moves
  BY <1>1, MovesSame DEF N2Moves, KeepsFirst
<1>3. n2_queue # <<>> /\ Head(n2_queue).type # "initial" /\ n2_queue' = Tail(n2_queue) => N2Moves
  BY <1>1, MovesTail, Taking DEF N2Moves, KeepsFirst
<1>4. ASSUME NEW m \in NewN2, n2_queue' = Append(n2_queue, m) PROVE N2Moves
  <2>1. m \in N2Messages \cap NewN2
    BY DEF NewN2
  <2>2. QED
    BY <1>1, <1>4, <2>1, MovesAppend DEF N2Moves, KeepsFirst
<1>5. ASSUME NEW r \in Seq(NewN2), n2_queue' = n2_queue \o r PROVE N2Moves
  <2>1. N2Messages \cap NewN2 = NewN2
    BY DEF NewN2
  <2>2. r \in Seq(N2Messages \cap NewN2)
    BY <2>1
  <2>3. n2_queue \o r \in Seq(N2Messages) /\ Moves(n2_queue, n2_queue \o r, 0, NewN2)
    BY <1>1, <2>2, MovesConcat
  <2>4. QED
    BY <1>5, <2>3 DEF N2Moves, KeepsFirst
<1>6. QED
  BY <1>2, <1>3, <1>4, <1>5

\* The queue of APP.
LEMMA AppSteps ==
  ASSUME Types
  PROVE  /\ UNCHANGED app_queue => AppMoves
         /\ app_queue # <<>> /\ Head(app_queue).type # "initial" /\ app_queue' = Tail(app_queue) => AppMoves
         /\ \A m \in NewApp : app_queue' = Append(app_queue, m) => AppMoves
<1>1. app_queue \in Seq(AppMessages)
  BY DEF Types, QueueTypes
<1>2. UNCHANGED app_queue => AppMoves
  BY <1>1, MovesSame DEF AppMoves, KeepsFirst
<1>3. app_queue # <<>> /\ Head(app_queue).type # "initial" /\ app_queue' = Tail(app_queue) => AppMoves
  BY <1>1, MovesTail, Taking DEF AppMoves, KeepsFirst
<1>4. ASSUME NEW m \in NewApp, app_queue' = Append(app_queue, m) PROVE AppMoves
  <2>1. m \in AppMessages \cap NewApp
    BY DEF NewApp
  <2>2. QED
    BY <1>1, <1>4, <2>1, MovesAppend DEF AppMoves, KeepsFirst
<1>5. QED
  BY <1>2, <1>3, <1>4

\* The queue of N1.
LEMMA N1Steps ==
  ASSUME Types
  PROVE  /\ UNCHANGED n1_queue => N1Quiet
         /\ n1_queue # <<>> /\ n1_queue' = Tail(n1_queue) => N1Quiet
         /\ \A m \in QuietN1 : n1_queue' = Append(n1_queue, m) => N1Quiet
         /\ \A m \in NewN1 : n1_queue' = Append(n1_queue, m) => N1Moves
         /\ N1Quiet => N1Moves
<1>1. n1_queue \in Seq(N1Messages)
  BY DEF Types, QueueTypes
<1>2. UNCHANGED n1_queue => N1Quiet
  BY <1>1, MovesSame DEF N1Quiet
<1>3. n1_queue # <<>> /\ n1_queue' = Tail(n1_queue) => N1Quiet
  BY <1>1, MovesTail, Taking DEF N1Quiet
<1>4. ASSUME NEW m \in QuietN1, n1_queue' = Append(n1_queue, m) PROVE N1Quiet
  <2>1. m \in N1Messages \cap QuietN1
    BY DEF QuietN1, NewN1
  <2>2. QED
    BY <1>1, <1>4, <2>1, MovesAppend DEF N1Quiet
<1>5. ASSUME NEW m \in NewN1, n1_queue' = Append(n1_queue, m) PROVE N1Moves
  <2>1. m \in N1Messages \cap NewN1
    BY DEF NewN1
  <2>2. QED
    BY <1>1, <1>5, <2>1, MovesAppend DEF N1Moves
<1>6. N1Quiet => N1Moves
  BY DEF N1Quiet, N1Moves, Moves, QuietN1
<1>7. QED
  BY <1>2, <1>3, <1>4, <1>5, <1>6

\* What goes to the gNB.
LEMMA SctpSteps ==
  ASSUME Types
  PROVE  /\ UNCHANGED sctp => SctpMoves
         /\ sctp # <<>> /\ sctp' = Tail(sctp) => SctpMoves
         /\ \A m \in NewSctp : sctp' = Append(sctp, m) => SctpMoves
<1>1. sctp \in Seq(SctpMessages)
  BY DEF Types, QueueTypes
<1>2. UNCHANGED sctp => SctpMoves
  BY <1>1, MovesSame DEF SctpMoves
<1>3. sctp # <<>> /\ sctp' = Tail(sctp) => SctpMoves
  BY <1>1, MovesTail, Taking DEF SctpMoves
<1>4. ASSUME NEW m \in NewSctp, sctp' = Append(sctp, m) PROVE SctpMoves
  <2>1. m \in SctpMessages \cap NewSctp
    BY DEF NewSctp
  <2>2. QED
    BY <1>1, <1>4, <2>1, MovesAppend DEF SctpMoves
<1>5. QED
  BY <1>2, <1>3, <1>4

\* All queues move, and no connection is opened or given an id.
LEMMA QueuesKept ==
  ASSUME Inv, N2Moves, AppMoves, N1Moves, SctpMoves, UNCHANGED <<generated, opened>>, FreeStays
  PROVE  QueueTypes' /\ AllMessages' /\ Order'
<1>1. Types /\ AllMessages /\ Order
  BY DEF Inv
<1>2. QueueTypes'
  BY DEF QueueTypes, N2Moves, AppMoves, N1Moves, SctpMoves
<1>3. Order'
  BY <1>1, OrderKept
<1>4. AllMessages'
  BY <1>1, N2MessagesKept, OtherMessagesKept DEF AllMessages
<1>5. QED
  BY <1>2, <1>3, <1>4

\* No timer is set or runs out, and no watched connection or context comes or goes.
LEMMA WatchMoves ==
  ASSUME Inv, N1Quiet, generated \in Nat, generated' \in Nat, generated' >= generated, timers' \subseteq timers,
         \A a \in AmfIds : Watched("mobile", a) \/ Watched("implicit", a) =>
            (~ranid2uecontext[a].known => ~ranid2uecontext'[a].known),
         \A a \in AmfIds : Watched("implicit", a) =>
            (amfueid2nas_context[a] # None => amfueid2nas_context'[a] # None)
  PROVE  Watch'
<1>1. PICK d \in {0, 1} : Moves(n1_queue, n1_queue', d, QuietN1)
  BY DEF N1Quiet
<1>2. \A i \in DOMAIN n1_queue' :
        \/ i + d \in DOMAIN n1_queue /\ n1_queue'[i] = n1_queue[i + d]
        \/ /\ i + d > Len(n1_queue) /\ n1_queue'[i].type \notin {"mobile", "implicit"}
           /\ n1_queue'[i].type = "uplink" => n1_queue'[i].what # "deregister"
  <2>1. Len(n1_queue) \in Nat /\ DOMAIN n1_queue = 1..Len(n1_queue) /\ DOMAIN n1_queue' \subseteq Nat \ {0}
    BY DEF N1Quiet, Inv, Types, QueueTypes
  <2>2. QED
    BY <1>1, <2>1 DEF Moves, QuietN1
<1>3. \A kind \in {"mobile", "implicit"} : \A a : Watched(kind, a)' => Watched(kind, a)
  BY <1>2 DEF Watched
<1>4. WatchedIsGone'
  <2> SUFFICES ASSUME NEW a \in AmfIds, Watched("mobile", a)' \/ Watched("implicit", a)'
               PROVE  a <= generated' /\ ~ranid2uecontext'[a].known
    BY DEF WatchedIsGone
  <2>1. Watched("mobile", a) \/ Watched("implicit", a)
    BY <1>3
  <2>2. a <= generated /\ ~ranid2uecontext[a].known
    BY <2>1 DEF WatchedIsGone, Inv, Watch
  <2>3. QED
    BY <2>1, <2>2 DEF AmfIds
<1>5. \A a, j : j \in DOMAIN n1_queue' /\ Deregisters(n1_queue[j], a)' =>
        j + d \in DOMAIN n1_queue /\ Deregisters(n1_queue[j + d], a)
  BY <1>2 DEF Deregisters
<1>6. WatchedIsKept'
  <2> SUFFICES ASSUME NEW a \in AmfIds, Watched("implicit", a)'
               PROVE  /\ amfueid2nas_context'[a] # None
                      /\ \A j \in DOMAIN n1_queue' : ~Deregisters(n1_queue[j], a)'
    BY DEF WatchedIsKept, None
  <2>1. Watched("implicit", a)
    BY <1>3
  <2>2. QED
    BY <1>5, <2>1 DEF WatchedIsKept, Inv, Watch
<1>7. DeregisteredBefore'
  <2> SUFFICES ASSUME NEW i \in DOMAIN n1_queue', NEW j \in DOMAIN n1_queue',
                      n1_queue'[i].type = "mobile", Deregisters(n1_queue[j], n1_queue[i].amf)'
               PROVE  j < i
    BY DEF DeregisteredBefore
  <2>1. i + d \in DOMAIN n1_queue /\ n1_queue'[i] = n1_queue[i + d]
    BY <1>2
  <2>2. j + d \in DOMAIN n1_queue /\ Deregisters(n1_queue[j + d], n1_queue[i + d].amf)
    BY <1>5, <2>1, <1>2 DEF Deregisters
  <2>3. j + d < i + d
    BY <2>1, <2>2 DEF Inv, Watch, DeregisteredBefore
  <2>4. i \in Nat /\ j \in Nat
    BY DEF N1Quiet
  <2>5. QED
    BY <2>3, <2>4
<1>8. QED
  BY <1>4, <1>6, <1>7 DEF Watch

\* The same when no id is given either.
LEMMA WatchKept ==
  ASSUME Inv, N1Quiet, UNCHANGED generated, timers' \subseteq timers,
         \A a \in AmfIds : Watched("mobile", a) \/ Watched("implicit", a) =>
            (~ranid2uecontext[a].known => ~ranid2uecontext'[a].known),
         \A a \in AmfIds : Watched("implicit", a) =>
            (amfueid2nas_context[a] # None => amfueid2nas_context'[a] # None)
  PROVE  Watch'
<1>1. generated \in Nat /\ generated' = generated
  BY IdsAreAmfIds DEF Inv
<1>2. generated' \in Nat /\ generated' >= generated
  BY <1>1
<1>3. QED
  BY <1>1, <1>2, WatchMoves

\* Nothing that the invariant says of the contexts changes.
LEMMA CurrentKept ==
  ASSUME Inv, UNCHANGED <<supi2Id, nas>>,
         \A a \in AmfIds : amfueid2nas_context'[a] \in {None, amfueid2nas_context[a]}
  PROVE  Current'
BY DEF Inv, Current

\* A message at the head of N2's queue.
LEMMA N2Head ==
  ASSUME Inv, NEW type, Takes(n2_queue, type)
  PROVE  /\ n2_queue # <<>> /\ Head(n2_queue) \in N2Messages /\ Head(n2_queue).type = type
         /\ N2Message(Head(n2_queue))
<1>1. n2_queue \in Seq(N2Messages) /\ n2_queue # <<>> /\ Head(n2_queue).type = type
  BY DEF Inv, Types, QueueTypes, Takes
<1>2. 1 \in DOMAIN n2_queue /\ Head(n2_queue) = n2_queue[1] /\ n2_queue[1] \in N2Messages
  BY <1>1, Taking
<1>3. N2Message(n2_queue[1])
  BY <1>2 DEF Inv, AllMessages
<1>4. QED
  BY <1>1, <1>2, <1>3

\* At the head of APP's.
LEMMA AppHead ==
  ASSUME Inv, NEW type, Takes(app_queue, type)
  PROVE  /\ app_queue # <<>> /\ Head(app_queue) \in AppMessages /\ Head(app_queue).type = type
         /\ AppMessage(Head(app_queue)) /\ Head(app_queue) = app_queue[1] /\ 1 \in DOMAIN app_queue
<1>1. app_queue \in Seq(AppMessages) /\ app_queue # <<>> /\ Head(app_queue).type = type
  BY DEF Inv, Types, QueueTypes, Takes
<1>2. 1 \in DOMAIN app_queue /\ Head(app_queue) = app_queue[1] /\ app_queue[1] \in AppMessages
  BY <1>1, Taking
<1>3. AppMessage(app_queue[1])
  BY <1>2 DEF Inv, AllMessages
<1>4. QED
  BY <1>1, <1>2, <1>3

\* At the head of N1's.
LEMMA N1Head ==
  ASSUME Inv, NEW type, Takes(n1_queue, type)
  PROVE  /\ n1_queue # <<>> /\ Head(n1_queue) \in N1Messages /\ Head(n1_queue).type = type
         /\ N1Message(Head(n1_queue)) /\ Head(n1_queue) = n1_queue[1] /\ 1 \in DOMAIN n1_queue
<1>1. n1_queue \in Seq(N1Messages) /\ n1_queue # <<>> /\ Head(n1_queue).type = type
  BY DEF Inv, Types, QueueTypes, Takes
<1>2. 1 \in DOMAIN n1_queue /\ Head(n1_queue) = n1_queue[1] /\ n1_queue[1] \in N1Messages
  BY <1>1, Taking
<1>3. N1Message(n1_queue[1])
  BY <1>2 DEF Inv, AllMessages
<1>4. QED
  BY <1>1, <1>2, <1>3

\* At the head of what goes to the gNB.
LEMMA SctpHead ==
  ASSUME Inv, sctp # <<>>
  PROVE  Head(sctp) \in SctpMessages /\ Paired(Head(sctp))
<1>1. sctp \in Seq(SctpMessages)
  BY DEF Inv, Types, QueueTypes
<1>2. 1 \in DOMAIN sctp /\ Head(sctp) = sctp[1] /\ sctp[1] \in SctpMessages
  BY <1>1, Taking
<1>3. Paired(sctp[1])
  BY <1>2 DEF Inv, AllMessages
<1>4. QED
  BY <1>2, <1>3

-----------------------------------------------------------------------------
(* The UEs and the gNB.                                                     *)

\* The AMF's tables, timers and its queues to N1 are left alone.
LEMMA AmfKept ==
  ASSUME Inv, UNCHANGED <<n1_queue, n2, app, n1>>
  PROVE  /\ N2Types' /\ AppTypes' /\ N1Types' /\ Watch' /\ Current'
         /\ OwnContext' /\ OwnConnection' /\ OwnIds' /\ OwnNas'
<1>1. UNCHANGED <<n1_queue, ranid2uecontext, amfueid2uecontext, ue_context, generated,
                  amfueid2nas_context, supi2Id, nas, timers>>
  BY DEF n2, app, n1
<1>2. N2Types' /\ AppTypes' /\ N1Types'
  BY <1>1 DEF Inv, Types, N2Types, AppTypes, N1Types
<1>3. Watch'
  <2>1. N1Quiet
    BY <1>1, N1Steps DEF Inv
  <2>2. QED
    BY <1>1, <2>1, WatchKept
<1>4. Current'
  BY <1>1 DEF Inv, Current
<1>5. OwnContext' /\ OwnConnection' /\ OwnIds' /\ OwnNas'
  BY <1>1 DEF Inv, Own, OwnContext, OwnConnection, OwnIds, OwnNas, Ids
<1>6. QED
  BY <1>2, <1>3, <1>4, <1>5

\* The gNB and the UEs are left alone.
LEMMA RadioKept ==
  ASSUME Inv, UNCHANGED radio, generated' \in Nat, generated' >= generated, others' \in 0..MaxEvents, crashed' \in BOOLEAN
  PROVE  RadioTypes' /\ OwnRadio' /\ FreeStays /\ UNCHANGED opened
<1>1. UNCHANGED <<gnb, rrc, guti, request, opened>>
  BY DEF radio
<1>2. RadioTypes' /\ FreeStays
  BY <1>1 DEF Inv, Types, RadioTypes, FreeStays
<1>3. OwnRadio'
  <2>1. generated \in Nat /\ \A r \in RanIds : r \in Nat
    BY IdsAreAmfIds DEF Inv
  <2>2. OwnRadio
    BY DEF Inv, Own
  <2>3. SUFFICES ASSUME NEW r \in RanIds, gnb[r].amf # None, generated' >= generated
                 PROVE  r <= generated'
    BY <1>1, <2>2 DEF OwnRadio
  <2>4. r <= generated
    BY <2>2, <2>3 DEF OwnRadio
  <2>5. QED
    BY <2>1, <2>3, <2>4
<1>4. QED
  BY <1>1, <1>2, <1>3

\* A step that leaves ids and connections as they are, from its parts.
LEMMA TogetherKept ==
  ASSUME Inv, N2Moves, AppMoves, N1Moves, SctpMoves, UNCHANGED <<generated, opened>>, FreeStays,
         N2Types', AppTypes', N1Types', RadioTypes', Own', Watch', Current'
  PROVE  Inv'
BY QueuesKept DEF Inv, Types

\* One of the gNB and the UEs.
LEMMA RadioStep ==
  ASSUME Inv, N2Moves, AppMoves, SctpMoves, UNCHANGED <<n1_queue, n2, app, n1, opened>>,
         FreeStays, RadioTypes', OwnRadio'
  PROVE  Inv'
<1>1. UNCHANGED <<generated, opened>>
  BY DEF app
<1>2. N1Moves
  BY N1Steps DEF Inv
<1>3. Own'
  BY AmfKept DEF Own
<1>4. QED
  BY <1>1, <1>2, <1>3, AmfKept, TogetherKept

\* The radio link is lost.
LEMMA LoseKeeps ==
  ASSUME Inv, NEW u \in UEs, Lose(u)
  PROVE  Inv'
<1>1. /\ UNCHANGED <<n2_queue, app_queue, n1_queue, sctp, n2, app, n1, crashed, gnb, guti, opened, others>>
      /\ rrc' = [rrc EXCEPT ![u] = None] /\ request' = [request EXCEPT ![u] = Idle]
  BY DEF Lose, queues
<1>2. N2Moves /\ AppMoves /\ SctpMoves
  BY <1>1, N2Steps, AppSteps, SctpSteps DEF Inv
<1>3. RadioTypes'
  <2>1. Idle \in [kind : Requests \cup {"none"}, waits : BOOLEAN]
    BY DEF Idle
  <2>2. QED
    BY <1>1, <2>1 DEF RadioTypes, Inv, Types
<1>4. OwnRadio' /\ FreeStays
  BY <1>1 DEF Inv, Own, OwnRadio, FreeStays, app
<1>5. QED
  BY <1>1, <1>2, <1>3, <1>4, RadioStep

\* A UE deregisters on a connection that the gNB has.
LEMMA DeregisterKeeps ==
  ASSUME Inv, NEW u \in UEs, Deregister(u)
  PROVE  Inv'
<1>1. PICK r : r = rrc[u]
  OBVIOUS
<1>2. PICK m : m = Message("uplink", r, gnb[r].amf, "deregister", u, guti[u])
  OBVIOUS
<1>3. /\ r # None /\ gnb[r].amf # None
      /\ n2_queue' = Append(n2_queue, m)
      /\ guti' = [guti EXCEPT ![u] = None]
      /\ UNCHANGED <<app_queue, n1_queue, sctp, n2, app, n1, crashed, gnb, rrc, request, opened, others>>
  BY <1>1, <1>2 DEF Deregister
<1>4. r \in RanIds /\ guti[u] \in Tmsi \cup {None} /\ gnb[r].amf = r /\ r <= generated
  BY <1>1, <1>3 DEF Inv, Types, RadioTypes, Own, OwnRadio
<1>5. r \in Ids
  <2>1. Types
    BY DEF Inv
  <2>2. generated \in Nat
    BY <2>1, IdsAreAmfIds
  <2>3. QED
    BY <1>4, <2>2 DEF Ids, RanIds, AmfIds
<1>6. m \in N2Messages /\ m.type = "uplink" /\ m.ran = r /\ m.amf = r
  <2>1. "deregister" \in Whats /\ gnb[r].amf \in AmfIds \cup {None} /\ r \in RanIds \cup {None}
    BY <1>4 DEF Whats, RanIds
  <2>2. m \in MessagesOf({"initial", "uplink", "release request", "release complete",
                          "reset", "release command", "downlink", "setup", "paging"})
        /\ m.type = "uplink" /\ m.ran = r /\ m.amf = gnb[r].amf
    BY <1>2, <1>4, <2>1 DEF Message, MessagesOf
  <2>3. QED
    BY <1>4, <2>2 DEF N2Messages
<1>7. m \in NewN2
  <2>1. N2Message(m)'
    BY <1>3, <1>5, <1>6 DEF N2Message, Paired, Ids, app
  <2>2. QED
    BY <1>6, <2>1 DEF NewN2
<1>8. N2Moves /\ AppMoves /\ SctpMoves
  BY <1>3, <1>7, N2Steps, AppSteps, SctpSteps DEF Inv
<1>9. RadioTypes'
  BY <1>3 DEF RadioTypes, Inv, Types
<1>10. OwnRadio' /\ FreeStays
  BY <1>3 DEF Inv, Own, OwnRadio, FreeStays, app
<1>11. QED
  BY <1>3, <1>8, <1>9, <1>10, RadioStep

\* The gNB asks for a release.
LEMMA AskForReleaseKeeps ==
  ASSUME Inv, NEW r \in RanIds, AskForRelease(r)
  PROVE  Inv'
<1>1. PICK m : m = Ngap("release request", r, gnb[r].amf)
  OBVIOUS
<1>2. /\ gnb[r].amf # None /\ n2_queue' = Append(n2_queue, m)
      /\ UNCHANGED <<app_queue, n1_queue, sctp, n2, app, n1, crashed, radio, others>>
  BY <1>1 DEF AskForRelease
<1>3. gnb[r].amf = r /\ r <= generated
  BY <1>2 DEF Inv, Own, OwnRadio
<1>4. r \in Ids
  <2>1. Types
    BY DEF Inv
  <2>2. generated \in Nat
    BY <2>1, IdsAreAmfIds
  <2>3. QED
    BY <1>3, <2>2 DEF Ids, RanIds, AmfIds
<1>5. m \in N2Messages /\ m.type = "release request" /\ m.ran = r /\ m.amf = r
  <2>1. gnb[r].amf \in AmfIds \cup {None} /\ r \in RanIds \cup {None}
    BY <1>3 DEF RanIds
  <2>2. m \in N2Messages /\ m.type = "release request" /\ m.ran = r /\ m.amf = gnb[r].amf
    BY <1>1, <2>1 DEF Ngap, Message, MessagesOf, N2Messages, Whats
  <2>3. QED
    BY <1>3, <2>2
<1>6. m \in NewN2
  <2>1. N2Message(m)'
    BY <1>2, <1>4, <1>5 DEF N2Message, Paired, Ids, app
  <2>2. QED
    BY <1>5, <2>1 DEF NewN2
<1>7. N2Moves /\ AppMoves /\ SctpMoves
  BY <1>2, <1>6, N2Steps, AppSteps, SctpSteps DEF Inv
<1>8. generated' = generated /\ generated \in Nat /\ others' \in 0..MaxEvents /\ crashed' \in BOOLEAN
  BY <1>2, IdsAreAmfIds DEF app, Inv, Types, RadioTypes
<1>9. RadioTypes' /\ OwnRadio' /\ FreeStays /\ UNCHANGED opened
  BY <1>2, <1>8, RadioKept
<1>10. QED
  BY <1>2, <1>7, <1>9, RadioStep

\* The gNB starts anew.
LEMMA ResetKeeps ==
  ASSUME Inv, Reset
  PROVE  Inv'
<1>1. PICK m : m = Ngap("reset", None, None)
  OBVIOUS
<1>2. /\ opened + others < MaxEvents /\ others' = others + 1
      /\ gnb' = [r \in RanIds |-> Free]
      /\ rrc' = [u \in UEs |-> None] /\ request' = [u \in UEs |-> Idle]
      /\ n2_queue' = Append(n2_queue, m)
      /\ UNCHANGED <<app_queue, n1_queue, sctp, n2, app, n1, crashed, guti, opened>>
  BY <1>1 DEF Reset, MoreEvents
<1>3. m \in N2Messages /\ m.type = "reset"
  BY <1>1 DEF Ngap, Message, MessagesOf, N2Messages, Whats
<1>4. m \in NewN2
  BY <1>3 DEF NewN2, N2Message
<1>5. N2Moves /\ AppMoves /\ SctpMoves
  BY <1>2, <1>4, N2Steps, AppSteps, SctpSteps DEF Inv
<1>6. others' \in 0..MaxEvents
  BY <1>2 DEF Inv, Types, RadioTypes, AmfIds
<1>7. RadioTypes'
  <2>1. Idle \in [kind : Requests \cup {"none"}, waits : BOOLEAN] /\ Free \in Connections
    BY DEF Idle, Free, Connections
  <2>2. QED
    BY <1>2, <1>6, <2>1 DEF RadioTypes, Inv, Types
<1>8. OwnRadio' /\ FreeStays
  BY <1>2 DEF OwnRadio, FreeStays, Free
<1>9. QED
  BY <1>2, <1>5, <1>7, <1>8, RadioStep

\* The SMF has something for a UE.
LEMMA TransferKeeps ==
  ASSUME Inv, NEW u \in UEs, NEW what \in {"paging", "nas", "setup"}, Transfer(u, what)
  PROVE  Inv'
<1>1. PICK m : m = Message("transfer", None, None, what, u, None)
  OBVIOUS
<1>2. /\ opened + others < MaxEvents /\ others' = others + 1
      /\ app_queue' = Append(app_queue, m)
      /\ UNCHANGED <<n2_queue, n1_queue, sctp, n2, app, n1, crashed, radio>>
  BY <1>1 DEF Transfer, MoreEvents
<1>3. m \in AppMessages /\ m.type = "transfer" /\ m.ue = u
  BY <1>1 DEF Message, MessagesOf, AppMessages, Whats
<1>4. m \in NewApp
  BY <1>3 DEF NewApp, AppMessage
<1>5. N2Moves /\ AppMoves /\ SctpMoves
  BY <1>2, <1>4, N2Steps, AppSteps, SctpSteps DEF Inv
<1>6. others' \in 0..MaxEvents /\ crashed' \in BOOLEAN
  BY <1>2 DEF Inv, Types, RadioTypes, AmfIds
<1>7. generated' = generated /\ generated \in Nat
  BY <1>2, IdsAreAmfIds DEF app, Inv
<1>8. RadioTypes' /\ OwnRadio' /\ FreeStays /\ UNCHANGED opened
  BY <1>2, <1>6, <1>7, RadioKept
<1>9. QED
  BY <1>2, <1>5, <1>8, RadioStep

\* The gNB takes a page.
LEMMA PagedKeeps ==
  ASSUME Inv, Paged
  PROVE  Inv'
<1>1. /\ sctp # <<>> /\ sctp' = Tail(sctp)
      /\ UNCHANGED <<n2_queue, app_queue, n1_queue, n2, app, n1, crashed, radio, others>>
  BY DEF Paged
<1>2. N2Moves /\ AppMoves /\ SctpMoves
  BY <1>1, N2Steps, AppSteps, SctpSteps DEF Inv
<1>3. generated' = generated /\ generated \in Nat /\ others' \in 0..MaxEvents /\ crashed' \in BOOLEAN
  BY <1>1, IdsAreAmfIds DEF app, Inv, Types, RadioTypes
<1>4. RadioTypes' /\ OwnRadio' /\ FreeStays /\ UNCHANGED opened
  BY <1>1, <1>3, RadioKept
<1>5. QED
  BY <1>1, <1>2, <1>4, RadioStep

\* A connection is released: the gNB gives it up, and says so, if the ids are its.
LEMMA ReleaseKeeps ==
  ASSUME Inv, Release
  PROVE  Inv'
<1>1. PICK m : m = Head(sctp)
  OBVIOUS
<1>2. PICK u : u = gnb[m.ran].ue
  OBVIOUS
<1>3. PICK c : c = Ngap("release complete", m.ran, m.amf)
  OBVIOUS
<1>4. /\ sctp # <<>> /\ sctp' = Tail(sctp)
      /\ IF ~Matches(m) THEN UNCHANGED <<n2_queue, gnb, rrc, request>>
         ELSE /\ gnb' = [gnb EXCEPT ![m.ran] = Free]
              /\ IF rrc[u] = m.ran
                 THEN /\ rrc' = [rrc EXCEPT ![u] = None]
                      /\ request' = [request EXCEPT ![u] = Idle]
                 ELSE UNCHANGED <<rrc, request>>
              /\ n2_queue' = Append(n2_queue, c)
      /\ UNCHANGED <<app_queue, n1_queue, n2, app, n1, crashed, guti, opened, others>>
  BY <1>1, <1>2, <1>3 DEF Release
<1>5. m \in SctpMessages /\ Paired(m)
  BY <1>1, <1>4, SctpHead
<1>6. m.ran = m.amf /\ m.amf \in Ids /\ m.ran \in RanIds /\ m.amf \in AmfIds
  BY <1>5, IdsAreAmfIds DEF Paired, Inv
<1>7. c \in N2Messages /\ c.type = "release complete" /\ c.ran = m.ran /\ c.amf = m.amf
  BY <1>3, <1>6 DEF Ngap, Message, MessagesOf, N2Messages, Whats
<1>8. gnb \in [RanIds -> Connections] /\ Free \in Connections
      /\ Idle \in [kind : Requests \cup {"none"}, waits : BOOLEAN]
  BY DEF Inv, Types, RadioTypes, Free, Connections, Idle
<1>9. N2Moves
  <2>1. CASE ~Matches(m)
    BY <1>4, <2>1, N2Steps DEF Inv
  <2>2. CASE Matches(m)
    <3>1. gnb'[m.ran] = Free
      BY <1>4, <1>6, <1>8, <2>2
    <3>2. N2Message(c)'
      BY <1>4, <1>6, <1>7, <3>1 DEF N2Message, Paired, Ids, app, Free
    <3>3. c \in NewN2
      BY <1>7, <3>2 DEF NewN2
    <3>4. QED
      BY <1>4, <2>2, <3>3, N2Steps DEF Inv
  <2>3. QED
    BY <2>1, <2>2
<1>10. AppMoves /\ SctpMoves
  BY <1>4, AppSteps, SctpSteps DEF Inv
<1>11. RadioTypes'
  BY <1>4, <1>8 DEF RadioTypes, Inv, Types
<1>12. gnb' = gnb \/ gnb' = [gnb EXCEPT ![m.ran] = Free]
  BY <1>4
<1>13. OwnRadio' /\ FreeStays
  <2>1. \A r \in RanIds : gnb'[r] = gnb[r] \/ gnb'[r] = Free
    BY <1>8, <1>12
  <2>2. Free.amf = None /\ generated' = generated
    BY <1>4 DEF Free, app
  <2>3. QED
    BY <2>1, <2>2 DEF OwnRadio, FreeStays, Inv, Own
<1>14. QED
  BY <1>4, <1>9, <1>10, <1>11, <1>13, RadioStep

\* A message for a UE: the gNB learns the AMF UE NGAP ID, which is that of the
\* connection.
LEMMA DeliverKeeps ==
  ASSUME Inv, Deliver
  PROVE  Inv'
<1>1. PICK m : m = Head(sctp)
  OBVIOUS
<1>2. PICK u : u = gnb[m.ran].ue
  OBVIOUS
<1>3. PICK answer : answer = CASE m.what = "challenge" -> "complete"
                               [] m.what = "identify" -> "identity"
                               [] OTHER -> "none"
  OBVIOUS
<1>4. PICK c : c = Message("uplink", m.ran, m.amf, answer, u, None)
  OBVIOUS
<1>5. /\ sctp # <<>> /\ sctp' = Tail(sctp)
      /\ gnb' = IF Matches(m) THEN [gnb EXCEPT ![m.ran].amf = m.amf] ELSE gnb
      /\ \/ n2_queue' = n2_queue
         \/ n2_queue' = Append(n2_queue, c)
      /\ \/ request' = request
         \/ request' = [request EXCEPT ![u].waits = FALSE]
      /\ \/ guti' = guti
         \/ guti' = [guti EXCEPT ![u] = m.tmsi]
      /\ UNCHANGED <<app_queue, n1_queue, n2, app, n1, crashed, rrc, opened, others>>
  BY <1>1, <1>2, <1>3, <1>4 DEF Deliver
<1>6. m \in SctpMessages /\ Paired(m)
  BY <1>1, <1>5, SctpHead
<1>7. m.ran = m.amf /\ m.amf \in Ids /\ m.ran \in RanIds /\ m.amf \in AmfIds /\ m.amf <= generated
  BY <1>6, IdsAreAmfIds DEF Paired, Inv, Ids
<1>8. gnb \in [RanIds -> Connections]
  BY DEF Inv, Types, RadioTypes
<1>9. u \in UEs \cup {None} /\ answer \in Whats
  BY <1>2, <1>3, <1>7, <1>8 DEF Connections, Whats
<1>10. c \in N2Messages /\ c.type = "uplink" /\ c.ran = m.ran /\ c.amf = m.amf
  BY <1>4, <1>7, <1>9 DEF Message, MessagesOf, N2Messages
<1>11. c \in NewN2
  <2>1. N2Message(c)'
    BY <1>5, <1>7, <1>10 DEF N2Message, Paired, Ids, app
  <2>2. QED
    BY <1>10, <2>1 DEF NewN2
<1>12. N2Moves /\ AppMoves /\ SctpMoves
  BY <1>5, <1>11, N2Steps, AppSteps, SctpSteps DEF Inv
<1>13. PICK g : g = [gnb[m.ran] EXCEPT !.amf = m.amf]
  OBVIOUS
<1>14. g \in Connections /\ g.amf = m.ran
  BY <1>7, <1>8, <1>13 DEF Connections
<1>15. gnb' = gnb \/ (gnb[m.ran] # Free /\ gnb' = [gnb EXCEPT ![m.ran] = g])
  BY <1>5, <1>13 DEF Matches
<1>16. RadioTypes'
  <2>1. gnb' \in [RanIds -> Connections]
    BY <1>8, <1>14, <1>15
  <2>2. m.tmsi \in Tmsi \cup {None}
    BY <1>6 DEF SctpMessages, MessagesOf
  <2>3. guti' \in [UEs -> Tmsi \cup {None}]
    BY <1>5, <2>2 DEF Inv, Types, RadioTypes
  <2>4. request' \in [UEs -> [kind : Requests \cup {"none"}, waits : BOOLEAN]]
    <3>1. request \in [UEs -> [kind : Requests \cup {"none"}, waits : BOOLEAN]]
      BY DEF Inv, Types, RadioTypes
    <3>2. QED
      BY <1>5, <3>1
  <2>5. QED
    BY <1>5, <2>1, <2>3, <2>4 DEF RadioTypes, Inv, Types
<1>17. OwnRadio' /\ FreeStays
  <2>1. \A r \in RanIds : gnb'[r] = gnb[r] \/ (r = m.ran /\ gnb'[r] = g /\ gnb[r] # Free)
    BY <1>8, <1>15
  <2>2. generated' = generated
    BY <1>5 DEF app
  <2>3. QED
    BY <1>7, <1>14, <2>1, <2>2 DEF OwnRadio, FreeStays, Inv, Own
<1>18. QED
  BY <1>5, <1>12, <1>16, <1>17, RadioStep

\* A connection is opened: its first message is the last of all.
LEMMA OpenKeeps ==
  ASSUME Inv, NEW u \in UEs, NEW what \in Requests, Open(u, what)
  PROVE  Inv'
<1>1. PICK r : r = opened + 1
  OBVIOUS
<1>2. PICK g : g = IF what = "register" THEN None ELSE guti[u]
  OBVIOUS
<1>3. PICK m : m = Message("initial", r, None, what, u, g)
  OBVIOUS
<1>4. /\ opened < MaxAmfId /\ opened' = r
      /\ gnb' = [gnb EXCEPT ![r] = [ue |-> u, amf |-> None]]
      /\ rrc' = [rrc EXCEPT ![u] = r]
      /\ guti' = IF what = "register" THEN [guti EXCEPT ![u] = None] ELSE guti
      /\ request' = [request EXCEPT ![u] = [kind |-> what, waits |-> TRUE]]
      /\ UNCHANGED <<app_queue, n1_queue, sctp, n2, app, n1, crashed, others>>
  BY <1>1 DEF Open
<1>5. guti \in [UEs -> Tmsi \cup {None}]
  BY DEF Inv, Types, RadioTypes
<1>6. n2_queue' = Append(n2_queue, m)
  <2>1. guti'[u] = g
    BY <1>2, <1>4, <1>5
  <2>2. n2_queue' = Append(n2_queue, Message("initial", opened', None, what, u, guti'[u]))
    BY DEF Open
  <2>3. QED
    BY <1>3, <1>4, <2>1, <2>2
<1>7. r \in RanIds /\ r \in AmfIds /\ opened \in Nat /\ generated \in Nat /\ generated' = generated
      /\ generated <= opened
  BY <1>1, <1>4, IdsAreAmfIds DEF Inv, Types, RadioTypes, AmfIds, RanIds, app, Order
<1>8. m \in N2Messages /\ m.type = "initial" /\ m.ran = r /\ m.amf = None /\ m.what = what
  <2>1. g \in Tmsi \cup {None}
    BY <1>2, <1>5
  <2>2. QED
    BY <1>3, <1>7, <2>1 DEF Message, MessagesOf, N2Messages, Whats
<1>9. n2_queue \in Seq(N2Messages) /\ app_queue \in Seq(AppMessages)
  BY DEF Inv, Types, QueueTypes
<1>10. /\ n2_queue' \in Seq(N2Messages) /\ Len(n2_queue) \in Nat /\ Len(n2_queue') = Len(n2_queue) + 1
       /\ \A i \in DOMAIN n2_queue' : n2_queue'[i] = IF i <= Len(n2_queue) THEN n2_queue[i] ELSE m
       /\ DOMAIN n2_queue = 1..Len(n2_queue) /\ DOMAIN n2_queue' = 1..(Len(n2_queue) + 1)
  BY <1>6, <1>8, <1>9, Putting
<1>11. QueueTypes'
  BY <1>4, <1>10 DEF Inv, Types, QueueTypes
<1>12. gnb \in [RanIds -> Connections] /\ [ue |-> u, amf |-> None] \in Connections
  BY DEF Inv, Types, RadioTypes, Connections
<1>13. \A x \in RanIds : gnb'[x] = IF x = r THEN [ue |-> u, amf |-> None] ELSE gnb[x]
  BY <1>4, <1>7, <1>12
<1>14. AllMessages'
  <2>1. ASSUME NEW i \in DOMAIN n2_queue' PROVE N2Message(n2_queue[i])'
    <3>1. PICK x : x = n2_queue'[i]
      OBVIOUS
    <3>2. CASE i <= Len(n2_queue)
      <4>1. i \in DOMAIN n2_queue /\ x = n2_queue[i]
        BY <1>10, <3>1, <3>2
      <4>2. N2Message(x)
        BY <4>1 DEF Inv, AllMessages
      <4>3. x.type = "initial" => Fresh(x)'
        BY <1>1, <1>4, <1>7, <4>2 DEF N2Message, Fresh
      <4>4. x.type \notin {"initial", "reset"} => Paired(x)'
        BY <1>7, <4>2 DEF N2Message, Paired, Ids
      <4>5. x.type = "release complete" => gnb'[x.ran] = Free'
        <5>1. x.type = "release complete" => x.ran \in Ids /\ gnb[x.ran] = Free
          BY <4>2 DEF N2Message, Paired
        <5>2. \A y \in Ids : y \in RanIds /\ y # r
          BY <1>1, <1>7, IdsAreAmfIds DEF Inv, Ids
        <5>3. QED
          BY <1>13, <5>1, <5>2 DEF Free
      <4>6. QED
        BY <3>1, <4>3, <4>4, <4>5 DEF N2Message, Fresh, Paired, Ids
    <3>3. CASE i > Len(n2_queue)
      <4>1. x = m
        BY <1>10, <3>1, <3>3
      <4>2. Fresh(x)'
        BY <1>1, <1>4, <1>7, <1>8, <4>1 DEF Fresh
      <4>3. QED
        BY <1>8, <3>1, <4>1, <4>2 DEF N2Message, Fresh, Paired, Ids
    <3>4. QED
      BY <1>10, <3>2, <3>3
  <2>2. ASSUME NEW i \in DOMAIN app_queue' PROVE AppMessage(app_queue[i])'
    <3>1. PICK x : x = app_queue[i]
      OBVIOUS
    <3>2. AppMessage(x)
      BY <1>4, <3>1 DEF Inv, AllMessages
    <3>3. AppMessage(x)'
      BY <1>1, <1>4, <1>7, <3>2 DEF AppMessage, Fresh
    <3>4. QED
      BY <1>4, <3>1, <3>3 DEF AppMessage, Fresh
  <2>3. ASSUME NEW i \in DOMAIN n1_queue' PROVE N1Message(n1_queue[i])'
    BY <1>4, <1>7 DEF Inv, AllMessages, N1Message, Paired, Ids
  <2>4. ASSUME NEW i \in DOMAIN sctp' PROVE Paired(sctp[i])'
    BY <1>4, <1>7 DEF Inv, AllMessages, Paired, Ids
  <2>5. QED
    BY <2>1, <2>2, <2>3, <2>4 DEF AllMessages
<1>15. Order'
  <2>1. /\ \A i \in Initials(n2_queue') : \/ i \in Initials(n2_queue) /\ n2_queue'[i] = n2_queue[i]
                                          \/ i = Len(n2_queue) + 1 /\ n2_queue'[i] = m
        /\ \A i \in Initials(n2_queue) : i \in Initials(n2_queue') /\ n2_queue'[i] = n2_queue[i]
        /\ Len(n2_queue) + 1 \in Initials(n2_queue') /\ n2_queue'[Len(n2_queue) + 1] = m
        /\ Initials(n2_queue) \subseteq 1..Len(n2_queue)
    BY <1>8, <1>10 DEF Initials
  <2>2. \A i \in Initials(n2_queue) : n2_queue[i].ran \in (generated + 1)..opened
    BY DEF Inv, AllMessages, N2Message, Fresh, Initials
  <2>3. \A i \in Initials(app_queue) : app_queue[i].ran \in (generated + 1)..opened
    BY DEF Inv, AllMessages, AppMessage, Fresh, Initials
  <2>4. Initials(n2_queue)' = Initials(n2_queue') /\ Initials(app_queue)' = Initials(app_queue)
    BY <1>4 DEF Initials
  <2>5. \A i, j \in Initials(n2_queue') : i < j => n2_queue'[i].ran < n2_queue'[j].ran
    <3> SUFFICES ASSUME NEW i \in Initials(n2_queue'), NEW j \in Initials(n2_queue'), i < j
                 PROVE  n2_queue'[i].ran < n2_queue'[j].ran
      OBVIOUS
    <3>1. i \in Initials(n2_queue) /\ n2_queue'[i] = n2_queue[i]
      BY <1>10, <2>1
    <3>2. CASE j \in Initials(n2_queue) /\ n2_queue'[j] = n2_queue[j]
      BY <3>1, <3>2 DEF Inv, Order
    <3>3. CASE n2_queue'[j] = m
      BY <1>1, <1>7, <1>8, <2>2, <3>1, <3>3
    <3>4. QED
      BY <2>1, <3>2, <3>3
  <2>6. \A i \in Initials(app_queue), j \in Initials(n2_queue') : app_queue[i].ran < n2_queue'[j].ran
    <3> SUFFICES ASSUME NEW i \in Initials(app_queue), NEW j \in Initials(n2_queue')
                 PROVE  app_queue[i].ran < n2_queue'[j].ran
      OBVIOUS
    <3>1. CASE j \in Initials(n2_queue) /\ n2_queue'[j] = n2_queue[j]
      BY <3>1 DEF Inv, Order
    <3>2. CASE n2_queue'[j] = m
      BY <1>1, <1>7, <1>8, <2>3, <3>2
    <3>3. QED
      BY <2>1, <3>1, <3>2
  <2>7. \A x \in (generated + 1)..r :
          \/ \E i \in Initials(app_queue) : app_queue[i].ran = x
          \/ \E i \in Initials(n2_queue') : n2_queue'[i].ran = x
    <3> SUFFICES ASSUME NEW x \in (generated + 1)..r
                 PROVE  \/ \E i \in Initials(app_queue) : app_queue[i].ran = x
                        \/ \E i \in Initials(n2_queue') : n2_queue'[i].ran = x
      OBVIOUS
    <3>1. CASE x = r
      BY <1>8, <2>1, <3>1
    <3>2. CASE x # r
      <4>1. x \in (generated + 1)..opened
        BY <1>1, <1>7, <3>2
      <4>2. QED
        BY <2>1, <4>1 DEF Inv, Order
    <3>3. QED
      BY <3>1, <3>2
  <2>8. \A i, j \in Initials(app_queue) : i < j => app_queue[i].ran < app_queue[j].ran
    BY DEF Inv, Order
  <2>9. generated' <= opened'
    BY <1>1, <1>4, <1>7
  <2>10. QED
    BY <1>4, <1>7, <2>4, <2>5, <2>6, <2>7, <2>8, <2>9 DEF Order
<1>16. RadioTypes'
  <2>1. gnb' \in [RanIds -> Connections]
    BY <1>4, <1>12
  <2>2. rrc' \in [UEs -> RanIds \cup {None}] /\ guti' \in [UEs -> Tmsi \cup {None}]
        /\ request' \in [UEs -> [kind : Requests \cup {"none"}, waits : BOOLEAN]]
    BY <1>4, <1>7 DEF Inv, Types, RadioTypes
  <2>3. QED
    BY <1>4, <1>7, <2>1, <2>2 DEF Inv, Types, RadioTypes
<1>17. OwnRadio'
  BY <1>7, <1>13 DEF OwnRadio, Inv, Own
<1>18. Own' /\ N2Types' /\ AppTypes' /\ N1Types' /\ Watch' /\ Current'
  BY <1>4, <1>17, AmfKept DEF Own
<1>19. QED
  BY <1>11, <1>14, <1>15, <1>16, <1>18 DEF Inv, Types

\* A timer runs out: after what was sent before, and not for a connection that N2 still has.
LEMMA ExpireKeeps ==
  ASSUME Inv, Expire
  PROVE  Inv'
<1>1. PICK t \in timers : /\ timers' = timers \ {t}
                          /\ n1_queue' = Append(n1_queue, Ngap(t[1], None, t[2]))
  BY DEF Expire
<1>2. UNCHANGED <<n2_queue, app_queue, sctp, n2, app, amfueid2nas_context, supi2Id, nas, crashed, radio, others>>
  BY DEF Expire
<1>3. PICK kind \in {"mobile", "implicit"}, b \in AmfIds : t = <<kind, b>>
  BY DEF Inv, Types, N1Types
<1>4. PICK m : m = Ngap(kind, None, b)
  OBVIOUS
<1>5. n1_queue' = Append(n1_queue, m)
  BY <1>1, <1>3, <1>4
<1>6. m \in N1Messages /\ m.type = kind /\ m.amf = b /\ m.what = "none"
  BY <1>3, <1>4 DEF Ngap, Message, MessagesOf, N1Messages, Whats
<1>7. Watched(kind, b) /\ b <= generated /\ ~ranid2uecontext[b].known
  BY <1>3 DEF Watched, Inv, Watch, WatchedIsGone
<1>8. /\ generated' = generated /\ generated \in Nat /\ b \in Ids
      /\ UNCHANGED <<generated, ue_context, ranid2uecontext, amfueid2uecontext>>
  BY <1>2, <1>7, IdsAreAmfIds DEF app, n2, Inv, Ids, AmfIds
<1>9. m \in NewN1
  <2>1. N1Message(m)'
    BY <1>6, <1>8 DEF N1Message, Paired, Ids
  <2>2. QED
    BY <1>6, <2>1 DEF NewN1
<1>10. N2Moves /\ AppMoves /\ N1Moves /\ SctpMoves
  BY <1>2, <1>5, <1>9, N2Steps, AppSteps, N1Steps, SctpSteps DEF Inv
<1>11. RadioTypes' /\ OwnRadio' /\ FreeStays /\ UNCHANGED opened
  <2>1. others' \in 0..MaxEvents /\ crashed' \in BOOLEAN
    BY <1>2 DEF Inv, Types, RadioTypes
  <2>2. QED
    BY <1>2, <1>8, <2>1, RadioKept
<1>12. N2Types' /\ AppTypes' /\ N1Types'
  BY <1>1, <1>2, <1>8 DEF Inv, Types, N2Types, AppTypes, N1Types
<1>13. OwnContext' /\ OwnConnection' /\ OwnIds' /\ OwnNas'
  BY <1>2, <1>8 DEF Inv, Own, OwnContext, OwnConnection, OwnIds, OwnNas, Ids
<1>14. Current'
  BY <1>2, CurrentKept
<1>15. Watch'
  <2>1. /\ n1_queue \in Seq(N1Messages) /\ Len(n1_queue) \in Nat /\ DOMAIN n1_queue = 1..Len(n1_queue)
        /\ DOMAIN n1_queue' = 1..(Len(n1_queue) + 1)
        /\ \A i \in DOMAIN n1_queue' : n1_queue'[i] = IF i <= Len(n1_queue) THEN n1_queue[i] ELSE m
    <3>1. n1_queue \in Seq(N1Messages)
      BY DEF Inv, Types, QueueTypes
    <3>2. QED
      BY <1>5, <1>6, <3>1, Putting
  <2>2. \A i \in DOMAIN n1_queue' : \/ i \in DOMAIN n1_queue /\ n1_queue'[i] = n1_queue[i]
                                    \/ i = Len(n1_queue) + 1 /\ n1_queue'[i] = m
    BY <2>1
  <2>3. \A k, a : Watched(k, a)' => Watched(k, a)
    <3> SUFFICES ASSUME NEW k, NEW a, Watched(k, a)' PROVE Watched(k, a)
      OBVIOUS
    <3>1. CASE <<k, a>> \in timers'
      BY <1>1, <3>1 DEF Watched
    <3>2. CASE \E i \in DOMAIN n1_queue' : n1_queue'[i].type = k /\ n1_queue'[i].amf = a
      <4>1. PICK i \in DOMAIN n1_queue' : n1_queue'[i].type = k /\ n1_queue'[i].amf = a
        BY <3>2
      <4>2. CASE i \in DOMAIN n1_queue /\ n1_queue'[i] = n1_queue[i]
        BY <4>1, <4>2 DEF Watched
      <4>3. CASE n1_queue'[i] = m
        BY <1>6, <1>7, <4>1, <4>3
      <4>4. QED
        BY <2>2, <4>2, <4>3
    <3>3. QED
      BY <3>1, <3>2 DEF Watched
  <2>4. \A j \in DOMAIN n1_queue' : \A a : Deregisters(n1_queue[j], a)' =>
          j \in DOMAIN n1_queue /\ Deregisters(n1_queue[j], a)
    BY <1>6, <2>2 DEF Deregisters
  <2>5. WatchedIsGone'
    BY <1>8, <2>3 DEF WatchedIsGone, Inv, Watch
  <2>6. WatchedIsKept'
    BY <1>2, <2>3, <2>4 DEF WatchedIsKept, Inv, Watch
  <2>7. DeregisteredBefore'
    <3> SUFFICES ASSUME NEW i \in DOMAIN n1_queue', NEW j \in DOMAIN n1_queue',
                        n1_queue'[i].type = "mobile", Deregisters(n1_queue[j], n1_queue[i].amf)'
                 PROVE  j < i
      BY DEF DeregisteredBefore
    <3>1. j \in DOMAIN n1_queue /\ n1_queue'[j] = n1_queue[j]
      BY <1>6, <2>2 DEF Deregisters
    <3>2. CASE i \in DOMAIN n1_queue /\ n1_queue'[i] = n1_queue[i]
      BY <3>1, <3>2 DEF Inv, Watch, DeregisteredBefore, Deregisters
    <3>3. CASE i = Len(n1_queue) + 1
      BY <2>1, <3>1, <3>3
    <3>4. QED
      BY <2>2, <3>2, <3>3
  <2>8. QED
    BY <2>5, <2>6, <2>7 DEF Watch
<1>16. QED
  BY <1>8, <1>10, <1>11, <1>12, <1>13, <1>14, <1>15, TogetherKept DEF Own

-----------------------------------------------------------------------------
(* TASK_AMF_N2.                                                             *)

\* A message other than the first of a connection or a reset has the ids of one.
LEMMA N2Ids ==
  ASSUME Inv, NEW type, Takes(n2_queue, type), type \notin {"initial", "reset"}
  PROVE  LET m == Head(n2_queue)
         IN  /\ m.ran = m.amf /\ m.amf \in Ids /\ m.amf \in AmfIds /\ m.ran \in RanIds
             /\ m.amf # None /\ m.amf <= generated
<1>1. Head(n2_queue).type = type /\ N2Message(Head(n2_queue))
  BY N2Head
<1>2. Paired(Head(n2_queue))
  BY <1>1 DEF N2Message
<1>3. QED
  BY <1>2, IdsAreAmfIds DEF Paired, Inv, Ids

\* A message that N2 hands to the gNB.
LEMMA ToGnb ==
  ASSUME Inv, NEW type \in {"release command", "downlink", "setup", "paging"},
         Takes(n2_queue, type), UNCHANGED generated
  PROVE  Head(n2_queue) \in NewSctp
<1>1. PICK m : m = Head(n2_queue)
  OBVIOUS
<1>2. m \in N2Messages /\ m.type = type
  BY <1>1, N2Head
<1>3. m \in SctpMessages
  BY <1>2 DEF N2Messages, SctpMessages, MessagesOf
<1>4. m.ran = m.amf /\ m.amf \in Ids
  BY <1>1, N2Ids
<1>5. Paired(m)'
  BY <1>4 DEF Paired, Ids
<1>6. QED
  BY <1>1, <1>3, <1>5 DEF NewSctp

\* N2 only passes something on to the gNB.
LEMMA PassingKeeps ==
  ASSUME Inv, N2Moves, SctpMoves, crashed' \in BOOLEAN,
         UNCHANGED <<app_queue, n1_queue, n2, app, n1, radio, others>>
  PROVE  Inv'
<1>1. AppMoves
  BY AppSteps DEF Inv
<1>2. generated' = generated /\ generated \in Nat /\ others' \in 0..MaxEvents
  BY IdsAreAmfIds DEF app, Inv, Types, RadioTypes
<1>3. RadioTypes' /\ OwnRadio' /\ FreeStays /\ UNCHANGED opened
  BY <1>2, RadioKept
<1>4. QED
  BY <1>1, <1>3, RadioStep

\* The release that the gNB asks for is of the ids of its request.
LEMMA ReleaseRequestKeeps ==
  ASSUME Inv, ue_context_release_request
  PROVE  Inv'
<1>1. PICK m : m = Head(n2_queue)
  OBVIOUS
<1>2. PICK c : c = Ngap("release command", m.ran, m.amf)
  OBVIOUS
<1>3. /\ Takes(n2_queue, "release request") /\ n2_queue' = Tail(n2_queue)
      /\ sctp' = Append(sctp, c)
      /\ UNCHANGED <<app_queue, n1_queue, n2, app, n1, crashed, radio, others>>
  BY <1>1, <1>2 DEF ue_context_release_request, N2Keeps
<1>4. m.ran = m.amf /\ m.amf \in Ids /\ m.amf \in AmfIds /\ m.ran \in RanIds
  BY <1>1, <1>3, N2Ids
<1>5. c \in SctpMessages /\ c.ran = m.ran /\ c.amf = m.amf
  BY <1>2, <1>4 DEF Ngap, Message, MessagesOf, SctpMessages, Whats
<1>6. c \in NewSctp
  <2>1. Paired(c)'
    BY <1>3, <1>4, <1>5 DEF Paired, Ids, app
  <2>2. QED
    BY <1>5, <2>1 DEF NewSctp
<1>7. n2_queue # <<>> /\ Head(n2_queue).type # "initial"
  BY <1>3 DEF Takes
<1>8. N2Moves /\ SctpMoves
  BY <1>3, <1>6, <1>7, N2Steps, SctpSteps DEF Inv
<1>9. crashed' \in BOOLEAN
  BY <1>3 DEF Inv, Types, RadioTypes
<1>10. QED
  BY <1>3, <1>8, <1>9, PassingKeeps

\* A message for the gNB is passed on, or not.
LEMMA PassKeeps ==
  ASSUME Inv, NEW type \in {"release command", "downlink", "setup", "paging"},
         Takes(n2_queue, type), n2_queue' = Tail(n2_queue), crashed' \in BOOLEAN,
         sctp' = sctp \/ sctp' = Append(sctp, Head(n2_queue)),
         UNCHANGED <<app_queue, n1_queue, n2, app, n1, radio, others>>
  PROVE  Inv'
<1>1. UNCHANGED generated
  BY DEF app
<1>2. Head(n2_queue) \in NewSctp
  BY <1>1, ToGnb
<1>3. N2Moves /\ SctpMoves
  BY <1>2, N2Head, N2Steps, SctpSteps DEF Inv
<1>4. QED
  BY <1>3, PassingKeeps

\* The release of a connection, if N2 has it.
LEMMA ReleaseCommandKeeps ==
  ASSUME Inv, ue_context_release_command
  PROVE  Inv'
<1>1. /\ Takes(n2_queue, "release command") /\ n2_queue' = Tail(n2_queue)
      /\ sctp' = sctp \/ sctp' = Append(sctp, Head(n2_queue))
      /\ UNCHANGED <<app_queue, n1_queue, n2, app, n1, crashed, radio, others>>
  BY DEF ue_context_release_command, N2Keeps
<1>2. crashed' \in BOOLEAN
  BY <1>1 DEF Inv, Types, RadioTypes
<1>3. QED
  BY <1>1, <1>2, PassKeeps

\* Initial context and session set-up.
LEMMA SetupKeeps ==
  ASSUME Inv, setup_request
  PROVE  Inv'
<1>1. /\ Takes(n2_queue, "setup") /\ n2_queue' = Tail(n2_queue)
      /\ sctp' = sctp \/ sctp' = Append(sctp, Head(n2_queue))
      /\ UNCHANGED <<app_queue, n1_queue, n2, app, n1, crashed, radio, others>>
  BY DEF setup_request, N2Keeps
<1>2. crashed' \in BOOLEAN
  BY <1>1 DEF Inv, Types, RadioTypes
<1>3. QED
  BY <1>1, <1>2, PassKeeps

\* Paging, which may be the end of the AMF.
LEMMA PagingKeeps ==
  ASSUME Inv, paging
  PROVE  Inv'
<1>1. /\ Takes(n2_queue, "paging") /\ n2_queue' = Tail(n2_queue)
      /\ sctp' = sctp \/ sctp' = Append(sctp, Head(n2_queue))
      /\ crashed' = crashed \/ crashed' = TRUE
      /\ UNCHANGED <<app_queue, n1_queue, n2, app, n1, radio, others>>
  BY DEF paging
<1>2. crashed' \in BOOLEAN
  BY <1>1 DEF Inv, Types, RadioTypes
<1>3. QED
  BY <1>1, <1>2, PassKeeps

\* The tables of N2 are left alone.
LEMMA N2TablesKept ==
  ASSUME Inv, UNCHANGED <<n2, generated>>
  PROVE  N2Types' /\ OwnConnection'
BY DEF Inv, Types, N2Types, Own, OwnConnection, n2

\* Those of APP.
LEMMA AppTablesKept ==
  ASSUME Inv, UNCHANGED app
  PROVE  AppTypes' /\ OwnContext' /\ UNCHANGED generated
BY DEF Inv, Types, AppTypes, Own, OwnContext, app

\* Those of N1.
LEMMA N1TablesKept ==
  ASSUME Inv, UNCHANGED <<n1, generated>>
  PROVE  N1Types' /\ OwnIds' /\ OwnNas' /\ Current'
<1>1. UNCHANGED <<amfueid2nas_context, supi2Id, nas, timers>>
  BY DEF n1
<1>2. QED
  BY <1>1, CurrentKept DEF Inv, Types, N1Types, Own, OwnIds, OwnNas, Ids

\* A step of the AMF that gives no new ids, from its parts.
LEMMA AmfStep ==
  ASSUME Inv, N2Moves, AppMoves, N1Moves, SctpMoves, UNCHANGED <<generated, radio, others>>,
         crashed' \in BOOLEAN, N2Types', AppTypes', N1Types', OwnContext', OwnConnection',
         OwnIds', OwnNas', Watch', Current'
  PROVE  Inv'
<1>1. generated' = generated /\ generated \in Nat /\ others' \in 0..MaxEvents
  BY IdsAreAmfIds DEF Inv, Types, RadioTypes
<1>2. RadioTypes' /\ OwnRadio' /\ FreeStays /\ UNCHANGED opened
  BY <1>1, RadioKept
<1>3. Own'
  BY <1>2 DEF Own
<1>4. QED
  BY <1>2, <1>3, TogetherKept

\* A message comes on a connection that N2 still has, and so that no timer is about.
LEMMA WatchPut ==
  ASSUME Inv, NEW m \in N1Messages, n1_queue' = Append(n1_queue, m),
         m.type \notin {"mobile", "implicit"}, m.amf \in AmfIds, ranid2uecontext[m.amf].known,
         UNCHANGED <<timers, generated, ranid2uecontext, amfueid2nas_context>>
  PROVE  Watch'
<1>1. /\ DOMAIN n1_queue = 1..Len(n1_queue) /\ Len(n1_queue) \in Nat
      /\ \A i \in DOMAIN n1_queue' : \/ i \in DOMAIN n1_queue /\ n1_queue'[i] = n1_queue[i]
                                     \/ i = Len(n1_queue) + 1 /\ n1_queue'[i] = m
  <2>1. n1_queue \in Seq(N1Messages)
    BY DEF Inv, Types, QueueTypes
  <2>2. QED
    BY <2>1, Putting
<1>2. \A k \in {"mobile", "implicit"} : \A a : Watched(k, a)' => Watched(k, a)
  BY <1>1 DEF Watched
<1>3. \A j \in DOMAIN n1_queue' : \A a : Deregisters(n1_queue[j], a)' =>
        \/ j \in DOMAIN n1_queue /\ Deregisters(n1_queue[j], a)
        \/ a = m.amf
  BY <1>1 DEF Deregisters
<1>4. ~Watched("mobile", m.amf) /\ ~Watched("implicit", m.amf)
  BY DEF Inv, Watch, WatchedIsGone
<1>5. WatchedIsGone'
  BY <1>2 DEF WatchedIsGone, Inv, Watch
<1>6. WatchedIsKept'
  BY <1>2, <1>3, <1>4 DEF WatchedIsKept, Inv, Watch
<1>7. DeregisteredBefore'
  <2> SUFFICES ASSUME NEW i \in DOMAIN n1_queue', NEW j \in DOMAIN n1_queue',
                      n1_queue'[i].type = "mobile", Deregisters(n1_queue[j], n1_queue[i].amf)'
               PROVE  j < i
    BY DEF DeregisteredBefore
  <2>1. i \in DOMAIN n1_queue /\ n1_queue'[i] = n1_queue[i]
    BY <1>1
  <2>2. Watched("mobile", n1_queue[i].amf)
    BY <2>1 DEF Watched
  <2>3. j \in DOMAIN n1_queue /\ n1_queue'[j] = n1_queue[j]
    BY <1>1, <1>4, <2>1, <2>2 DEF Deregisters
  <2>4. QED
    BY <2>1, <2>3 DEF Inv, Watch, DeregisteredBefore, Deregisters
<1>8. QED
  BY <1>5, <1>6, <1>7 DEF Watch

\* A NAS message goes to N1 if N2 has its connection.
LEMMA UplinkKeeps ==
  ASSUME Inv, ul_nas_transport
  PROVE  Inv'
<1>1. PICK m : m = Head(n2_queue)
  OBVIOUS
<1>2. /\ Takes(n2_queue, "uplink") /\ n2_queue' = Tail(n2_queue)
      /\ n1_queue' = IF ranid2uecontext[m.ran].known THEN Append(n1_queue, m) ELSE n1_queue
      /\ UNCHANGED <<app_queue, sctp, n2, app, n1, crashed, radio, others>>
  BY <1>1 DEF ul_nas_transport, N2Keeps
<1>3. m \in N2Messages /\ m.type = "uplink" /\ n2_queue # <<>> /\ Head(n2_queue).type # "initial"
  BY <1>1, <1>2, N2Head
<1>4. m.ran = m.amf /\ m.amf \in Ids /\ m.amf \in AmfIds
  BY <1>1, <1>2, N2Ids
<1>5. UNCHANGED <<generated, timers, ranid2uecontext, amfueid2nas_context>>
  BY <1>2 DEF app, n1, n2
<1>6. m \in NewN1
  <2>1. m \in N1Messages
    BY <1>3 DEF N2Messages, N1Messages, MessagesOf
  <2>2. N1Message(m)'
    BY <1>3, <1>4, <1>5 DEF N1Message, Paired, Ids
  <2>3. QED
    BY <2>1, <2>2 DEF NewN1
<1>7. N2Moves /\ AppMoves /\ N1Moves /\ SctpMoves
  BY <1>2, <1>3, <1>6, N2Steps, AppSteps, N1Steps, SctpSteps DEF Inv
<1>8. Watch'
  <2>1. CASE ranid2uecontext[m.ran].known
    <3>1. m \in N1Messages
      BY <1>6 DEF NewN1
    <3>2. QED
      BY <1>2, <1>3, <1>4, <1>5, <2>1, <3>1, WatchPut
  <2>2. CASE ~ranid2uecontext[m.ran].known
    <3>1. N1Quiet
      BY <1>2, <2>2, N1Steps DEF Inv
    <3>2. QED
      BY <1>5, <3>1, WatchKept
  <2>3. QED
    BY <2>1, <2>2
<1>9. crashed' \in BOOLEAN
  BY <1>2 DEF Inv, Types, RadioTypes
<1>10. N2Types' /\ OwnConnection' /\ AppTypes' /\ OwnContext'
      /\ N1Types' /\ OwnIds' /\ OwnNas' /\ Current'
  BY <1>2, <1>5, N2TablesKept, AppTablesKept, N1TablesKept
<1>11. QED
  BY <1>2, <1>5, <1>7, <1>8, <1>9, <1>10, AmfStep

\* The first message that goes to a UE gives its connection the AMF UE NGAP ID.
LEMMA DownlinkKeeps ==
  ASSUME Inv, dl_nas_transport
  PROVE  Inv'
<1>1. PICK m : m = Head(n2_queue)
  OBVIOUS
<1>2. PICK r : r = m.ran
  OBVIOUS
<1>3. /\ Takes(n2_queue, "downlink") /\ n2_queue' = Tail(n2_queue)
      /\ \/ UNCHANGED <<n2, sctp>>
         \/ /\ ranid2uecontext' = [ranid2uecontext EXCEPT ![r].amf = m.amf]
            /\ amfueid2uecontext' = amfueid2uecontext \cup {m.amf}
            /\ sctp' = Append(sctp, m)
      /\ UNCHANGED <<app_queue, n1_queue, app, n1, crashed, radio, others>>
  BY <1>1, <1>2 DEF dl_nas_transport, N2Keeps
<1>4. n2_queue # <<>> /\ Head(n2_queue).type # "initial"
  BY <1>3, N2Head
<1>5. m.ran = m.amf /\ m.amf \in Ids /\ m.amf \in AmfIds /\ m.ran \in RanIds
  BY <1>1, <1>3, N2Ids
<1>6. UNCHANGED <<generated, timers, amfueid2nas_context>>
  BY <1>3 DEF app, n1
<1>7. m \in NewSctp
  BY <1>1, <1>3, <1>6, ToGnb
<1>8. N2Moves /\ AppMoves /\ N1Quiet /\ N1Moves /\ SctpMoves
  BY <1>3, <1>4, <1>7, N2Steps, AppSteps, N1Steps, SctpSteps DEF Inv
<1>9. ranid2uecontext \in [RanIds -> [known : BOOLEAN, amf : AmfIds \cup {None}, tmsi : Tmsi \cup {None}]]
      /\ OwnConnection /\ amfueid2uecontext \subseteq Ids
  BY DEF Inv, Types, N2Types, Own, Ids
<1>10. PICK c : c = [ranid2uecontext[r] EXCEPT !.amf = m.amf]
  OBVIOUS
<1>11. c \in [known : BOOLEAN, amf : AmfIds \cup {None}, tmsi : Tmsi \cup {None}]
       /\ c.amf = r /\ c.known = ranid2uecontext[r].known
  BY <1>2, <1>5, <1>9, <1>10
<1>12. UNCHANGED n2 \/ (/\ ranid2uecontext' = [ranid2uecontext EXCEPT ![r] = c]
                        /\ amfueid2uecontext' = amfueid2uecontext \cup {m.amf})
  BY <1>3, <1>10
<1>13. N2Types' /\ OwnConnection' /\ \A x \in RanIds : ranid2uecontext'[x].known = ranid2uecontext[x].known
  <2>1. CASE UNCHANGED n2
    BY <1>6, <2>1, N2TablesKept DEF n2
  <2>2. CASE /\ ranid2uecontext' = [ranid2uecontext EXCEPT ![r] = c]
             /\ amfueid2uecontext' = amfueid2uecontext \cup {m.amf}
    <3>1. \A x \in RanIds : ranid2uecontext'[x] = IF x = r THEN c ELSE ranid2uecontext[x]
      BY <1>9, <2>2
    <3>2. OwnConnection'
      BY <1>9, <1>11, <3>1 DEF OwnConnection
    <3>3. N2Types'
      BY <1>5, <1>6, <1>9, <1>11, <2>2 DEF N2Types, Ids
    <3>4. QED
      BY <1>11, <3>1, <3>2, <3>3
  <2>3. QED
    BY <1>12, <2>1, <2>2
<1>14. Watch'
  BY <1>6, <1>8, <1>13, WatchKept DEF RanIds
<1>15. crashed' \in BOOLEAN
  BY <1>3 DEF Inv, Types, RadioTypes
<1>16. AppTypes' /\ OwnContext' /\ N1Types' /\ OwnIds' /\ OwnNas' /\ Current'
  BY <1>3, <1>6, AppTablesKept, N1TablesKept
<1>17. QED
  BY <1>3, <1>6, <1>8, <1>13, <1>14, <1>15, <1>16, AmfStep

\* A connection ended: N2 forgets it, and if it was the last of its UE, its timer starts.
LEMMA ReleaseCompleteKeeps ==
  ASSUME Inv, ue_context_release_complete
  PROVE  Inv'
<1>1. PICK a : a = Head(n2_queue).amf
  OBVIOUS
<1>2. PICK c : c = amfueid2nas_context[a]
  OBVIOUS
<1>3. PICK n : n = [nas[c] EXCEPT !.cm = "CM_IDLE", !.unreachable = FALSE]
  OBVIOUS
<1>4. /\ Takes(n2_queue, "release complete") /\ n2_queue' = Tail(n2_queue)
      /\ UNCHANGED <<app_queue, n1_queue, sctp, app, amfueid2nas_context, supi2Id, crashed, radio, others>>
  BY DEF ue_context_release_complete
<1>5. PICK r : r = Head(n2_queue).ran
  OBVIOUS
<1>6. /\ n2_queue # <<>> /\ Head(n2_queue).type # "initial" /\ r = a /\ a \in Ids /\ a \in AmfIds
      /\ a <= generated
  <2>1. n2_queue # <<>> /\ Head(n2_queue).type = "release complete"
    BY <1>4 DEF Takes
  <2>2. N2Message(Head(n2_queue))
    BY <1>4, N2Head
  <2>3. Paired(Head(n2_queue))
    BY <2>1, <2>2 DEF N2Message
  <2>4. r = a /\ a \in Ids
    BY <1>1, <1>5, <2>3 DEF Paired
  <2>5. generated \in Nat /\ Ids \subseteq AmfIds
    BY IdsAreAmfIds DEF Inv
  <2>6. a \in AmfIds /\ a <= generated
    BY <2>4, <2>5 DEF Ids
  <2>7. Head(n2_queue).type # "initial"
    BY <2>1
  <2>8. QED
    BY <2>1, <2>4, <2>6, <2>7
<1>7. \/ UNCHANGED <<n2, nas, timers>>
      \/ /\ c # None
         /\ ranid2uecontext' = [ranid2uecontext EXCEPT ![a] = Unknown]
         /\ amfueid2uecontext' = amfueid2uecontext \ {a}
         /\ \/ nas' = [nas EXCEPT ![c] = n] /\ timers' = timers \cup {<<"mobile", a>>}
            \/ UNCHANGED <<nas, timers>>
  <2>1. \/ UNCHANGED <<n2, nas, timers>>
        \/ /\ c # None
           /\ remove_connection(r, a)
           /\ \/ nas' = [nas EXCEPT ![c].cm = "CM_IDLE", ![c].unreachable = FALSE]
                 /\ timers' = timers \cup {<<"mobile", a>>}
              \/ UNCHANGED <<nas, timers>>
    BY <1>1, <1>2, <1>5 DEF ue_context_release_complete
  <2>2. [nas EXCEPT ![c].cm = "CM_IDLE", ![c].unreachable = FALSE] = [nas EXCEPT ![c] = n]
    BY <1>3 DEF Inv, Types, N1Types, NasContexts
  <2>3. QED
    BY <1>6, <2>1, <2>2 DEF remove_connection
<1>8. UNCHANGED <<generated, opened, n1_queue, amfueid2nas_context, supi2Id>>
  BY <1>4 DEF app, radio
<1>9. N2Moves /\ AppMoves /\ N1Quiet /\ N1Moves /\ SctpMoves
  BY <1>4, <1>6, N2Steps, AppSteps, N1Steps, SctpSteps DEF Inv
<1>10. ranid2uecontext \in [RanIds -> [known : BOOLEAN, amf : AmfIds \cup {None}, tmsi : Tmsi \cup {None}]]
       /\ OwnConnection /\ amfueid2uecontext \subseteq 1..generated
       /\ Unknown \in [known : BOOLEAN, amf : AmfIds \cup {None}, tmsi : Tmsi \cup {None}]
       /\ Unknown.amf = None /\ Unknown.known = FALSE
  BY DEF Inv, Types, N2Types, Own, Unknown
<1>11. \/ UNCHANGED <<ranid2uecontext, amfueid2uecontext>>
       \/ /\ ranid2uecontext' = [ranid2uecontext EXCEPT ![a] = Unknown]
          /\ amfueid2uecontext' = amfueid2uecontext \ {a}
  BY <1>7 DEF n2
<1>12. N2Types' /\ OwnConnection'
       /\ \A x \in RanIds : ranid2uecontext'[x] = ranid2uecontext[x] \/ ranid2uecontext'[x] = Unknown
  <2>1. \A x \in RanIds : ranid2uecontext'[x] = ranid2uecontext[x] \/ ranid2uecontext'[x] = Unknown
    BY <1>10, <1>11
  <2>2. OwnConnection'
    BY <1>10, <2>1 DEF OwnConnection
  <2>3. N2Types'
    BY <1>8, <1>10, <1>11 DEF N2Types
  <2>4. QED
    BY <2>1, <2>2, <2>3
<1>13. nas \in [Contexts -> NasContexts]
  BY DEF Inv, Types, N1Types
<1>14. UNCHANGED nas \/ (c \in Contexts /\ nas' = [nas EXCEPT ![c] = n])
  <2>1. c \in Contexts \cup {None}
    BY <1>2, <1>6 DEF Inv, Types, N1Types
  <2>2. QED
    BY <1>7, <2>1
<1>15. /\ nas' \in [Contexts -> NasContexts]
       /\ \A x \in Contexts : /\ nas'[x].ue = nas[x].ue
                              /\ nas'[x].ran = nas[x].ran /\ nas'[x].amf = nas[x].amf
  <2>1. CASE UNCHANGED nas
    BY <1>13, <2>1
  <2>2. CASE c \in Contexts /\ nas' = [nas EXCEPT ![c] = n]
    <3>1. n \in NasContexts /\ n.ue = nas[c].ue /\ n.ran = nas[c].ran /\ n.amf = nas[c].amf
      BY <1>3, <1>13, <2>2 DEF NasContexts
    <3>2. QED
      BY <1>13, <2>2, <3>1
  <2>3. QED
    BY <1>14, <2>1, <2>2
<1>16. timers' \subseteq timers \cup {<<"mobile", a>>} /\ timers \subseteq timers'
       /\ (<<"mobile", a>> \in timers' => <<"mobile", a>> \in timers \/ ranid2uecontext'[a] = Unknown)
  BY <1>6, <1>7, <1>10 DEF RanIds
<1>17. N1Types'
  <2>1. /\ timers \subseteq {"mobile", "implicit"} \X AmfIds
        /\ amfueid2nas_context \in [AmfIds -> Contexts \cup {None}]
        /\ supi2Id \in [UEs -> [ran : RanIds, amf : 1..generated]]
    BY DEF Inv, Types, N1Types
  <2>2. timers' \subseteq {"mobile", "implicit"} \X AmfIds
    BY <1>6, <1>16, <2>1
  <2>3. QED
    BY <1>8, <1>15, <2>1, <2>2 DEF N1Types
<1>18. OwnIds' /\ OwnNas'
  BY <1>8, <1>15 DEF OwnIds, OwnNas, Inv, Own, Ids
<1>19. Current'
  <2> SUFFICES ASSUME NEW b \in AmfIds, amfueid2nas_context[b] # None,
                      nas'[amfueid2nas_context[b]].ue # None,
                      supi2Id[nas'[amfueid2nas_context[b]].ue].amf = b
               PROVE  nas'[amfueid2nas_context[b]].amf = b
    BY <1>8 DEF Current, None
  <2>1. amfueid2nas_context[b] \in Contexts
    BY DEF Inv, Types, N1Types
  <2>2. QED
    BY <1>15, <2>1 DEF Inv, Current
<1>20. Watch'
  <2>1. \A b \in AmfIds : Watched("implicit", b)' <=> Watched("implicit", b)
    BY <1>8, <1>16 DEF Watched
  <2>2. \A b \in AmfIds : Watched("mobile", b)' =>
          Watched("mobile", b) \/ (b = a /\ ranid2uecontext'[a] = Unknown)
    BY <1>8, <1>16 DEF Watched
  <2>3. WatchedIsGone'
    <3> SUFFICES ASSUME NEW b \in AmfIds, Watched("mobile", b)' \/ Watched("implicit", b)'
                 PROVE  b <= generated' /\ ~ranid2uecontext'[b].known
      BY DEF WatchedIsGone
    <3>1. b \in RanIds
      BY DEF RanIds
    <3>2. CASE Watched("mobile", b) \/ Watched("implicit", b)
      <4>1. b <= generated /\ ~ranid2uecontext[b].known
        BY <3>2 DEF Inv, Watch, WatchedIsGone
      <4>2. QED
        BY <1>8, <1>10, <1>12, <3>1, <4>1
    <3>3. CASE b = a /\ ranid2uecontext'[a] = Unknown
      BY <1>6, <1>8, <1>10, <3>3
    <3>4. QED
      BY <2>1, <2>2, <3>2, <3>3
  <2>4. WatchedIsKept'
    <3>1. \A j : Deregisters(n1_queue[j], j)' <=> Deregisters(n1_queue[j], j)
      BY <1>8 DEF Deregisters
    <3>2. QED
      BY <1>8, <2>1 DEF WatchedIsKept, Inv, Watch, Deregisters
  <2>5. DeregisteredBefore'
    BY <1>8 DEF DeregisteredBefore, Inv, Watch, Deregisters
  <2>6. QED
    BY <2>3, <2>4, <2>5 DEF Watch
<1>21. crashed' \in BOOLEAN
  BY <1>4 DEF Inv, Types, RadioTypes
<1>22. AppTypes' /\ OwnContext'
  BY <1>4, AppTablesKept
<1>23. QED
  BY <1>4, <1>8, <1>9, <1>12, <1>17, <1>18, <1>19, <1>20, <1>21, <1>22, AmfStep

\* All connections of the gNB go: those that a timer is about are gone already.
LEMMA NgResetKeeps ==
  ASSUME Inv, ng_reset
  PROVE  Inv'
<1>1. PICK known : known = {r \in RanIds : ranid2uecontext[r].known}
  OBVIOUS
<1>2. PICK gone : gone = {ranid2uecontext[r].amf : r \in known}
  OBVIOUS
<1>3. /\ Takes(n2_queue, "reset") /\ n2_queue' = Tail(n2_queue)
      /\ amfueid2nas_context' = [a \in AmfIds |-> IF a \in gone THEN None ELSE amfueid2nas_context[a]]
      /\ amfueid2uecontext' = amfueid2uecontext \ gone
      /\ ranid2uecontext' = [r \in RanIds |-> Unknown]
      /\ UNCHANGED <<app_queue, n1_queue, sctp, app, supi2Id, nas, timers, crashed, radio, others>>
  BY <1>1, <1>2 DEF ng_reset
<1>4. n2_queue # <<>> /\ Head(n2_queue).type # "initial"
  BY <1>3, N2Head
<1>5. UNCHANGED <<generated, timers>>
  BY <1>3 DEF app
<1>6. N2Moves /\ AppMoves /\ N1Quiet /\ N1Moves /\ SctpMoves
  BY <1>3, <1>4, N2Steps, AppSteps, N1Steps, SctpSteps DEF Inv
<1>7. Unknown \in [known : BOOLEAN, amf : AmfIds \cup {None}, tmsi : Tmsi \cup {None}]
      /\ Unknown.amf = None /\ Unknown.known = FALSE
  BY DEF Unknown
<1>8. N2Types' /\ OwnConnection'
  BY <1>3, <1>5, <1>7 DEF N2Types, OwnConnection, Inv, Types
<1>9. \A a \in AmfIds : amfueid2nas_context'[a] \in {None, amfueid2nas_context[a]}
  BY <1>3
<1>10. N1Types' /\ OwnIds' /\ OwnNas'
  <2>1. amfueid2nas_context' \in [AmfIds -> Contexts \cup {None}]
    BY <1>3 DEF Inv, Types, N1Types
  <2>2. QED
    BY <1>3, <1>5, <2>1 DEF Inv, Types, N1Types, Own, OwnIds, OwnNas, Ids
<1>11. Current'
  BY <1>3, <1>9, CurrentKept
<1>12. \A a \in AmfIds : Watched("implicit", a) =>
         (amfueid2nas_context[a] # None => amfueid2nas_context'[a] # None)
  <2> SUFFICES ASSUME NEW a \in AmfIds, Watched("implicit", a), a \in gone PROVE FALSE
    BY <1>3
  <2>1. PICK r \in RanIds : ranid2uecontext[r].known /\ a = ranid2uecontext[r].amf
    BY <1>1, <1>2
  <2>2. a # None
    BY IdsAreAmfIds DEF Inv
  <2>3. r = a
    BY <2>1, <2>2 DEF Inv, Own, OwnConnection
  <2>4. QED
    BY <2>1, <2>3 DEF Inv, Watch, WatchedIsGone
<1>13. Watch'
  <2>1. \A a \in AmfIds : ~ranid2uecontext'[a].known
    BY <1>3, <1>7 DEF RanIds
  <2>2. QED
    BY <1>5, <1>6, <1>12, <2>1, WatchKept
<1>14. crashed' \in BOOLEAN
  BY <1>3 DEF Inv, Types, RadioTypes
<1>15. AppTypes' /\ OwnContext'
  BY <1>3, AppTablesKept
<1>16. QED
  BY <1>3, <1>5, <1>6, <1>8, <1>10, <1>11, <1>13, <1>14, <1>15, AmfStep

\* The first message of a connection goes to APP, as the last.
LEMMA InitialKeeps ==
  ASSUME Inv, initial_ue_message
  PROVE  Inv'
<1>1. PICK m : m = Head(n2_queue)
  OBVIOUS
<1>2. PICK c : c = [known |-> TRUE, amf |-> ranid2uecontext[m.ran].amf,
                    tmsi |-> IF m.tmsi = None THEN ranid2uecontext[m.ran].tmsi ELSE m.tmsi]
  OBVIOUS
<1>3. /\ Takes(n2_queue, "initial") /\ n2_queue' = Tail(n2_queue)
      /\ ranid2uecontext' = [ranid2uecontext EXCEPT ![m.ran] = c]
      /\ app_queue' = Append(app_queue, m)
      /\ UNCHANGED <<n1_queue, sctp, amfueid2uecontext, app, n1, crashed, radio, others>>
  BY <1>1, <1>2 DEF initial_ue_message, N2Keeps
<1>4. m \in N2Messages /\ m.type = "initial" /\ Fresh(m) /\ n2_queue # <<>>
  BY <1>1, <1>3, N2Head DEF N2Message
<1>5. UNCHANGED <<generated, opened, gnb>> /\ generated \in Nat /\ opened \in Nat
  BY <1>3, IdsAreAmfIds DEF app, radio, Inv
<1>6. m.ran \in (generated + 1)..opened /\ m.ran \in RanIds /\ m.ran > generated
  BY <1>4, <1>5 DEF Fresh, Inv, Types, RadioTypes, RanIds, AmfIds
<1>7. /\ n2_queue' \in Seq(N2Messages) /\ DOMAIN n2_queue = 1..Len(n2_queue) /\ Len(n2_queue) \in Nat
      /\ \A i \in DOMAIN n2_queue' : i + 1 \in DOMAIN n2_queue /\ n2_queue'[i] = n2_queue[i + 1]
      /\ \A j \in DOMAIN n2_queue : j # 1 => j - 1 \in DOMAIN n2_queue'
      /\ 1 \in DOMAIN n2_queue /\ n2_queue[1] = m
  <2>1. n2_queue \in Seq(N2Messages)
    BY DEF Inv, Types, QueueTypes
  <2>2. QED
    BY <1>1, <1>3, <1>4, <2>1, Taking
<1>8. /\ app_queue' \in Seq(AppMessages) /\ DOMAIN app_queue = 1..Len(app_queue)
      /\ Len(app_queue) \in Nat /\ DOMAIN app_queue' = 1..(Len(app_queue) + 1)
      /\ \A i \in DOMAIN app_queue' : \/ i \in DOMAIN app_queue /\ app_queue'[i] = app_queue[i]
                                      \/ i = Len(app_queue) + 1 /\ app_queue'[i] = m
      /\ \A i \in DOMAIN app_queue : i \in DOMAIN app_queue' /\ app_queue'[i] = app_queue[i]
      /\ app_queue'[Len(app_queue) + 1] = m
  <2>1. app_queue \in Seq(AppMessages)
    BY DEF Inv, Types, QueueTypes
  <2>2. m \in AppMessages
    BY <1>4 DEF N2Messages, AppMessages, MessagesOf
  <2>3. QED
    BY <1>3, <2>1, <2>2, Putting
<1>9. QueueTypes'
  BY <1>3, <1>7, <1>8 DEF Inv, Types, QueueTypes
<1>10. AllMessages'
  <2>1. ASSUME NEW i \in DOMAIN n2_queue' PROVE N2Message(n2_queue[i])'
    <3>1. N2Message(n2_queue[i + 1]) /\ n2_queue'[i] = n2_queue[i + 1]
      BY <1>7 DEF Inv, AllMessages
    <3>2. QED
      BY <1>5, <3>1 DEF N2Message, Fresh, Paired, Ids, Free
  <2>2. ASSUME NEW i \in DOMAIN app_queue' PROVE AppMessage(app_queue[i])'
    <3>1. CASE i \in DOMAIN app_queue /\ app_queue'[i] = app_queue[i]
      <4>1. AppMessage(app_queue[i])
        BY <3>1 DEF Inv, AllMessages
      <4>2. QED
        BY <1>5, <3>1, <4>1 DEF AppMessage, Fresh
    <3>2. CASE app_queue'[i] = m
      BY <1>4, <1>5, <3>2 DEF AppMessage, Fresh
    <3>3. QED
      BY <1>8, <3>1, <3>2
  <2>3. ASSUME NEW i \in DOMAIN n1_queue' PROVE N1Message(n1_queue[i])'
    BY <1>3, <1>5 DEF Inv, AllMessages, N1Message, Paired, Ids
  <2>4. ASSUME NEW i \in DOMAIN sctp' PROVE Paired(sctp[i])'
    BY <1>3, <1>5 DEF Inv, AllMessages, Paired, Ids
  <2>5. QED
    BY <2>1, <2>2, <2>3, <2>4 DEF AllMessages
<1>11. Order'
  <2>1. /\ \A i \in Initials(n2_queue') : i + 1 \in Initials(n2_queue) /\ n2_queue'[i] = n2_queue[i + 1]
        /\ \A j \in Initials(n2_queue) : j # 1 => j - 1 \in Initials(n2_queue') /\ n2_queue'[j - 1] = n2_queue[j]
        /\ 1 \in Initials(n2_queue) /\ Initials(n2_queue') \subseteq Nat \ {0}
    <3>1. DOMAIN n2_queue' \subseteq Nat \ {0}
      BY <1>7
    <3>2. \A j \in DOMAIN n2_queue : j # 1 => n2_queue'[j - 1] = n2_queue[j]
      BY <1>7
    <3>3. QED
      BY <1>4, <1>7, <3>1, <3>2 DEF Initials
  <2>2. /\ \A i \in Initials(app_queue') : \/ i \in Initials(app_queue) /\ app_queue'[i] = app_queue[i]
                                           \/ i = Len(app_queue) + 1 /\ app_queue'[i] = m
        /\ \A i \in Initials(app_queue) : i \in Initials(app_queue') /\ app_queue'[i] = app_queue[i]
        /\ Len(app_queue) + 1 \in Initials(app_queue')
        /\ Initials(app_queue) \subseteq 1..Len(app_queue)
    BY <1>4, <1>8 DEF Initials
  <2>3. \A i \in Initials(app_queue) : app_queue[i].ran < m.ran
    BY <1>7, <2>1 DEF Inv, Order
  <2>4. \A j \in Initials(n2_queue') : m.ran < n2_queue'[j].ran
    <3> SUFFICES ASSUME NEW j \in Initials(n2_queue') PROVE m.ran < n2_queue'[j].ran
      OBVIOUS
    <3>1. j + 1 \in Initials(n2_queue) /\ 1 \in Initials(n2_queue) /\ 1 < j + 1
      BY <2>1
    <3>2. n2_queue[1].ran < n2_queue[j + 1].ran
      BY <3>1 DEF Inv, Order
    <3>3. QED
      BY <1>7, <2>1, <3>2
  <2>5. \A i, j \in Initials(n2_queue') : i < j => n2_queue'[i].ran < n2_queue'[j].ran
    <3> SUFFICES ASSUME NEW i \in Initials(n2_queue'), NEW j \in Initials(n2_queue'), i < j
                 PROVE  n2_queue'[i].ran < n2_queue'[j].ran
      OBVIOUS
    <3>1. i + 1 \in Initials(n2_queue) /\ j + 1 \in Initials(n2_queue) /\ i + 1 < j + 1
      BY <2>1
    <3>2. n2_queue[i + 1].ran < n2_queue[j + 1].ran
      BY <3>1 DEF Inv, Order
    <3>3. QED
      BY <2>1, <3>2
  <2>6. \A i, j \in Initials(app_queue') : i < j => app_queue'[i].ran < app_queue'[j].ran
    <3> SUFFICES ASSUME NEW i \in Initials(app_queue'), NEW j \in Initials(app_queue'), i < j
                 PROVE  app_queue'[i].ran < app_queue'[j].ran
      OBVIOUS
    <3>1. i \in Initials(app_queue) /\ app_queue'[i] = app_queue[i]
      BY <1>8, <2>2 DEF Initials
    <3>2. CASE j \in Initials(app_queue) /\ app_queue'[j] = app_queue[j]
      BY <3>1, <3>2 DEF Inv, Order
    <3>3. CASE app_queue'[j] = m
      BY <2>3, <3>1, <3>3
    <3>4. QED
      BY <2>2, <3>2, <3>3
  <2>7. \A i \in Initials(app_queue'), j \in Initials(n2_queue') :
          app_queue'[i].ran < n2_queue'[j].ran
    <3> SUFFICES ASSUME NEW i \in Initials(app_queue'), NEW j \in Initials(n2_queue')
                 PROVE  app_queue'[i].ran < n2_queue'[j].ran
      OBVIOUS
    <3>1. CASE i \in Initials(app_queue) /\ app_queue'[i] = app_queue[i]
      BY <2>1, <3>1 DEF Inv, Order
    <3>2. CASE app_queue'[i] = m
      BY <2>4, <3>2
    <3>3. QED
      BY <2>2, <3>1, <3>2
  <2>8. \A r \in (generated + 1)..opened :
          \/ \E i \in Initials(app_queue') : app_queue'[i].ran = r
          \/ \E i \in Initials(n2_queue') : n2_queue'[i].ran = r
    <3> SUFFICES ASSUME NEW r \in (generated + 1)..opened
                 PROVE  \/ \E i \in Initials(app_queue') : app_queue'[i].ran = r
                        \/ \E i \in Initials(n2_queue') : n2_queue'[i].ran = r
      OBVIOUS
    <3>1. \/ \E i \in Initials(app_queue) : app_queue[i].ran = r
          \/ \E i \in Initials(n2_queue) : n2_queue[i].ran = r
      BY DEF Inv, Order
    <3>2. CASE \E i \in Initials(app_queue) : app_queue[i].ran = r
      BY <2>2, <3>2
    <3>3. CASE \E i \in Initials(n2_queue) : n2_queue[i].ran = r
      <4>1. PICK j \in Initials(n2_queue) : n2_queue[j].ran = r
        BY <3>3
      <4>2. CASE j = 1
        BY <1>7, <1>8, <2>2, <4>1, <4>2
      <4>3. CASE j # 1
        BY <2>1, <4>1, <4>3
      <4>4. QED
        BY <4>2, <4>3
    <3>4. QED
      BY <3>1, <3>2, <3>3
  <2>9. Initials(n2_queue)' = Initials(n2_queue') /\ Initials(app_queue)' = Initials(app_queue')
    BY DEF Initials
  <2>10. generated <= opened
    BY DEF Inv, Order
  <2>11. QED
    BY <1>5, <2>5, <2>6, <2>7, <2>8, <2>9, <2>10 DEF Order
<1>12. ranid2uecontext \in [RanIds -> [known : BOOLEAN, amf : AmfIds \cup {None}, tmsi : Tmsi \cup {None}]]
       /\ OwnConnection
  BY DEF Inv, Types, N2Types, Own
<1>13. c \in [known : BOOLEAN, amf : AmfIds \cup {None}, tmsi : Tmsi \cup {None}]
       /\ c.amf = ranid2uecontext[m.ran].amf
  <2>1. m.tmsi \in Tmsi \cup {None}
    BY <1>4 DEF N2Messages, MessagesOf
  <2>2. QED
    BY <1>2, <1>6, <1>12, <2>1
<1>14. \A x \in RanIds : ranid2uecontext'[x] = IF x = m.ran THEN c ELSE ranid2uecontext[x]
  BY <1>3, <1>12
<1>15. N2Types' /\ OwnConnection'
  <2>1. OwnConnection'
    BY <1>12, <1>13, <1>14 DEF OwnConnection
  <2>2. N2Types'
    BY <1>3, <1>5, <1>12, <1>13 DEF N2Types, Inv, Types
  <2>3. QED
    BY <2>1, <2>2
<1>16. Watch'
  <2>1. N1Quiet
    BY <1>3, N1Steps DEF Inv
  <2>2. \A a \in AmfIds : Watched("mobile", a) \/ Watched("implicit", a) =>
          (~ranid2uecontext[a].known => ~ranid2uecontext'[a].known)
    <3> SUFFICES ASSUME NEW a \in AmfIds, Watched("mobile", a) \/ Watched("implicit", a),
                        ~ranid2uecontext[a].known
                 PROVE  ~ranid2uecontext'[a].known
      OBVIOUS
    <3>1. a <= generated /\ a \in Nat
      BY IdsAreAmfIds DEF Inv, Watch, WatchedIsGone
    <3>2. a # m.ran
      BY <1>5, <1>6, <3>1 DEF RanIds, AmfIds
    <3>3. QED
      BY <1>14, <3>2 DEF RanIds
  <2>3. UNCHANGED <<timers, amfueid2nas_context>>
    BY <1>3 DEF n1
  <2>4. QED
    BY <1>5, <2>1, <2>2, <2>3, WatchKept
<1>17. AppTypes' /\ OwnContext' /\ N1Types' /\ OwnIds' /\ OwnNas' /\ Current'
  BY <1>3, <1>5, AppTablesKept, N1TablesKept
<1>18. RadioTypes' /\ OwnRadio'
  <2>1. generated' \in Nat /\ generated' >= generated /\ others' \in 0..MaxEvents /\ crashed' \in BOOLEAN
    BY <1>3, <1>5 DEF Inv, Types, RadioTypes
  <2>2. QED
    BY <1>3, <2>1, RadioKept
<1>19. QED
  BY <1>9, <1>10, <1>11, <1>15, <1>16, <1>17, <1>18 DEF Inv, Types, Own

-----------------------------------------------------------------------------
(* TASK_AMF_APP.                                                            *)

\* The first of APP's first messages is of the connection whose turn it is, and all
\* others come later.
LEMMA InTurn ==
  ASSUME Inv, Takes(app_queue, "initial")
  PROVE  /\ Head(app_queue).ran = generated + 1
         /\ \A i \in Initials(app_queue) : i # 1 => app_queue[i].ran \in (generated + 2)..opened
         /\ \A j \in Initials(n2_queue) : n2_queue[j].ran \in (generated + 2)..opened
<1>1. PICK m : m = Head(app_queue)
  OBVIOUS
<1>2. m.type = "initial" /\ Fresh(m) /\ m = app_queue[1] /\ 1 \in Initials(app_queue)
  BY <1>1, AppHead DEF AppMessage, Initials
<1>3. /\ generated \in Nat /\ opened \in Nat /\ m.ran \in (generated + 1)..opened
      /\ Initials(app_queue) \subseteq Nat \ {0}
  BY <1>2, IdsAreAmfIds DEF Fresh, Inv, Initials, Types, QueueTypes
<1>4. \A i \in Initials(app_queue) : app_queue[i].ran \in (generated + 1)..opened
  BY DEF Inv, AllMessages, AppMessage, Fresh, Initials
<1>5. \A j \in Initials(n2_queue) : n2_queue[j].ran \in (generated + 1)..opened
  BY DEF Inv, AllMessages, N2Message, Fresh, Initials
<1>6. \A i \in Initials(app_queue) : i # 1 => m.ran < app_queue[i].ran
  BY <1>2, <1>3 DEF Inv, Order
<1>7. \A j \in Initials(n2_queue) : m.ran < n2_queue[j].ran
  BY <1>2 DEF Inv, Order
<1>8. m.ran = generated + 1
  <2>1. generated + 1 \in (generated + 1)..opened
    BY <1>3
  <2>2. \/ \E i \in Initials(app_queue) : app_queue[i].ran = generated + 1
        \/ \E i \in Initials(n2_queue) : n2_queue[i].ran = generated + 1
    BY <2>1 DEF Inv, Order
  <2>3. CASE \E i \in Initials(app_queue) : app_queue[i].ran = generated + 1
    BY <1>2, <1>3, <1>6, <2>3
  <2>4. CASE \E i \in Initials(n2_queue) : n2_queue[i].ran = generated + 1
    BY <1>3, <1>7, <2>4
  <2>5. QED
    BY <2>2, <2>3, <2>4
<1>9. QED
  BY <1>1, <1>3, <1>4, <1>5, <1>6, <1>7, <1>8

\* A connection gets its AMF UE NGAP ID, which is its RAN UE NGAP ID.
LEMMA EstablishmentKeeps ==
  ASSUME Inv, nas_signalling_establishment_request
  PROVE  Inv'
<1>1. PICK m : m = Head(app_queue)
  OBVIOUS
<1>2. PICK a : a = generated + 1
  OBVIOUS
<1>3. PICK n : n = [m EXCEPT !.amf = a]
  OBVIOUS
<1>4. PICK x : x = [ue_context[a] EXCEPT !.ran = m.ran]
  OBVIOUS
<1>5. PICK c : c = [ranid2uecontext[m.ran] EXCEPT !.amf = a]
  OBVIOUS
<1>6. /\ Takes(app_queue, "initial") /\ app_queue' = Tail(app_queue) /\ generated' = a
      /\ ue_context' = [ue_context EXCEPT ![a] = x]
      /\ \/ UNCHANGED <<ranid2uecontext, amfueid2uecontext>>
         \/ /\ ranid2uecontext' = [ranid2uecontext EXCEPT ![m.ran] = c]
            /\ amfueid2uecontext' = amfueid2uecontext \cup {a}
      /\ n1_queue' = Append(n1_queue, n)
      /\ UNCHANGED <<n2_queue, sctp, n1, crashed, radio, others>>
  BY <1>1, <1>2, <1>3, <1>4, <1>5
     DEF nas_signalling_establishment_request, generate_amf_ue_ngap_id, n2
<1>7. /\ m \in AppMessages /\ m.type = "initial" /\ Fresh(m) /\ app_queue # <<>>
      /\ m = app_queue[1] /\ 1 \in DOMAIN app_queue
  BY <1>1, <1>6, AppHead DEF AppMessage
<1>8. /\ m.ran = a
      /\ \A i \in Initials(app_queue) : i # 1 => app_queue[i].ran \in (a + 1)..opened
      /\ \A j \in Initials(n2_queue) : n2_queue[j].ran \in (a + 1)..opened
  <2>1. generated \in Nat
    BY IdsAreAmfIds DEF Inv
  <2>2. generated + 2 = a + 1
    BY <1>2, <2>1
  <2>3. QED
    BY <1>1, <1>2, <1>6, <2>2, InTurn
<1>9. /\ generated \in Nat /\ opened \in Nat /\ a \in Nat /\ a <= opened /\ a \in AmfIds /\ a \in RanIds
      /\ UNCHANGED <<opened, gnb, timers, amfueid2nas_context>>
  <2>1. generated \in Nat /\ opened \in Nat /\ opened \in AmfIds
    BY IdsAreAmfIds DEF Inv, Types, RadioTypes
  <2>2. a \in (generated + 1)..opened
    BY <1>7, <1>8 DEF Fresh
  <2>3. a \in AmfIds /\ a \in RanIds
    BY <2>1, <2>2 DEF AmfIds, RanIds
  <2>4. QED
    BY <1>2, <1>6, <2>1, <2>2, <2>3 DEF radio, n1
<1>10. Ids' = 1..a /\ Ids \subseteq 1..a /\ a \in 1..a
  BY <1>2, <1>6, <1>9 DEF Ids
<1>11. n \in N1Messages /\ n.type = "initial" /\ n.ran = a /\ n.amf = a /\ n.what \in Requests
  <2>1. m.what \in Requests /\ m \in MessagesOf({"initial", "transfer"})
    BY <1>7 DEF Fresh, AppMessages
  <2>2. n \in [type : {"initial", "transfer"}, ran : RanIds \cup {None}, amf : AmfIds \cup {None},
               what : Whats, ue : UEs \cup {None}, tmsi : Tmsi \cup {None}]
        /\ n.type = m.type /\ n.ran = m.ran /\ n.amf = a /\ n.what = m.what
    BY <1>3, <1>9, <2>1 DEF MessagesOf
  <2>3. QED
    BY <1>7, <1>8, <2>1, <2>2 DEF N1Messages, MessagesOf
<1>12. n \in QuietN1
  <2>1. N1Message(n)'
    BY <1>10, <1>11 DEF N1Message, Paired
  <2>2. QED
    BY <1>11, <2>1 DEF QuietN1, NewN1
<1>13. N1Quiet
  BY <1>6, <1>12, N1Steps DEF Inv
<1>14. /\ app_queue' \in Seq(AppMessages) /\ DOMAIN app_queue' \subseteq Nat \ {0}
       /\ \A i \in DOMAIN app_queue' : i + 1 \in DOMAIN app_queue /\ app_queue'[i] = app_queue[i + 1]
       /\ \A j \in DOMAIN app_queue : j # 1 => j - 1 \in DOMAIN app_queue' /\ app_queue'[j - 1] = app_queue[j]
       /\ DOMAIN app_queue \subseteq Nat \ {0}
  <2>1. app_queue \in Seq(AppMessages)
    BY DEF Inv, Types, QueueTypes
  <2>2. QED
    BY <1>6, <1>7, <2>1, Taking
<1>15. QueueTypes'
  <2>1. n1_queue' \in Seq(N1Messages)
    BY <1>13 DEF N1Quiet
  <2>2. QED
    BY <1>6, <1>14, <2>1 DEF Inv, Types, QueueTypes
<1>16. AllMessages'
  <2>1. ASSUME NEW i \in DOMAIN n2_queue' PROVE N2Message(n2_queue[i])'
    <3>1. PICK y : y = n2_queue[i]
      OBVIOUS
    <3>2. N2Message(y) /\ n2_queue'[i] = y
      BY <1>6, <2>1, <3>1 DEF Inv, AllMessages
    <3>3. y.type = "initial" => y.ran \in (a + 1)..opened
      BY <1>6, <1>8, <2>1, <3>1 DEF Initials
    <3>4. N2Message(y)'
      BY <1>6, <1>9, <1>10, <3>2, <3>3 DEF N2Message, Fresh, Paired, Free
    <3>5. QED
      BY <3>2, <3>4 DEF N2Message, Fresh, Paired, Ids
  <2>2. ASSUME NEW i \in DOMAIN app_queue' PROVE AppMessage(app_queue[i])'
    <3>1. PICK y : y = app_queue[i + 1]
      OBVIOUS
    <3>2. i + 1 \in DOMAIN app_queue /\ i + 1 # 1 /\ app_queue'[i] = y
      BY <1>14, <3>1
    <3>3. AppMessage(y)
      BY <3>1, <3>2 DEF Inv, AllMessages
    <3>4. y.type = "initial" => y.ran \in (a + 1)..opened
      BY <1>8, <3>1, <3>2 DEF Initials
    <3>5. AppMessage(y)'
      BY <1>6, <1>9, <3>3, <3>4 DEF AppMessage, Fresh
    <3>6. QED
      BY <3>2, <3>5 DEF AppMessage, Fresh
  <2>3. ASSUME NEW i \in DOMAIN n1_queue' PROVE N1Message(n1_queue[i])'
    <3>1. \/ i \in DOMAIN n1_queue /\ n1_queue'[i] = n1_queue[i]
          \/ n1_queue'[i] = n
      <4>1. n1_queue \in Seq(N1Messages)
        BY DEF Inv, Types, QueueTypes
      <4>2. QED
        BY <1>6, <1>11, <4>1, Putting
    <3>2. CASE i \in DOMAIN n1_queue /\ n1_queue'[i] = n1_queue[i]
      <4>1. N1Message(n1_queue[i])
        BY <3>2 DEF Inv, AllMessages
      <4>2. QED
        BY <1>10, <3>2, <4>1 DEF N1Message, Paired
    <3>3. CASE n1_queue'[i] = n
      BY <1>10, <1>11, <3>3 DEF N1Message, Paired
    <3>4. QED
      BY <3>1, <3>2, <3>3
  <2>4. ASSUME NEW i \in DOMAIN sctp' PROVE Paired(sctp[i])'
    <3>1. Paired(sctp[i]) /\ sctp'[i] = sctp[i]
      BY <1>6, <2>4 DEF Inv, AllMessages
    <3>2. QED
      BY <1>10, <3>1 DEF Paired
  <2>5. QED
    BY <2>1, <2>2, <2>3, <2>4 DEF AllMessages
<1>17. Order'
  <2>1. /\ \A i \in Initials(app_queue') : i + 1 \in Initials(app_queue) /\ app_queue'[i] = app_queue[i + 1]
        /\ \A j \in Initials(app_queue) : j # 1 => j - 1 \in Initials(app_queue') /\ app_queue'[j - 1] = app_queue[j]
        /\ Initials(app_queue') \subseteq Nat \ {0}
    BY <1>14 DEF Initials
  <2>2. Initials(n2_queue)' = Initials(n2_queue) /\ Initials(app_queue)' = Initials(app_queue')
    BY <1>6 DEF Initials
  <2>3. \A i, j \in Initials(app_queue') : i < j => app_queue'[i].ran < app_queue'[j].ran
    <3> SUFFICES ASSUME NEW i \in Initials(app_queue'), NEW j \in Initials(app_queue'), i < j
                 PROVE  app_queue'[i].ran < app_queue'[j].ran
      OBVIOUS
    <3>1. i + 1 \in Initials(app_queue) /\ j + 1 \in Initials(app_queue) /\ i + 1 < j + 1
      BY <2>1
    <3>2. app_queue[i + 1].ran < app_queue[j + 1].ran
      BY <3>1 DEF Inv, Order
    <3>3. QED
      BY <2>1, <3>2
  <2>4. \A i \in Initials(app_queue'), j \in Initials(n2_queue) :
          app_queue'[i].ran < n2_queue[j].ran
    BY <2>1 DEF Inv, Order
  <2>5. \A i, j \in Initials(n2_queue) : i < j => n2_queue[i].ran < n2_queue[j].ran
    BY DEF Inv, Order
  <2>6. \A r \in (a + 1)..opened :
          \/ \E i \in Initials(app_queue') : app_queue'[i].ran = r
          \/ \E i \in Initials(n2_queue) : n2_queue[i].ran = r
    <3> SUFFICES ASSUME NEW r \in (a + 1)..opened
                 PROVE  \/ \E i \in Initials(app_queue') : app_queue'[i].ran = r
                        \/ \E i \in Initials(n2_queue) : n2_queue[i].ran = r
      OBVIOUS
    <3>1. r \in (generated + 1)..opened /\ r # a
      BY <1>2, <1>9
    <3>2. \/ \E i \in Initials(app_queue) : app_queue[i].ran = r
          \/ \E i \in Initials(n2_queue) : n2_queue[i].ran = r
      BY <3>1 DEF Inv, Order
    <3>3. CASE \E i \in Initials(app_queue) : app_queue[i].ran = r
      <4>1. PICK i \in Initials(app_queue) : app_queue[i].ran = r
        BY <3>3
      <4>2. i # 1
        BY <1>7, <1>8, <3>1, <4>1
      <4>3. QED
        BY <2>1, <4>1, <4>2
    <3>4. QED
      BY <3>2, <3>3
  <2>7. QED
    BY <1>6, <1>9, <2>2, <2>3, <2>4, <2>5, <2>6 DEF Order
<1>18. AppTypes' /\ OwnContext'
  <2>1. ue_context \in [AmfIds -> [ran : RanIds \cup {None}, tmsi : Tmsi]]
        /\ \A b \in AmfIds : ue_context[b].ran = IF b <= generated THEN b ELSE None
    BY DEF Inv, Types, AppTypes, Own, OwnContext
  <2>2. x \in [ran : RanIds \cup {None}, tmsi : Tmsi] /\ x.ran = a
    BY <1>4, <1>8, <1>9, <2>1
  <2>3. AppTypes'
    BY <1>6, <1>9, <2>1, <2>2 DEF AppTypes
  <2>4. \A b \in AmfIds : ue_context'[b].ran = IF b <= a THEN b ELSE None
    <3> SUFFICES ASSUME NEW b \in AmfIds PROVE ue_context'[b].ran = IF b <= a THEN b ELSE None
      OBVIOUS
    <3>1. b \in Nat
      BY DEF AmfIds
    <3>2. ue_context'[b] = IF b = a THEN x ELSE ue_context[b]
      BY <1>6, <1>9, <2>1
    <3>3. CASE b = a
      BY <1>9, <2>2, <3>2, <3>3
    <3>4. CASE b # a
      <4>1. b <= a <=> b <= generated
        BY <1>2, <1>9, <3>1, <3>4
      <4>2. QED
        BY <2>1, <3>2, <3>4, <4>1
    <3>5. QED
      BY <3>3, <3>4
  <2>5. QED
    BY <1>6, <2>3, <2>4 DEF OwnContext
<1>19. N2Types' /\ OwnConnection' /\ \A r \in RanIds : ranid2uecontext'[r].known = ranid2uecontext[r].known
  <2>1. ranid2uecontext \in [RanIds -> [known : BOOLEAN, amf : AmfIds \cup {None}, tmsi : Tmsi \cup {None}]]
        /\ OwnConnection /\ amfueid2uecontext \subseteq Ids
    BY DEF Inv, Types, N2Types, Own, Ids
  <2>2. c \in [known : BOOLEAN, amf : AmfIds \cup {None}, tmsi : Tmsi \cup {None}]
        /\ c.amf = m.ran /\ c.known = ranid2uecontext[m.ran].known
    BY <1>5, <1>8, <1>9, <2>1
  <2>3. \A r \in RanIds : ranid2uecontext'[r] = ranid2uecontext[r] \/ (r = m.ran /\ ranid2uecontext'[r] = c)
    BY <1>6, <2>1
  <2>4. OwnConnection' /\ \A r \in RanIds : ranid2uecontext'[r].known = ranid2uecontext[r].known
    BY <2>1, <2>2, <2>3 DEF OwnConnection
  <2>5. amfueid2uecontext' \subseteq 1..generated'
    BY <1>6, <1>10, <2>1
  <2>6. ranid2uecontext' \in [RanIds -> [known : BOOLEAN, amf : AmfIds \cup {None}, tmsi : Tmsi \cup {None}]]
    BY <1>6, <2>1, <2>2
  <2>7. QED
    BY <2>4, <2>5, <2>6 DEF N2Types
<1>20. N1Types' /\ OwnIds' /\ OwnNas' /\ Current'
  <2>1. UNCHANGED <<amfueid2nas_context, supi2Id, nas, timers>>
    BY <1>6 DEF n1
  <2>2. supi2Id \in [UEs -> [ran : RanIds, amf : 1..a]]
    BY <1>10 DEF Inv, Types, N1Types, Ids
  <2>3. N1Types'
    BY <1>6, <2>1, <2>2 DEF Inv, Types, N1Types
  <2>4. OwnIds' /\ OwnNas'
    BY <1>10, <2>1 DEF Inv, Own, OwnIds, OwnNas
  <2>5. Current'
    BY <2>1, CurrentKept
  <2>6. QED
    BY <2>3, <2>4, <2>5
<1>21. Watch'
  <2>1. generated' \in Nat /\ generated' >= generated
    BY <1>2, <1>6, <1>9
  <2>2. \A b \in AmfIds : ranid2uecontext'[b].known = ranid2uecontext[b].known
    BY <1>19 DEF RanIds
  <2>3. QED
    BY <1>9, <1>13, <2>1, <2>2, WatchMoves
<1>22. RadioTypes' /\ OwnRadio'
  <2>1. generated' \in Nat /\ generated' >= generated /\ others' \in 0..MaxEvents /\ crashed' \in BOOLEAN
    BY <1>2, <1>6, <1>9 DEF Inv, Types, RadioTypes
  <2>2. QED
    BY <1>6, <2>1, RadioKept
<1>23. QED
  BY <1>15, <1>16, <1>17, <1>18, <1>19, <1>20, <1>21, <1>22 DEF Inv, Types, Own

\* What the SMF has for a UE goes out with the ids of the UE's last connection.
LEMMA TransferRequestKeeps ==
  ASSUME Inv, n1n2_message_transfer_request
  PROVE  Inv'
<1>1. PICK m : m = Head(app_queue)
  OBVIOUS
<1>2. PICK id : id = supi2Id[m.ue]
  OBVIOUS
<1>3. PICK p : p = Ngap("paging", id.ran, id.amf)
  OBVIOUS
<1>4. PICK n : n = [m EXCEPT !.ran = id.ran, !.amf = id.amf]
  OBVIOUS
<1>5. /\ Takes(app_queue, "transfer") /\ app_queue' = Tail(app_queue)
      /\ \/ n2_queue' = Append(n2_queue, p) /\ UNCHANGED n1_queue
         \/ n1_queue' = Append(n1_queue, n) /\ UNCHANGED n2_queue
      /\ UNCHANGED <<sctp, n2, app, n1, crashed, radio, others>>
  BY <1>1, <1>2, <1>3, <1>4 DEF n1n2_message_transfer_request
<1>6. /\ m \in AppMessages /\ m.type = "transfer" /\ m.ue \in UEs /\ app_queue # <<>>
      /\ Head(app_queue).type # "initial"
  BY <1>1, <1>5, AppHead DEF AppMessage
<1>7. UNCHANGED <<generated, opened, timers, ranid2uecontext, amfueid2nas_context>>
  BY <1>5 DEF app, radio, n1, n2
<1>8. id.ran = id.amf /\ id.amf \in Ids /\ id.ran \in RanIds /\ id.amf \in AmfIds
  <2>1. id.ran = id.amf /\ id.amf \in Ids
    BY <1>2, <1>6 DEF Inv, Types, N1Types, Own, OwnIds, Ids
  <2>2. QED
    BY <2>1, IdsAreAmfIds DEF Inv
<1>9. p \in N2Messages /\ p.type = "paging" /\ p.ran = id.ran /\ p.amf = id.amf
  BY <1>3, <1>8 DEF Ngap, Message, MessagesOf, N2Messages, Whats
<1>10. p \in NewN2
  <2>1. N2Message(p)'
    BY <1>7, <1>8, <1>9 DEF N2Message, Paired, Ids
  <2>2. QED
    BY <1>9, <2>1 DEF NewN2
<1>11. n \in N1Messages /\ n.type = "transfer" /\ n.ran = id.ran /\ n.amf = id.amf
  BY <1>4, <1>6, <1>8 DEF AppMessages, N1Messages, MessagesOf
<1>12. n \in QuietN1
  <2>1. N1Message(n)'
    BY <1>7, <1>8, <1>11 DEF N1Message, Paired, Ids
  <2>2. QED
    BY <1>11, <2>1 DEF QuietN1, NewN1
<1>13. N2Moves /\ AppMoves /\ N1Quiet /\ N1Moves /\ SctpMoves
  BY <1>5, <1>6, <1>10, <1>12, N2Steps, AppSteps, N1Steps, SctpSteps DEF Inv
<1>14. Watch'
  BY <1>7, <1>13, WatchKept
<1>15. crashed' \in BOOLEAN
  BY <1>5 DEF Inv, Types, RadioTypes
<1>16. N2Types' /\ OwnConnection' /\ AppTypes' /\ OwnContext'
       /\ N1Types' /\ OwnIds' /\ OwnNas' /\ Current'
  BY <1>5, <1>7, N2TablesKept, AppTablesKept, N1TablesKept
<1>17. QED
  BY <1>5, <1>7, <1>13, <1>14, <1>15, <1>16, AmfStep

-----------------------------------------------------------------------------
(* TASK_AMF_N1.                                                             *)

\* What N1 sends to a UE.
LEMMA AnswerIsNew ==
  ASSUME Inv, UNCHANGED generated, NEW type \in {"downlink", "setup"}, NEW a \in Ids,
         NEW what \in Whats, NEW u \in UEs \cup {None}, NEW tmsi \in Tmsi \cup {None}
  PROVE  Answer(type, a, a, what, u, tmsi) \in Seq(NewN2)
<1>1. PICK m : m = Message(type, a, a, what, u, tmsi)
  OBVIOUS
<1>2. a \in RanIds \cup {None} /\ a \in AmfIds \cup {None}
  BY IdsAreAmfIds DEF Inv
<1>3. m \in N2Messages /\ m.type = type /\ m.ran = a /\ m.amf = a
  BY <1>1, <1>2 DEF Message, MessagesOf, N2Messages
<1>4. N2Message(m)'
  BY <1>3 DEF N2Message, Paired, Ids
<1>5. m \in NewN2
  BY <1>3, <1>4 DEF NewN2
<1>6. QED
  BY <1>1, <1>5 DEF Answer

\* The release of a connection that N1 asks N2 for.
LEMMA ReleaseIsNew ==
  ASSUME Inv, UNCHANGED generated, NEW a \in Ids
  PROVE  <<Ngap("release command", a, a)>> \in Seq(NewN2)
<1>1. PICK m : m = Ngap("release command", a, a)
  OBVIOUS
<1>2. a \in RanIds \cup {None} /\ a \in AmfIds \cup {None}
  BY IdsAreAmfIds DEF Inv
<1>3. m \in N2Messages /\ m.type = "release command" /\ m.ran = a /\ m.amf = a
  BY <1>1, <1>2 DEF Ngap, Message, MessagesOf, N2Messages, Whats
<1>4. N2Message(m)'
  BY <1>3 DEF N2Message, Paired, Ids
<1>5. m \in NewN2
  BY <1>3, <1>4 DEF NewN2
<1>6. <<m>> \in Seq(NewN2)
  BY <1>5
<1>7. QED
  BY ONLY <1>1, <1>6

\* A message at the head of N1's queue that comes with the ids of a connection.
LEMMA N1Ids ==
  ASSUME Inv, NEW type \in {"initial", "uplink", "transfer"}, Takes(n1_queue, type)
  PROVE  LET m == Head(n1_queue)
         IN  /\ m.ran = m.amf /\ m.amf \in Ids /\ m.amf \in AmfIds /\ m.amf # None
             /\ m.ue \in UEs \cup {None} /\ m.tmsi \in Tmsi \cup {None}
<1>1. Head(n1_queue) \in N1Messages /\ Head(n1_queue).type = type /\ N1Message(Head(n1_queue))
  BY N1Head
<1>2. Paired(Head(n1_queue))
  BY <1>1 DEF N1Message
<1>3. QED
  BY <1>1, <1>2, IdsAreAmfIds DEF Paired, Inv, N1Messages, MessagesOf

\* A step of N1 that may answer.
LEMMA N1Step ==
  ASSUME Inv, NEW type, Takes(n1_queue, type), n1_queue' = Tail(n1_queue),
         UNCHANGED <<generated, app_queue, sctp, n2, radio, others>>,
         n2_queue' = n2_queue \/ \E r \in Seq(NewN2) : n2_queue' = n2_queue \o r,
         crashed' \in BOOLEAN, AppTypes', OwnContext', N1Types', OwnIds', OwnNas', Watch', Current'
  PROVE  Inv'
<1>1. n1_queue # <<>>
  BY DEF Takes
<1>2. N2Moves /\ AppMoves /\ N1Moves /\ SctpMoves
  BY <1>1, N2Steps, AppSteps, N1Steps, SctpSteps DEF Inv
<1>3. N2Types' /\ OwnConnection'
  BY N2TablesKept
<1>4. QED
  BY <1>2, <1>3, AmfStep

\* What a step of N1 that sets no timer leaves of the timers' part.
LEMMA N1WatchKept ==
  ASSUME Inv, NEW type, Takes(n1_queue, type), n1_queue' = Tail(n1_queue),
         UNCHANGED <<generated, n2, timers>>,
         \A a \in AmfIds : Watched("implicit", a) =>
            (amfueid2nas_context[a] # None => amfueid2nas_context'[a] # None)
  PROVE  Watch'
<1>1. n1_queue # <<>> /\ UNCHANGED ranid2uecontext
  BY DEF Takes, n2
<1>2. N1Quiet
  BY <1>1, N1Steps DEF Inv
<1>3. QED
  BY <1>1, <1>2, WatchKept

\* A context, and with it the ids of its UE, goes to the connection a.
LEMMA FollowsKept ==
  ASSUME Inv, NEW type, Takes(n1_queue, type), n1_queue' = Tail(n1_queue),
         NEW a \in Ids, NEW c \in Contexts, NEW n \in NasContexts, n.ran = a, n.amf = a,
         amfueid2nas_context' = [amfueid2nas_context EXCEPT ![a] = c],
         nas' = [nas EXCEPT ![c] = n],
         supi2Id' = IF n.ue = None THEN supi2Id ELSE [supi2Id EXCEPT ![n.ue] = [ran |-> a, amf |-> a]],
         UNCHANGED <<generated, n2, timers>>
  PROVE  N1Types' /\ OwnIds' /\ OwnNas' /\ Watch' /\ Current'
<1>1. a \in AmfIds /\ a \in RanIds /\ a \in 1..generated /\ a # None /\ c # None
  BY IdsAreAmfIds DEF Inv, Ids
<1>2. /\ amfueid2nas_context \in [AmfIds -> Contexts \cup {None}]
      /\ supi2Id \in [UEs -> [ran : RanIds, amf : 1..generated]]
      /\ nas \in [Contexts -> NasContexts]
      /\ timers \subseteq {"mobile", "implicit"} \X AmfIds
      /\ OwnIds /\ OwnNas
  BY DEF Inv, Types, N1Types, Own
<1>3. [ran |-> a, amf |-> a] \in [ran : RanIds, amf : 1..generated]
  BY <1>1
<1>4. n.ue \in UEs \cup {None}
  BY DEF NasContexts
<1>5. \A b \in AmfIds : amfueid2nas_context'[b] = IF b = a THEN c ELSE amfueid2nas_context[b]
  BY <1>2
<1>6. \A d \in Contexts : nas'[d] = IF d = c THEN n ELSE nas[d]
  BY <1>2
<1>7. \A v \in UEs : supi2Id'[v] = IF v = n.ue THEN [ran |-> a, amf |-> a] ELSE supi2Id[v]
  <2>1. None \notin UEs
    BY DEF None, UEs
  <2>2. QED
    BY <1>2, <2>1
<1>8. N1Types'
  <2>1. amfueid2nas_context' \in [AmfIds -> Contexts \cup {None}]
    BY <1>2
  <2>2. supi2Id' \in [UEs -> [ran : RanIds, amf : 1..generated]]
    BY <1>2, <1>3
  <2>3. nas' \in [Contexts -> NasContexts]
    BY <1>2
  <2>4. QED
    BY <1>2, <2>1, <2>2, <2>3 DEF N1Types
<1>9. OwnIds'
  BY <1>2, <1>7 DEF OwnIds
<1>10. OwnNas'
  BY <1>2, <1>6 DEF OwnNas, Ids
<1>11. Watch'
  BY <1>1, <1>5, N1WatchKept
<1>12. Current'
  <2> SUFFICES ASSUME NEW b \in AmfIds, NEW d, d = amfueid2nas_context'[b], d # None,
                      NEW v, v = nas'[d].ue, v # None, supi2Id'[v].amf = b
               PROVE  nas'[d].amf = b
    BY DEF Current, None
  <2>1. d \in Contexts
    BY <1>1, <1>2, <1>5
  <2>2. CASE d = c
    <3>1. nas'[d] = n /\ v = n.ue /\ v \in UEs
      BY <1>4, <1>6, <2>1, <2>2
    <3>2. supi2Id'[v] = [ran |-> a, amf |-> a]
      BY <1>7, <3>1
    <3>3. QED
      BY <3>1, <3>2
  <2>3. CASE d # c
    <3>1. b # a /\ d = amfueid2nas_context[b] /\ nas'[d] = nas[d] /\ v = nas[d].ue
      BY <1>5, <1>6, <2>1, <2>3
    <3>2. v \in UEs
      BY <1>2, <2>1, <3>1 DEF NasContexts
    <3>3. supi2Id'[v] = supi2Id[v]
      BY <1>7, <3>1, <3>2
    <3>4. QED
      BY <3>1, <3>3 DEF Inv, Current
  <2>4. QED
    BY <2>2, <2>3
<1>13. QED
  BY <1>8, <1>9, <1>10, <1>11, <1>12

\* A context is found by GUTI, or made, for a new connection.
LEMMA FirstNasKeeps ==
  ASSUME Inv, nas_signalling_establishment_request_handle
  PROVE  Inv'
<1>1. PICK m : m = Head(n1_queue)
  OBVIOUS
<1>2. PICK c : c = IF m.tmsi \in Contexts THEN m.tmsi ELSE m.amf
  OBVIOUS
<1>3. PICK u : u = IF m.tmsi \in Contexts THEN nas[c].ue ELSE IF m.what = "register" THEN m.ue ELSE None
  OBVIOUS
<1>4. PICK n : n = IF m.tmsi \in Contexts
                   THEN [nas[c] EXCEPT !.oldRan = nas[c].ran, !.oldAmf = nas[c].amf,
                                       !.ran = m.ran, !.amf = m.amf]
                   ELSE Connected(u, m.ran, m.amf)
  OBVIOUS
<1>5. /\ Takes(n1_queue, "initial") /\ n1_queue' = Tail(n1_queue)
      /\ UNCHANGED <<app, timers, app_queue, sctp, n2, crashed, radio, others>>
      /\ amfueid2nas_context' = [amfueid2nas_context EXCEPT ![m.amf] = c]
      /\ nas' = [nas EXCEPT ![c] = n]
      /\ supi2Id' = IF u = None THEN supi2Id
                    ELSE [supi2Id EXCEPT ![u] = [ran |-> m.ran, amf |-> m.amf]]
  BY <1>1, <1>2, <1>3, <1>4 DEF nas_signalling_establishment_request_handle, N1Keeps
<1>6. /\ n2_queue' = n2_queue \o
                CASE m.what = "register" -> Answer("downlink", m.ran, m.amf, "challenge", u, None)
                  [] m.what = "service" /\ m.tmsi \in Contexts ->
                         old_connection(c) \o Answer("setup", m.ran, m.amf, "accept", u, None)
                  [] m.what = "service" /\ ~(m.tmsi \in Contexts) ->
                         Answer("downlink", m.ran, m.amf, "reject", u, None)
                  [] m.what = "update" /\ m.tmsi \in Contexts ->
                         Answer("downlink", m.ran, m.amf, "accept", u, ue_context[m.amf].tmsi)
                  [] m.what = "update" /\ ~(m.tmsi \in Contexts) ->
                         Answer("downlink", m.ran, m.amf, "identify", u, None)
  BY <1>1, <1>2, <1>3 DEF nas_signalling_establishment_request_handle
<1>7. PICK a : a = m.amf
  OBVIOUS
<1>8. m.ran = a /\ a \in Ids /\ a \in AmfIds /\ m.ue \in UEs \cup {None} /\ m.what \in Requests
  BY <1>1, <1>5, <1>7, N1Ids, N1Head DEF N1Message
<1>9. c \in Contexts /\ Contexts = AmfIds
  BY <1>2, <1>7, <1>8 DEF Contexts
<1>10. nas \in [Contexts -> NasContexts]
  BY DEF Inv, Types, N1Types
<1>11. u \in UEs \cup {None}
  BY <1>3, <1>8, <1>9, <1>10 DEF NasContexts
<1>12. n \in NasContexts /\ n.ran = a /\ n.amf = a /\ n.ue = u
  <2>1. a \in RanIds \cup {None} /\ a \in AmfIds \cup {None}
    BY <1>8 DEF RanIds
  <2>2. CASE m.tmsi \in Contexts
    <3>1. nas[c] \in NasContexts /\ u = nas[c].ue
      BY <1>3, <1>9, <1>10, <2>2
    <3>2. QED
      BY <1>4, <1>7, <1>8, <2>1, <2>2, <3>1 DEF NasContexts
  <2>3. CASE m.tmsi \notin Contexts
    BY <1>4, <1>7, <1>8, <1>11, <2>1, <2>3 DEF Connected, NasContexts, None
  <2>4. QED
    BY <2>2, <2>3
<1>13. UNCHANGED generated
  BY <1>5 DEF app
<1>14. N1Types' /\ OwnIds' /\ OwnNas' /\ Watch' /\ Current'
  BY <1>5, <1>7, <1>8, <1>9, <1>12, <1>13, FollowsKept
<1>15. AppTypes' /\ OwnContext' /\ crashed' \in BOOLEAN
  BY <1>5, AppTablesKept DEF Inv, Types, RadioTypes
<1>16. \A tmsi \in Tmsi \cup {None}, type \in {"downlink", "setup"},
          what \in {"challenge", "accept", "reject", "identify"} :
         Answer(type, m.ran, m.amf, what, u, tmsi) \in Seq(NewN2)
  <2>1. {"challenge", "accept", "reject", "identify"} \subseteq Whats
    BY DEF Whats
  <2>2. \A tmsi \in Tmsi \cup {None}, type \in {"downlink", "setup"},
          what \in {"challenge", "accept", "reject", "identify"} :
         Answer(type, a, a, what, u, tmsi) \in Seq(NewN2)
    BY <1>8, <1>11, <1>13, <2>1, AnswerIsNew
  <2>3. QED
    BY <1>7, <1>8, <2>2
<1>17. old_connection(c) \in Seq(NewN2)
  <2>1. PICK b : b = nas[c].amf
    OBVIOUS
  <2>2. nas[c].ran = b /\ b \in Ids \cup {None}
    BY <1>9, <2>1 DEF Inv, Own, OwnNas
  <2>3. CASE b \in Ids
    <3>1. PICK r : r = <<Ngap("release command", b, b)>>
      OBVIOUS
    <3>2. r \in Seq(NewN2)
      BY ONLY <3>1, <1>13, <2>3, ReleaseIsNew, Inv
    <3>3. old_connection(c) = r \/ old_connection(c) = <<>>
      BY ONLY <2>1, <2>2, <3>1 DEF old_connection
    <3>4. <<>> \in Seq(NewN2)
      OBVIOUS
    <3>5. QED
      BY ONLY <3>2, <3>3, <3>4
  <2>4. CASE b = None
    <3>1. ~ran_ue_id_2_ue_ngap_context(nas[c].ran, nas[c].amf)
      BY <2>1, <2>4 DEF ran_ue_id_2_ue_ngap_context, Key
    <3>2. old_connection(c) = <<>>
      BY <3>1 DEF old_connection
    <3>3. QED
      BY <3>2
  <2>5. QED
    BY <2>2, <2>3, <2>4
<1>18. \E r \in Seq(NewN2) : n2_queue' = n2_queue \o r
  <2>1. None \in Tmsi \cup {None} /\ ue_context[m.amf].tmsi \in Tmsi \cup {None}
    BY <1>7, <1>8 DEF Inv, Types, AppTypes
  <2>2. /\ Answer("downlink", m.ran, m.amf, "challenge", u, None) \in Seq(NewN2)
        /\ Answer("setup", m.ran, m.amf, "accept", u, None) \in Seq(NewN2)
        /\ Answer("downlink", m.ran, m.amf, "reject", u, None) \in Seq(NewN2)
        /\ Answer("downlink", m.ran, m.amf, "accept", u, ue_context[m.amf].tmsi) \in Seq(NewN2)
        /\ Answer("downlink", m.ran, m.amf, "identify", u, None) \in Seq(NewN2)
    BY <1>16, <2>1
  <2>3. old_connection(c) \o Answer("setup", m.ran, m.amf, "accept", u, None) \in Seq(NewN2)
    BY <1>17, <2>2
  <2>4. CASE m.what = "register"
    BY <1>6, <2>2, <2>4
  <2>5. CASE m.what = "service"
    BY <1>6, <2>2, <2>3, <2>5
  <2>6. CASE m.what = "update"
    BY <1>6, <2>2, <2>6
  <2>7. QED
    BY <1>8, <2>4, <2>5, <2>6 DEF Requests
<1>19. QED
  BY <1>5, <1>13, <1>14, <1>15, <1>18, N1Step

\* The same for a UE that has told its identity.
LEMMA IdentityKeeps ==
  ASSUME Inv, identity_response_handle
  PROVE  Inv'
<1>1. PICK m : m = Head(n1_queue)
  OBVIOUS
<1>2. PICK known \in BOOLEAN : known = (amfueid2nas_context[m.amf] # None)
  OBVIOUS
<1>3. PICK c : c = IF known THEN amfueid2nas_context[m.amf] ELSE m.amf
  OBVIOUS
<1>4. PICK n : n = [Connected(m.ue, m.ran, m.amf) EXCEPT !.secured = known]
  OBVIOUS
<1>5. /\ Takes(n1_queue, "uplink") /\ n1_queue' = Tail(n1_queue)
      /\ UNCHANGED <<app, timers, app_queue, sctp, n2, crashed, radio, others>>
      /\ amfueid2nas_context' = [amfueid2nas_context EXCEPT ![m.amf] = c]
      /\ nas' = [nas EXCEPT ![c] = n]
      /\ supi2Id' = [supi2Id EXCEPT ![m.ue] = [ran |-> m.ran, amf |-> m.amf]]
      /\ n2_queue' = IF known
                     THEN n2_queue \o Answer("downlink", m.ran, m.amf, "challenge", m.ue, None)
                     ELSE n2_queue
  BY <1>1, <1>2, <1>3, <1>4 DEF identity_response_handle, N1Keeps
<1>6. PICK a : a = m.amf
  OBVIOUS
<1>7. m.ran = a /\ a \in Ids /\ a \in AmfIds /\ m.ue \in UEs \cup {None}
  BY <1>1, <1>5, <1>6, N1Ids
<1>8. c \in Contexts /\ Contexts = AmfIds
  <2>1. amfueid2nas_context[a] \in Contexts \cup {None}
    BY <1>7 DEF Inv, Types, N1Types
  <2>2. QED
    BY <1>2, <1>3, <1>6, <1>7, <2>1 DEF Contexts
<1>9. n \in NasContexts /\ n.ran = a /\ n.amf = a /\ n.ue = m.ue
  <2>1. a \in RanIds \cup {None} /\ a \in AmfIds \cup {None}
    BY <1>7 DEF RanIds
  <2>2. QED
    BY <1>2, <1>4, <1>6, <1>7, <2>1 DEF Connected, NasContexts, None
<1>10. supi2Id' = IF n.ue = None THEN supi2Id ELSE [supi2Id EXCEPT ![n.ue] = [ran |-> a, amf |-> a]]
  <2>1. CASE m.ue = None
    <3>1. None \notin UEs /\ supi2Id \in [UEs -> [ran : RanIds, amf : 1..generated]]
      BY DEF None, UEs, Inv, Types, N1Types
    <3>2. supi2Id' = supi2Id
      BY <1>5, <2>1, <3>1
    <3>3. QED
      BY <1>9, <2>1, <3>2
  <2>2. CASE m.ue # None
    BY <1>5, <1>6, <1>7, <1>9, <2>2
  <2>3. QED
    BY <2>1, <2>2
<1>11. UNCHANGED generated
  BY <1>5 DEF app
<1>12. N1Types' /\ OwnIds' /\ OwnNas' /\ Watch' /\ Current'
  BY <1>5, <1>6, <1>7, <1>8, <1>9, <1>10, <1>11, FollowsKept
<1>13. AppTypes' /\ OwnContext' /\ crashed' \in BOOLEAN
  BY <1>5, AppTablesKept DEF Inv, Types, RadioTypes
<1>14. n2_queue' = n2_queue \/ \E r \in Seq(NewN2) : n2_queue' = n2_queue \o r
  <2>1. "challenge" \in Whats /\ None \in Tmsi \cup {None}
    BY DEF Whats
  <2>2. Answer("downlink", a, a, "challenge", m.ue, None) \in Seq(NewN2)
    BY <1>7, <1>11, <2>1, AnswerIsNew
  <2>3. QED
    BY <1>5, <1>6, <1>7, <2>2
<1>15. QED
  BY <1>5, <1>11, <1>12, <1>13, <1>14, N1Step

\* The connection of an accepted registration is given the GUTI of its context.
LEMMA CompleteKeeps ==
  ASSUME Inv, security_mode_complete_handle
  PROVE  Inv'
<1>1. PICK m : m = Head(n1_queue)
  OBVIOUS
<1>2. PICK a : a = m.amf
  OBVIOUS
<1>3. PICK c : c = amfueid2nas_context[a]
  OBVIOUS
<1>4. PICK x : x = [ue_context[a] EXCEPT !.tmsi = c]
  OBVIOUS
<1>5. /\ Takes(n1_queue, "uplink") /\ n1_queue' = Tail(n1_queue)
      /\ UNCHANGED <<generated, n1, app_queue, sctp, n2, crashed, radio, others>>
      /\ IF c = None THEN UNCHANGED <<n2_queue, ue_context>>
         ELSE /\ ue_context' = [ue_context EXCEPT ![a] = x]
              /\ n2_queue' = n2_queue \o Answer("setup", m.ran, a, "accept", nas[c].ue, c)
  BY <1>1, <1>2, <1>3, <1>4 DEF security_mode_complete_handle, N1Keeps
<1>6. m.ran = a /\ a \in Ids /\ a \in AmfIds
  BY <1>1, <1>2, <1>5, N1Ids
<1>7. c \in Contexts \cup {None} /\ nas \in [Contexts -> NasContexts]
  BY <1>3, <1>6 DEF Inv, Types, N1Types
<1>8. n2_queue' = n2_queue \/ \E r \in Seq(NewN2) : n2_queue' = n2_queue \o r
  <2>1. CASE c = None
    BY <1>5, <2>1
  <2>2. CASE c # None
    <3>1. "accept" \in Whats /\ nas[c].ue \in UEs \cup {None} /\ c \in Tmsi \cup {None}
      BY <1>7, <2>2 DEF Whats, NasContexts, Tmsi, Contexts
    <3>2. Answer("setup", a, a, "accept", nas[c].ue, c) \in Seq(NewN2)
      BY <1>5, <1>6, <3>1, AnswerIsNew
    <3>3. QED
      BY <1>5, <1>6, <2>2, <3>2
  <2>3. QED
    BY <2>1, <2>2
<1>9. AppTypes' /\ OwnContext'
  <2>1. ue_context \in [AmfIds -> [ran : RanIds \cup {None}, tmsi : Tmsi]] /\ OwnContext
        /\ generated' = generated /\ generated \in AmfIds
    BY <1>5 DEF Inv, Types, AppTypes, Own
  <2>2. CASE c = None
    BY <1>5, <2>1, <2>2 DEF AppTypes, OwnContext
  <2>3. CASE c # None
    <3>1. x \in [ran : RanIds \cup {None}, tmsi : Tmsi] /\ x.ran = ue_context[a].ran
      <4>1. c \in Tmsi
        BY <1>7, <2>3 DEF Tmsi, Contexts
      <4>2. QED
        BY <1>4, <1>6, <2>1, <4>1
    <3>2. \A b \in AmfIds : ue_context'[b].ran = ue_context[b].ran
      BY <1>5, <1>6, <2>1, <2>3, <3>1
    <3>3. QED
      BY <1>5, <2>1, <2>3, <3>1, <3>2 DEF AppTypes, OwnContext
  <2>4. QED
    BY <2>2, <2>3
<1>10. N1Types' /\ OwnIds' /\ OwnNas' /\ Current'
  BY <1>5, N1TablesKept
<1>11. Watch'
  BY <1>5, N1WatchKept DEF n1
<1>12. crashed' \in BOOLEAN
  BY <1>5 DEF Inv, Types, RadioTypes
<1>13. QED
  BY <1>5, <1>8, <1>9, <1>10, <1>11, <1>12, N1Step

\* A UE that deregisters takes the connection's way to the context with it: no implicit
\* deregistration timer is about that.
LEMMA DeregistrationKeeps ==
  ASSUME Inv, ue_initiate_de_registration_handle
  PROVE  Inv'
<1>1. PICK m : m = Head(n1_queue)
  OBVIOUS
<1>2. PICK a : a = m.amf
  OBVIOUS
<1>3. PICK x : x = <<Ngap("release command", a, a)>>
  OBVIOUS
<1>4. PICK y : y = Answer("downlink", a, a, "goodbye", m.ue, None)
  OBVIOUS
<1>5. /\ Takes(n1_queue, "uplink") /\ m.what = "deregister" /\ n1_queue' = Tail(n1_queue)
      /\ UNCHANGED <<app, supi2Id, nas, timers, app_queue, sctp, n2, crashed, radio, others>>
  BY <1>1 DEF ue_initiate_de_registration_handle, N1Keeps
<1>6. m.ran = a /\ a \in Ids /\ a \in AmfIds /\ m.ue \in UEs \cup {None}
  BY <1>1, <1>2, <1>5, N1Ids
<1>7. \/ UNCHANGED <<n2_queue, amfueid2nas_context>>
      \/ /\ amfueid2nas_context' = [amfueid2nas_context EXCEPT ![a] = None]
         /\ n2_queue' = n2_queue \o y \o x
  BY <1>1, <1>2, <1>3, <1>4, <1>6 DEF ue_initiate_de_registration_handle, Without
<1>8. UNCHANGED generated
  BY <1>5 DEF app
<1>9. n2_queue' = n2_queue \/ \E r \in Seq(NewN2) : n2_queue' = n2_queue \o r
  <2>1. "goodbye" \in Whats /\ None \in Tmsi \cup {None}
    BY DEF Whats
  <2>2. y \in Seq(NewN2)
    BY <1>4, <1>6, <1>8, <2>1, AnswerIsNew
  <2>3. x \in Seq(NewN2)
    BY ONLY <1>3, <1>6, <1>8, ReleaseIsNew, Inv
  <2>4. y \o x \in Seq(NewN2)
    BY <2>2, <2>3
  <2>5. n2_queue \o y \o x = n2_queue \o (y \o x)
    <3>1. n2_queue \in Seq(N2Messages)
      BY DEF Inv, Types, QueueTypes
    <3>2. y \in Seq(N2Messages) /\ x \in Seq(N2Messages)
      BY <2>2, <2>3 DEF NewN2
    <3>3. QED
      BY ONLY <3>1, <3>2, ConcatAssociative
  <2>6. QED
    BY <1>7, <2>4, <2>5
<1>10. amfueid2nas_context \in [AmfIds -> Contexts \cup {None}]
  BY DEF Inv, Types, N1Types
<1>11. \A b \in AmfIds : amfueid2nas_context'[b] = amfueid2nas_context[b]
                         \/ (b = a /\ amfueid2nas_context'[b] = None)
  BY <1>7, <1>10
<1>12. N1Types' /\ OwnIds' /\ OwnNas'
  <2>1. amfueid2nas_context' \in [AmfIds -> Contexts \cup {None}]
    BY <1>7, <1>10
  <2>2. QED
    BY <1>5, <1>8, <2>1 DEF Inv, Types, N1Types, Own, OwnIds, OwnNas, Ids
<1>13. Current'
  BY <1>5, <1>11, CurrentKept
<1>14. Watch'
  <2>1. ~Watched("implicit", a)
    <3>1. Head(n1_queue) = n1_queue[1] /\ 1 \in DOMAIN n1_queue /\ m.type = "uplink"
      BY <1>1, <1>5, N1Head
    <3>2. Deregisters(n1_queue[1], a)
      BY <1>1, <1>2, <1>5, <3>1 DEF Deregisters
    <3>3. QED
      BY <1>6, <3>1, <3>2 DEF Inv, Watch, WatchedIsKept
  <2>2. \A b \in AmfIds : Watched("implicit", b) =>
          (amfueid2nas_context[b] # None => amfueid2nas_context'[b] # None)
    BY <1>11, <2>1
  <2>3. QED
    BY <1>5, <1>8, <2>2, N1WatchKept
<1>15. AppTypes' /\ OwnContext' /\ crashed' \in BOOLEAN
  BY <1>5, AppTablesKept DEF Inv, Types, RadioTypes
<1>16. QED
  BY <1>5, <1>8, <1>9, <1>12, <1>13, <1>14, <1>15, N1Step

\* What the SMF has for a UE is sent on, protected, or dropped.
LEMMA DownlinkTransferKeeps ==
  ASSUME Inv, downlink_nas_transfer
  PROVE  Inv'
<1>1. PICK m : m = Head(n1_queue)
  OBVIOUS
<1>2. PICK a : a = m.amf
  OBVIOUS
<1>3. PICK type \in {"downlink", "setup"} : type = IF m.what = "setup" THEN "setup" ELSE "downlink"
  OBVIOUS
<1>4. /\ Takes(n1_queue, "transfer") /\ n1_queue' = Tail(n1_queue)
      /\ n2_queue' = n2_queue \/ n2_queue' = n2_queue \o Answer(type, m.ran, a, "data", m.ue, None)
      /\ UNCHANGED <<app, n1, app_queue, sctp, n2, crashed, radio, others>>
  BY <1>1, <1>2, <1>3 DEF downlink_nas_transfer, N1Keeps
<1>5. m.ran = a /\ a \in Ids /\ m.ue \in UEs \cup {None}
  BY <1>1, <1>2, <1>4, N1Ids
<1>6. UNCHANGED generated
  BY <1>4 DEF app
<1>7. n2_queue' = n2_queue \/ \E r \in Seq(NewN2) : n2_queue' = n2_queue \o r
  <2>1. "data" \in Whats /\ None \in Tmsi \cup {None}
    BY DEF Whats
  <2>2. Answer(type, a, a, "data", m.ue, None) \in Seq(NewN2)
    BY <1>5, <1>6, <2>1, AnswerIsNew
  <2>3. QED
    BY <1>4, <1>5, <2>2
<1>8. N1Types' /\ OwnIds' /\ OwnNas' /\ Current'
  BY <1>4, <1>6, N1TablesKept
<1>9. Watch'
  BY <1>4, <1>6, N1WatchKept DEF n1
<1>10. AppTypes' /\ OwnContext' /\ crashed' \in BOOLEAN
  BY <1>4, AppTablesKept DEF Inv, Types, RadioTypes
<1>11. QED
  BY <1>4, <1>6, <1>7, <1>8, <1>9, <1>10, N1Step

\* The implicit deregistration timeout, the end of the AMF if there is no context.
LEMMA ImplicitKeeps ==
  ASSUME Inv, implicit_deregistration_timer_timeout
  PROVE  Inv'
<1>1. /\ Takes(n1_queue, "implicit") /\ n1_queue' = Tail(n1_queue) /\ crashed' \in BOOLEAN
      /\ UNCHANGED <<n2_queue, app_queue, sctp, n2, app, n1, radio, others>>
  BY DEF implicit_deregistration_timer_timeout
<1>2. UNCHANGED generated
  BY <1>1 DEF app
<1>3. N1Types' /\ OwnIds' /\ OwnNas' /\ Current' /\ AppTypes' /\ OwnContext'
  BY <1>1, <1>2, N1TablesKept, AppTablesKept
<1>4. Watch'
  BY <1>1, <1>2, N1WatchKept DEF n1
<1>5. QED
  BY <1>1, <1>2, <1>3, <1>4, N1Step

\* The mobile reachable timeout starts the other timer for the same connection, if its
\* context is there; all that was sent on it is taken by then.
LEMMA MobileKeeps ==
  ASSUME Inv, mobile_reachable_timer_timeout
  PROVE  Inv'
<1>1. PICK a : a = Head(n1_queue).amf
  OBVIOUS
<1>2. PICK c : c = amfueid2nas_context[a]
  OBVIOUS
<1>3. PICK n : n = [nas[c] EXCEPT !.unreachable = TRUE]
  OBVIOUS
<1>4. /\ Takes(n1_queue, "mobile") /\ n1_queue' = Tail(n1_queue)
      /\ \/ UNCHANGED <<nas, timers>>
         \/ /\ c # None /\ nas' = [nas EXCEPT ![c] = n]
            /\ timers' = timers \cup {<<"implicit", a>>}
      /\ UNCHANGED <<n2_queue, app, amfueid2nas_context, supi2Id, app_queue, sctp, n2,
                     crashed, radio, others>>
  BY <1>1, <1>2, <1>3 DEF mobile_reachable_timer_timeout, N1Keeps
<1>5. /\ n1_queue # <<>> /\ Head(n1_queue) = n1_queue[1] /\ 1 \in DOMAIN n1_queue
      /\ n1_queue[1].type = "mobile" /\ n1_queue[1].amf = a /\ a \in Ids /\ a \in AmfIds
  <2>1. n1_queue # <<>> /\ Head(n1_queue) = n1_queue[1] /\ 1 \in DOMAIN n1_queue
        /\ n1_queue[1].type = "mobile" /\ N1Message(n1_queue[1])
    BY <1>4, N1Head
  <2>2. a \in Ids
    BY <1>1, <2>1 DEF N1Message
  <2>3. QED
    BY <1>1, <2>1, <2>2, IdsAreAmfIds DEF Inv
<1>6. UNCHANGED <<generated, ranid2uecontext>>
  BY <1>4 DEF app, n2
<1>7. /\ nas \in [Contexts -> NasContexts] /\ c \in Contexts \cup {None}
      /\ timers \subseteq {"mobile", "implicit"} \X AmfIds
      /\ amfueid2nas_context \in [AmfIds -> Contexts \cup {None}]
      /\ supi2Id \in [UEs -> [ran : RanIds, amf : 1..generated]]
  BY <1>2, <1>5 DEF Inv, Types, N1Types
<1>8. /\ nas' \in [Contexts -> NasContexts]
      /\ \A x \in Contexts : /\ nas'[x].ue = nas[x].ue
                             /\ nas'[x].ran = nas[x].ran /\ nas'[x].amf = nas[x].amf
  <2>1. CASE UNCHANGED nas
    BY <1>7, <2>1
  <2>2. CASE c # None /\ nas' = [nas EXCEPT ![c] = n]
    <3>1. n \in NasContexts /\ n.ue = nas[c].ue /\ n.ran = nas[c].ran /\ n.amf = nas[c].amf
      BY <1>3, <1>7, <2>2, ZenonT(60) DEF NasContexts
    <3>2. QED
      BY <1>7, <2>2, <3>1
  <2>3. QED
    BY <1>4, <2>1, <2>2
<1>9. timers' = timers \/ (c # None /\ timers' = timers \cup {<<"implicit", a>>})
  BY <1>4
<1>10. N1Types'
  <2>1. timers' \subseteq {"mobile", "implicit"} \X AmfIds
    BY <1>5, <1>7, <1>9
  <2>2. QED
    BY <1>4, <1>6, <1>7, <1>8, <2>1 DEF N1Types
<1>11. OwnIds' /\ OwnNas'
  BY <1>4, <1>6, <1>8 DEF OwnIds, OwnNas, Inv, Own, Ids
<1>12. Current'
  <2> SUFFICES ASSUME NEW b \in AmfIds, amfueid2nas_context[b] # None,
                      nas'[amfueid2nas_context[b]].ue # None,
                      supi2Id[nas'[amfueid2nas_context[b]].ue].amf = b
               PROVE  nas'[amfueid2nas_context[b]].amf = b
    BY <1>4 DEF Current, None
  <2>1. amfueid2nas_context[b] \in Contexts
    BY <1>7
  <2>2. QED
    BY <1>8, <2>1 DEF Inv, Current
<1>13. Watch'
  <2>1. /\ \A i \in DOMAIN n1_queue' : i + 1 \in DOMAIN n1_queue /\ n1_queue'[i] = n1_queue[i + 1]
        /\ DOMAIN n1_queue' \subseteq Nat \ {0}
    <3>1. n1_queue \in Seq(N1Messages)
      BY DEF Inv, Types, QueueTypes
    <3>2. QED
      BY <1>4, <1>5, <3>1, Taking
  <2>2. Watched("mobile", a)
    BY <1>5 DEF Watched
  <2>3. \A k \in {"mobile", "implicit"} : \A b : Watched(k, b)' =>
          Watched(k, b) \/ (b = a /\ k = "implicit" /\ c # None)
    BY <1>9, <2>1 DEF Watched
  <2>4. WatchedIsGone'
    BY <1>6, <2>2, <2>3 DEF WatchedIsGone, Inv, Watch
  <2>5. WatchedIsKept'
    <3> SUFFICES ASSUME NEW b \in AmfIds, Watched("implicit", b)'
                 PROVE  /\ amfueid2nas_context'[b] # None
                        /\ \A j \in DOMAIN n1_queue' : ~Deregisters(n1_queue[j], b)'
      BY DEF WatchedIsKept, None
    <3>1. \A j \in DOMAIN n1_queue' : Deregisters(n1_queue[j], b)' =>
            j + 1 \in DOMAIN n1_queue /\ Deregisters(n1_queue[j + 1], b)
      BY <2>1 DEF Deregisters
    <3>2. CASE Watched("implicit", b)
      BY <1>4, <3>1, <3>2 DEF WatchedIsKept, Inv, Watch
    <3>3. CASE b = a /\ c # None
      <4>1. amfueid2nas_context'[b] # None
        BY <1>2, <1>4, <3>3
      <4>2. \A j \in DOMAIN n1_queue : Deregisters(n1_queue[j], b) => j < 1
        BY <1>5, <3>3 DEF Inv, Watch, DeregisteredBefore
      <4>3. QED
        BY <2>1, <3>1, <4>1, <4>2
    <3>4. QED
      BY <2>3, <3>2, <3>3
  <2>6. DeregisteredBefore'
    <3> SUFFICES ASSUME NEW i \in DOMAIN n1_queue', NEW j \in DOMAIN n1_queue',
                        n1_queue'[i].type = "mobile", Deregisters(n1_queue[j], n1_queue[i].amf)'
                 PROVE  j < i
      BY DEF DeregisteredBefore
    <3>1. /\ i + 1 \in DOMAIN n1_queue /\ n1_queue'[i] = n1_queue[i + 1]
          /\ j + 1 \in DOMAIN n1_queue /\ n1_queue'[j] = n1_queue[j + 1]
      BY <2>1
    <3>2. Deregisters(n1_queue[j + 1], n1_queue[i + 1].amf)
      BY <3>1 DEF Deregisters
    <3>3. j + 1 < i + 1
      BY <3>1, <3>2 DEF Inv, Watch, DeregisteredBefore
    <3>4. QED
      BY <2>1, <3>3
  <2>7. QED
    BY <2>4, <2>5, <2>6 DEF Watch
<1>14. AppTypes' /\ OwnContext' /\ crashed' \in BOOLEAN
  BY <1>4, AppTablesKept DEF Inv, Types, RadioTypes
<1>15. QED
  BY <1>4, <1>6, <1>10, <1>11, <1>12, <1>13, <1>14, N1Step

-----------------------------------------------------------------------------
(* The specification.                                                       *)

\* At the start.
LEMMA InitInv == Init => Inv
<1> SUFFICES ASSUME Init PROVE Inv
  OBVIOUS
<1> USE DEF Init
<1>1. /\ NumUes \in Nat /\ MaxAmfId \in Nat /\ MaxEvents \in Nat /\ 1 <= NumUes /\ NumUes <= MaxAmfId
      /\ UEs \subseteq AmfIds /\ NumUes \in AmfIds /\ RanIds = AmfIds /\ Contexts = AmfIds
      /\ None \notin AmfIds /\ UEs = 1..NumUes /\ UEs \subseteq Tmsi /\ Zero \in Tmsi
  BY DEF UEs, AmfIds, RanIds, Contexts, None, Tmsi, Zero
<1>2. QueueTypes
  BY DEF QueueTypes
<1>3. N2Types /\ OwnConnection
  <2>1. \A r \in RanIds : /\ ranid2uecontext[r] \in [known : BOOLEAN, amf : AmfIds \cup {None}, tmsi : Tmsi \cup {None}]
                          /\ ranid2uecontext[r].amf \in {None, r}
    BY <1>1 DEF Unknown
  <2>2. QED
    BY <1>1, <2>1 DEF N2Types, OwnConnection
<1>4. AppTypes /\ OwnContext
  <2>1. \A a \in AmfIds : /\ ue_context[a] \in [ran : RanIds \cup {None}, tmsi : Tmsi]
                          /\ ue_context[a].ran = IF a \in UEs THEN a ELSE None
    BY <1>1
  <2>2. \A a \in AmfIds : a \in UEs <=> a <= generated
    BY <1>1 DEF AmfIds
  <2>3. QED
    BY <1>1, <2>1, <2>2 DEF AppTypes, OwnContext
<1>5. \A c \in Contexts : /\ nas[c] \in NasContexts /\ nas[c].ran = nas[c].amf
                          /\ nas[c].amf = IF c \in UEs THEN c ELSE None
  <2> SUFFICES ASSUME NEW c \in Contexts
               PROVE  /\ nas[c] \in NasContexts /\ nas[c].ran = nas[c].amf
                      /\ nas[c].amf = IF c \in UEs THEN c ELSE None
    OBVIOUS
  <2>1. CASE c \in UEs
    BY <1>1, <2>1 DEF Connected, NasContexts
  <2>2. CASE c \notin UEs
    BY <1>1, <2>2 DEF nas_context, Connected, NasContexts
  <2>3. QED
    BY <2>1, <2>2
<1>6. N1Types /\ OwnIds /\ OwnNas
  <2>1. N1Types
    BY <1>1, <1>5 DEF N1Types
  <2>2. OwnIds /\ OwnNas
    BY <1>1, <1>5 DEF OwnIds, OwnNas, Ids
  <2>3. QED
    BY <2>1, <2>2
<1>7. RadioTypes /\ OwnRadio
  <2>1. \A r \in RanIds : /\ gnb[r] \in Connections /\ gnb[r].amf = IF r \in UEs THEN r ELSE None
    BY <1>1 DEF Connections, Free
  <2>2. OwnRadio
    <3>1. \A r \in RanIds : gnb[r].amf \in {None, r} /\ (gnb[r].amf # None => r \in UEs)
      BY <2>1
    <3>2. generated = NumUes /\ \A r \in UEs : r <= NumUes
      BY <1>1
    <3>3. QED
      BY <3>1, <3>2 DEF OwnRadio
  <2>3. RadioTypes
    <3>1. gnb \in [RanIds -> Connections]
      BY <2>1
    <3>2. rrc \in [UEs -> RanIds \cup {None}] /\ guti \in [UEs -> Tmsi \cup {None}]
      BY <1>1
    <3>3. request \in [UEs -> [kind : Requests \cup {"none"}, waits : BOOLEAN]]
      BY DEF Idle
    <3>4. crashed \in BOOLEAN
      OBVIOUS
    <3>5. opened \in AmfIds /\ others \in 0..MaxEvents
      BY <1>1
    <3>6. QED
      BY <3>1, <3>2, <3>3, <3>4, <3>5 DEF RadioTypes
  <2>4. QED
    BY <2>2, <2>3
<1>8. AllMessages /\ Order
  BY <1>1 DEF AllMessages, Order, Initials
<1>9. Watch
  BY DEF Watch, WatchedIsGone, WatchedIsKept, DeregisteredBefore, Watched
<1>10. Current
  <2>1. \A a \in AmfIds : amfueid2nas_context[a] \in {None, a}
    BY <1>1
  <2>2. QED
    BY <1>1, <1>5, <2>1 DEF Current
<1>11. QED
  BY <1>2, <1>3, <1>4, <1>6, <1>7, <1>8, <1>9, <1>10 DEF Inv, Types, Own

\* Every step keeps the invariant.
LEMMA NextInv == Inv /\ [Next]_vars => Inv'
<1> SUFFICES ASSUME Inv, [Next]_vars PROVE Inv'
  OBVIOUS
<1>1. CASE UNCHANGED vars
  <2>1. /\ UNCHANGED <<n2_queue, app_queue, n1_queue, sctp, n2, app, n1, crashed, radio, others>>
    BY <1>1 DEF vars, queues
  <2>2. N2Moves /\ SctpMoves
    BY <2>1, N2Steps, SctpSteps DEF Inv
  <2>3. crashed' \in BOOLEAN
    BY <2>1 DEF Inv, Types, RadioTypes
  <2>4. QED
    BY <2>1, <2>2, <2>3, PassingKeeps
<1>2. CASE Environment
  BY <1>2, OpenKeeps, LoseKeeps, DeregisterKeeps, TransferKeeps, AskForReleaseKeeps, ResetKeeps,
     ExpireKeeps
     DEF Environment
<1>3. CASE Gnb
  BY <1>3, ReleaseKeeps, DeliverKeeps, PagedKeeps DEF Gnb
<1>4. CASE AMF_N2
  BY <1>4, InitialKeeps, UplinkKeeps, ReleaseRequestKeeps, ReleaseCommandKeeps, DownlinkKeeps,
     SetupKeeps, PagingKeeps, ReleaseCompleteKeeps, NgResetKeeps
     DEF AMF_N2
<1>5. CASE AMF_APP
  BY <1>5, EstablishmentKeeps, TransferRequestKeeps DEF AMF_APP
<1>6. CASE AMF_N1
  BY <1>6, FirstNasKeeps, CompleteKeeps, IdentityKeeps, DeregistrationKeeps, DownlinkTransferKeeps,
     MobileKeeps, ImplicitKeeps
     DEF AMF_N1
<1>7. QED
  BY <1>1, <1>2, <1>3, <1>4, <1>5, <1>6 DEF Next

\* The tables, queues and timers are what they are meant to be.
THEOREM TypeCorrect == Spec => []TypeOK
<1>1. Inv => TypeOK
  <2> SUFFICES ASSUME Inv PROVE TypeOK
    OBVIOUS
  <2>1. /\ \A i \in DOMAIN n2_queue : n2_queue[i] \in N2Messages
        /\ \A i \in DOMAIN app_queue : app_queue[i] \in AppMessages
        /\ \A i \in DOMAIN n1_queue : n1_queue[i] \in N1Messages
        /\ \A i \in DOMAIN sctp : sctp[i] \in SctpMessages
    BY DEF Inv, Types, QueueTypes
  <2>2. N2Types /\ AppTypes /\ N1Types /\ RadioTypes
    BY DEF Inv, Types
  <2>3. QED
    BY <2>1, <2>2 DEF TypeOK, N2Types, AppTypes, N1Types, RadioTypes, NasContexts, Connections,
                      N2Messages, AppMessages, N1Messages, SctpMessages, MessagesOf
<1>2. QED
  BY <1>1, InitInv, NextInv, PTL DEF Spec

\* When the implicit deregistration timer of a connection runs out, the AMF has its
\* context: what could have ended it before is taken from the queue first.
THEOREM ImplicitTimeoutFindsAContext == Spec => []ImplicitTimeoutFindsContext
<1>1. Inv => ImplicitTimeoutFindsContext
  <2> SUFFICES ASSUME Inv, NEW a \in AmfIds,
                      \/ <<"implicit", a>> \in timers
                      \/ \E i \in DOMAIN n1_queue : n1_queue[i] = Ngap("implicit", None, a)
               PROVE  amfueid2nas_context[a] # None
    BY DEF ImplicitTimeoutFindsContext
  <2>1. Watched("implicit", a)
    BY DEF Watched, Ngap, Message
  <2>2. QED
    BY <2>1 DEF Inv, Watch, WatchedIsKept
<1>2. QED
  BY <1>1, InitInv, NextInv, PTL DEF Spec

\* The end of a connection that a UE has left starts no timer while the gNB has the
\* connection of its context: the ids by SUPI are those of the last one.
THEOREM OldReleaseKeepsTheNew == Spec => OldReleaseKeepsNew
<1>1. ASSUME Inv, [Next]_vars, NEW a \in AmfIds, <<"mobile", a>> \in timers', <<"mobile", a>> \notin timers
      PROVE  LET c == nas[amfueid2nas_context[a]]
             IN  gnb[c.ran].ue = None \/ gnb[c.ran].amf \notin {None, c.amf}
  <2>1. ue_context_release_complete
    <3>1. ASSUME NEW t \in timers, timers' = timers \ {t} PROVE FALSE
      BY <1>1, <3>1
    <3>2. timers' # timers
      BY <1>1
    <3>3. CASE UNCHANGED vars
      BY <3>2, <3>3 DEF vars, n1
    <3>4. CASE Environment
      BY <3>1, <3>2, <3>4
         DEF Environment, Open, Lose, Deregister, Transfer, AskForRelease, Reset, Expire, n1
    <3>5. CASE Gnb
      BY <3>2, <3>5 DEF Gnb, Release, Deliver, Paged, n1
    <3>6. CASE AMF_N2
      BY <3>2, <3>6
         DEF AMF_N2, N2Keeps, initial_ue_message, ul_nas_transport, ue_context_release_request,
             ue_context_release_command, dl_nas_transport, setup_request, paging, ng_reset, n1
    <3>7. CASE AMF_APP
      BY <3>2, <3>7
         DEF AMF_APP, nas_signalling_establishment_request, n1n2_message_transfer_request, n1
    <3>8. CASE AMF_N1
      <4>1. CASE mobile_reachable_timer_timeout
        <5>1. PICK b : timers' = timers \/ timers' = timers \cup {<<"implicit", b>>}
          BY <4>1 DEF mobile_reachable_timer_timeout
        <5>2. QED
          BY <1>1, <5>1
      <4>2. QED
        BY <3>2, <3>8, <4>1
           DEF AMF_N1, N1Keeps, nas_signalling_establishment_request_handle,
               security_mode_complete_handle, identity_response_handle,
               ue_initiate_de_registration_handle, downlink_nas_transfer,
               implicit_deregistration_timer_timeout, n1
    <3>9. QED
      BY <1>1, <3>3, <3>4, <3>5, <3>6, <3>7, <3>8 DEF Next
  <2>2. PICK m : m = Head(n2_queue)
    OBVIOUS
  <2>3. PICK b : b = m.amf
    OBVIOUS
  <2>4. PICK c : c = amfueid2nas_context[b]
    OBVIOUS
  <2>5. /\ Takes(n2_queue, "release complete") /\ c # None /\ IsCurrent(c, b)
        /\ timers' = timers \cup {<<"mobile", b>>}
    BY <1>1, <2>1, <2>2, <2>3, <2>4 DEF ue_context_release_complete
  <2>6. a = b
    BY <1>1, <2>5
  <2>7. m.ran = b /\ gnb[b] = Free
    <3>1. m.type = "release complete" /\ N2Message(m)
      BY <1>1, <2>2, <2>5, N2Head DEF Takes
    <3>2. Paired(m) /\ gnb[m.ran] = Free
      BY <3>1 DEF N2Message
    <3>3. QED
      BY <2>3, <3>2 DEF Paired
  <2>8. nas[c].amf = b
    BY <1>1, <2>4, <2>5, <2>6 DEF IsCurrent, Inv, Current
  <2>9. c \in Contexts
    BY <1>1, <2>4, <2>5, <2>6 DEF Inv, Types, N1Types
  <2>10. nas[c].ran = b
    BY <1>1, <2>8, <2>9 DEF Inv, Own, OwnNas
  <2>11. QED
    BY <2>4, <2>6, <2>7, <2>10 DEF Free
<1>2. Inv /\ [Next]_vars =>
        [\A a \in AmfIds :
          <<"mobile", a>> \in timers' /\ <<"mobile", a>> \notin timers =>
             LET c == nas[amfueid2nas_context[a]]
             IN  gnb[c.ran].ue = None \/ gnb[c.ran].amf \notin {None, c.amf}]_vars
  BY <1>1
<1>3. QED
  BY <1>2, InitInv, NextInv, PTL DEF Spec, OldReleaseKeepsNew
-----------------------------------------------------------------------------
(* What is on its way.  The queues are N2's, APP's and N1's, and the gNB's.  *)

Places == 1..4

Talks == Requests \cup {"challenge", "complete", "identify", "identity", "accept", "reject",
                        "deregister"}

\* A message of a registration, service request or deregistration on connection r.
Token(m, r) == m.ran = r /\ (m.what \in Talks \/ m.tmsi # None)

\* There is one at a time on each connection.
One(Q) == \A x, y \in Places, r \in RanIds : \A i \in DOMAIN Q[x], j \in DOMAIN Q[y] :
    Token(Q[x][i], r) /\ Token(Q[y][j], r) => x = y /\ i = j

\* Its UE waits, for what it asked for, or has deregistered.
Expects(u, what) ==
    IF what = "deregister" THEN guti[u] = None
    ELSE request[u].waits /\ (what \in Requests => request[u].kind = what)

\* A UE has one connection, which no other UE has.
OneLink == \A u, v \in UEs : rrc[u] \in 0..opened /\ (rrc[u] # None /\ rrc[v] = rrc[u] => v = u)

ExpectedFor(Q, u) == \A x \in Places : \A i \in DOMAIN Q[x] :
    rrc[u] # None /\ Token(Q[x][i], rrc[u]) => Expects(u, Q[x][i].what)
Expected(Q) == \A u \in UEs : ExpectedFor(Q, u)

\* N1 has taken the first message of connection r.
Taken(r) ==
    /\ r <= generated
    /\ \A i \in DOMAIN n1_queue : n1_queue[i].type = "initial" => n1_queue[i].ran # r

\* All else there is of a connection comes after that.
LaterIn(Q) == \A x \in Places : \A i \in DOMAIN Q[x] :
    Q[x][i].type # "initial" /\ Q[x][i].ran # None => Taken(Q[x][i].ran)
LaterTables ==
    /\ \A r \in RanIds : gnb[r].amf # None => Taken(r)
    /\ \A u \in UEs : Taken(supi2Id[u].ran)
    /\ \A c \in Contexts : nas[c].ran # None => Taken(nas[c].ran)

Talk == One(queues) /\ Expected(queues)
Later == LaterIn(queues) /\ LaterTables

-----------------------------------------------------------------------------
(* The end of a connection.                                                 *)

First(m, r) == m.type = "initial" /\ m.ran = r

\* A connection is free in the gNB from the reset on, unless it came after it.
ResetFrees == \A i \in DOMAIN n2_queue, r \in RanIds :
    n2_queue[i].type = "reset" /\ gnb[r] # Free =>
       \E j \in DOMAIN n2_queue : i < j /\ First(n2_queue[j], r)
FreeIsReset == \A i \in DOMAIN n2_queue :
    n2_queue[i].type = "initial" /\ gnb[n2_queue[i].ran] = Free =>
       \E j \in DOMAIN n2_queue : i < j /\ n2_queue[j].type = "reset"

\* What N2 has forgotten the gNB has not.
ForgottenIsFree == \A r \in RanIds : ~ranid2uecontext[r].known =>
    gnb[r] = Free \/ \E i \in DOMAIN n2_queue : First(n2_queue[i], r)

\* Both tables of N2 have a connection, or none.
KnownByBoth == \A r \in RanIds : ranid2uecontext[r].known /\ r <= generated =>
    ranid2uecontext[r].amf = r /\ r \in amfueid2uecontext

\* What the gNB has not N2 will be told of, or it has lost the context.
EndIsTold == \A r \in RanIds : ranid2uecontext[r].known /\ gnb[r] = Free =>
    \/ \E i \in DOMAIN n2_queue : n2_queue[i].type = "reset"
    \/ \E i \in DOMAIN n2_queue : n2_queue[i].type = "release complete" /\ n2_queue[i].ran = r
    \/ Taken(r) /\ amfueid2nas_context[r] = None

\* A question for an identity is asked about a context.
Question(m, r) == m.ran = r /\ m.what \in {"identify", "identity"}
LostContext(r) == ranid2uecontext[r].known /\ Taken(r) /\ amfueid2nas_context[r] = None
NotAsked(Q, r) == \A x \in Places : \A i \in DOMAIN Q[x] : ~Question(Q[x][i], r)
AskedHasContext == \A r \in RanIds : LostContext(r) => NotAsked(queues, r)

End == /\ ResetFrees /\ FreeIsReset /\ ForgottenIsFree /\ KnownByBoth
       /\ EndIsTold /\ AskedHasContext

-----------------------------------------------------------------------------
(* Service requests.                                                        *)

Reply(m, r) == m.ran = r /\ m.what \in {"accept", "reject"}
Command(m, r) == m.type = "release command" /\ m.ran = r

\* The release of connection s is ahead of every reply to the UE on r.
Ahead(q, s, r) == \E i \in DOMAIN q :
    Command(q[i], s) /\ \A j \in DOMAIN q : Reply(q[j], r) => i < j
Coming(s, r) ==
    \/ Ahead(n2_queue, s, r) /\ (\A j \in DOMAIN sctp : ~Reply(sctp[j], r))
    \/ Ahead(sctp, s, r)

OldIds == \A c \in Contexts :
    /\ nas[c].oldRan = nas[c].oldAmf /\ nas[c].oldAmf \in Ids \cup {None}
    /\ nas[c].oldAmf # None => nas[c].ran # None

\* The connection that a UE came from is given up, or that is ahead of the reply.
OldIsReleased == \A u \in UEs, c \in Contexts :
    /\ rrc[u] # None /\ request[u].kind = "service"
    /\ nas[c].ran = rrc[u] /\ nas[c].oldAmf # None
    => gnb[nas[c].oldAmf] = Free \/ (request[u].waits /\ Coming(nas[c].oldAmf, rrc[u]))
-----------------------------------------------------------------------------
(* What a step does to the queues.                                          *)

\* What the queues are.
QueueOf(q) == Len(q) \in Nat /\ DOMAIN q = 1..Len(q)

\* The queues Q become R: d messages are taken from that of x, and the messages ms put
\* to that of y.
Flow(Q, R, d, x, y, ms) ==
    /\ d \in {0, 1} /\ x \in Places /\ y \in Places /\ x # y
    /\ \A z \in Places : QueueOf(Q[z])
    /\ d = 1 => 1 \in DOMAIN Q[x]
    /\ \A i \in DOMAIN R[x] : i + d \in DOMAIN Q[x] /\ R[x][i] = Q[x][i + d]
    /\ \A i \in DOMAIN Q[x] : i > d => i - d \in DOMAIN R[x] /\ R[x][i - d] = Q[x][i]
    /\ \A i \in DOMAIN Q[y] : i \in DOMAIN R[y] /\ R[y][i] = Q[y][i]
    /\ \A i \in DOMAIN R[y] : i \notin DOMAIN Q[y] =>
          i - Len(Q[y]) \in DOMAIN ms /\ R[y][i] = ms[i - Len(Q[y])]
    /\ \A k \in DOMAIN ms : Len(Q[y]) + k \in DOMAIN R[y] /\ R[y][Len(Q[y]) + k] = ms[k]
    /\ DOMAIN ms \subseteq Nat \ {0} /\ DOMAIN R[x] \subseteq Nat \ {0} /\ DOMAIN R[y] \subseteq Nat \ {0}
    /\ \A z \in Places : z \notin {x, y} => R[z] = Q[z]

\* One queue gets a message, two or none.
LEMMA PutFacts ==
  ASSUME NEW S, NEW q \in Seq(S), NEW ms, NEW r,
         \/ ms = <<>> /\ r = q
         \/ \E m : ms = <<m>> /\ r = Append(q, m)
         \/ (\E m : ms = <<m>> \/ \E n : ms = <<m, n>>) /\ r = q \o ms
  PROVE  /\ \A i \in DOMAIN q : i \in DOMAIN r /\ r[i] = q[i]
         /\ \A i \in DOMAIN r : i \notin DOMAIN q =>
               i - Len(q) \in DOMAIN ms /\ r[i] = ms[i - Len(q)]
         /\ \A k \in DOMAIN ms : Len(q) + k \in DOMAIN r /\ r[Len(q) + k] = ms[k]
         /\ DOMAIN ms \subseteq Nat \ {0} /\ DOMAIN r \subseteq Nat \ {0}
<1>1. CASE ms = <<>> /\ r = q
  BY <1>1
<1>2. CASE \E m : ms = <<m>> /\ r = Append(q, m)
  <2>1. PICK m : ms = <<m>> /\ r = Append(q, m)
    BY <1>2
  <2>2. q \in Seq(S \cup {m}) /\ m \in S \cup {m}
    OBVIOUS
  <2>3. Len(q) \in Nat /\ Len(r) = Len(q) + 1 /\ DOMAIN r = 1..Len(r) /\ DOMAIN q = 1..Len(q)
        /\ \A i \in DOMAIN r : r[i] = IF i <= Len(q) THEN q[i] ELSE m
    <3>1. Append(q, m) \in Seq(S \cup {m})
      BY <2>2, Putting
    <3>2. QED
      BY <2>1, <2>2, <3>1, Putting
  <2>4. DOMAIN ms = {1} /\ ms[1] = m
    BY <2>1
  <2>5. QED
    BY <2>3, <2>4
<1>3. CASE (\E m : ms = <<m>> \/ \E n : ms = <<m, n>>) /\ r = q \o ms
  <2>1. PICK m, n : ms = <<m>> \/ ms = <<m, n>>
    BY <1>3
  <2>2. ms \in Seq(S \cup {m, n}) /\ q \in Seq(S \cup {m, n}) /\ Len(ms) \in Nat /\ DOMAIN ms = 1..Len(ms)
    <3>1. CASE ms = <<m>>
      BY <3>1
    <3>2. CASE ms = <<m, n>>
      BY <3>2
    <3>3. QED
      BY <2>1, <3>1, <3>2
  <2>3. /\ r \in Seq(S \cup {m, n}) /\ Len(r) = Len(q) + Len(ms)
        /\ \A i \in 1..(Len(q) + Len(ms)) : r[i] = IF i <= Len(q) THEN q[i] ELSE ms[i - Len(q)]
    BY <1>3, <2>2, ConcatProperties
  <2>4. Len(q) \in Nat /\ DOMAIN q = 1..Len(q) /\ DOMAIN r = 1..Len(r)
    BY <2>2, <2>3
  <2>5. \A i \in DOMAIN q : i \in DOMAIN r /\ r[i] = q[i]
    BY ONLY <2>2, <2>3, <2>4
  <2>6. \A i \in DOMAIN r : i \notin DOMAIN q => i - Len(q) \in DOMAIN ms /\ r[i] = ms[i - Len(q)]
    BY ONLY <2>2, <2>3, <2>4
  <2>7. \A k \in DOMAIN ms : Len(q) + k \in DOMAIN r /\ r[Len(q) + k] = ms[k]
    <3> SUFFICES ASSUME NEW k \in DOMAIN ms PROVE Len(q) + k \in DOMAIN r /\ r[Len(q) + k] = ms[k]
      OBVIOUS
    <3>1. Len(q) + k \in 1..(Len(q) + Len(ms)) /\ ~(Len(q) + k <= Len(q)) /\ (Len(q) + k) - Len(q) = k
      BY ONLY <2>2, <2>4, k \in DOMAIN ms
    <3>2. QED
      BY ONLY <2>3, <2>4, <3>1
  <2>8. DOMAIN ms \subseteq Nat \ {0} /\ DOMAIN r \subseteq Nat \ {0}
    BY ONLY <2>2, <2>3, <2>4
  <2>9. QED
    BY <2>5, <2>6, <2>7, <2>8
<1>4. QED
  BY <1>1, <1>2, <1>3

\* One queue gives a message or none.
LEMMA TakeFacts ==
  ASSUME NEW S, NEW q \in Seq(S), NEW r, NEW d \in {0, 1},
         d = 0 => r = q, d = 1 => q # <<>> /\ r = Tail(q)
  PROVE  /\ d = 1 => 1 \in DOMAIN q
         /\ \A i \in DOMAIN r : i + d \in DOMAIN q /\ r[i] = q[i + d]
         /\ \A i \in DOMAIN q : i > d => i - d \in DOMAIN r /\ r[i - d] = q[i]
         /\ DOMAIN r \subseteq Nat \ {0}
<1>1. CASE d = 0
  BY <1>1
<1>2. CASE d = 1
  <2>1. /\ Len(q) \in Nat \ {0} /\ DOMAIN q = 1..Len(q) /\ r \in Seq(S) /\ Len(r) = Len(q) - 1
        /\ \A i \in DOMAIN r : i + 1 \in DOMAIN q /\ r[i] = q[i + 1]
    BY <1>2, Taking
  <2>2. DOMAIN r = 1..Len(r)
    BY <2>1
  <2>3. QED
    BY <1>2, <2>1, <2>2
<1>3. QED
  BY <1>1, <1>2

\* The queues as they are.
LEMMA QueueTypesOf ==
  ASSUME Types, NEW x \in Places
  PROVE  \E S : queues[x] \in Seq(S)
<1>1. /\ n2_queue \in Seq(N2Messages) /\ app_queue \in Seq(AppMessages)
      /\ n1_queue \in Seq(N1Messages) /\ sctp \in Seq(SctpMessages)
  BY DEF Types, QueueTypes
<1>2. x \in {1, 2, 3, 4}
  BY DEF Places
<1>3. /\ queues[1] = n2_queue /\ queues[2] = app_queue /\ queues[3] = n1_queue /\ queues[4] = sctp
  BY DEF queues
<1>4. QED
  BY <1>1, <1>2, <1>3

\* A queue gives at most one, and another gets at most two.
LEMMA FlowOf ==
  ASSUME NEW Q, NEW R, \A z \in Places : \E S : Q[z] \in Seq(S),
         NEW d \in {0, 1}, NEW x \in Places, NEW y \in Places, NEW ms, x # y,
         d = 0 => R[x] = Q[x], d = 1 => Q[x] # <<>> /\ R[x] = Tail(Q[x]),
         \/ ms = <<>> /\ R[y] = Q[y]
         \/ \E m : ms = <<m>> /\ R[y] = Append(Q[y], m)
         \/ (\E m : ms = <<m>> \/ \E n : ms = <<m, n>>) /\ R[y] = Q[y] \o ms,
         \A z \in Places : z \notin {x, y} => R[z] = Q[z]
  PROVE  Flow(Q, R, d, x, y, ms)
<1>1. \A z \in Places : QueueOf(Q[z])
  BY DEF QueueOf
<1>2. /\ \A i \in DOMAIN Q[y] : i \in DOMAIN R[y] /\ R[y][i] = Q[y][i]
      /\ \A i \in DOMAIN R[y] : i \notin DOMAIN Q[y] =>
            i - Len(Q[y]) \in DOMAIN ms /\ R[y][i] = ms[i - Len(Q[y])]
      /\ \A k \in DOMAIN ms : Len(Q[y]) + k \in DOMAIN R[y] /\ R[y][Len(Q[y]) + k] = ms[k]
      /\ DOMAIN ms \subseteq Nat \ {0} /\ DOMAIN R[y] \subseteq Nat \ {0}
  <2>1. PICK S : Q[y] \in Seq(S)
    OBVIOUS
  <2>2. PICK q, r : q = Q[y] /\ r = R[y]
    OBVIOUS
  <2>3. \/ ms = <<>> /\ r = q
        \/ \E m : ms = <<m>> /\ r = Append(q, m)
        \/ (\E m : ms = <<m>> \/ \E n : ms = <<m, n>>) /\ r = q \o ms
    BY <2>2
  <2>4. q \in Seq(S)
    BY <2>1, <2>2
  <2>5. /\ \A i \in DOMAIN q : i \in DOMAIN r /\ r[i] = q[i]
        /\ \A i \in DOMAIN r : i \notin DOMAIN q =>
              i - Len(q) \in DOMAIN ms /\ r[i] = ms[i - Len(q)]
        /\ \A k \in DOMAIN ms : Len(q) + k \in DOMAIN r /\ r[Len(q) + k] = ms[k]
        /\ DOMAIN ms \subseteq Nat \ {0} /\ DOMAIN r \subseteq Nat \ {0}
    BY ONLY <2>3, <2>4, PutFacts
  <2>6. QED
    BY <2>2, <2>5
<1>3. /\ d = 1 => 1 \in DOMAIN Q[x]
      /\ \A i \in DOMAIN R[x] : i + d \in DOMAIN Q[x] /\ R[x][i] = Q[x][i + d]
      /\ \A i \in DOMAIN Q[x] : i > d => i - d \in DOMAIN R[x] /\ R[x][i - d] = Q[x][i]
      /\ DOMAIN R[x] \subseteq Nat \ {0}
  <2>1. PICK S : Q[x] \in Seq(S)
    OBVIOUS
  <2>2. PICK q, r : q = Q[x] /\ r = R[x]
    OBVIOUS
  <2>3. q \in Seq(S) /\ (d = 0 => r = q) /\ (d = 1 => q # <<>> /\ r = Tail(q)) /\ d \in {0, 1}
    BY <2>1, <2>2
  <2>4. /\ d = 1 => 1 \in DOMAIN q
        /\ \A i \in DOMAIN r : i + d \in DOMAIN q /\ r[i] = q[i + d]
        /\ \A i \in DOMAIN q : i > d => i - d \in DOMAIN r /\ r[i - d] = q[i]
        /\ DOMAIN r \subseteq Nat \ {0}
    BY ONLY <2>3, TakeFacts
  <2>5. QED
    BY <2>2, <2>4
<1>4. QED
  BY <1>1, <1>2, <1>3 DEF Flow

\* Where a message comes from.
LEMMA Origin ==
  ASSUME NEW Q, NEW R, NEW d, NEW x, NEW y, NEW ms, Flow(Q, R, d, x, y, ms),
         NEW z \in Places, NEW i \in DOMAIN R[z]
  PROVE  \/ \E j \in DOMAIN Q[z] : /\ R[z][i] = Q[z][j] /\ (j = IF z = x THEN i + d ELSE i)
                                   /\ z = x /\ d = 1 => j # 1
         \/ /\ z = y /\ i \notin DOMAIN Q[z] /\ i - Len(Q[y]) \in DOMAIN ms
            /\ R[z][i] = ms[i - Len(Q[y])]
<1>1. CASE z = x
  <2>1. i + d \in DOMAIN Q[z] /\ R[z][i] = Q[z][i + d]
    BY <1>1 DEF Flow
  <2>2. i \in Nat
    BY <1>1 DEF Flow
  <2>3. d = 1 => i + d # 1
    <3>1. i # 0
      BY <1>1 DEF Flow
    <3>2. QED
      BY <2>2, <3>1
  <2>4. QED
    BY <1>1, <2>1, <2>3
<1>2. CASE z = y
  <2>1. z # x
    BY <1>2 DEF Flow
  <2>2. CASE i \in DOMAIN Q[z]
    BY <1>2, <2>1, <2>2 DEF Flow
  <2>3. CASE i \notin DOMAIN Q[z]
    BY <1>2, <2>3 DEF Flow
  <2>4. QED
    BY <2>2, <2>3
<1>3. CASE z \notin {x, y}
  BY <1>3 DEF Flow
<1>4. QED
  BY <1>1, <1>2, <1>3

-----------------------------------------------------------------------------
(* What stays as it is when messages move.                                  *)

\* The places, and what is there.
LEMMA QueuesAre ==
  /\ Places = {1, 2, 3, 4} /\ DOMAIN queues = Places
  /\ queues[1] = n2_queue /\ queues[2] = app_queue /\ queues[3] = n1_queue /\ queues[4] = sctp
  /\ queues'[1] = n2_queue' /\ queues'[2] = app_queue' /\ queues'[3] = n1_queue' /\ queues'[4] = sctp'
BY DEF queues, Places

\* New messages of a talk are alone, and come for one taken or on a connection without.
OneMore(Q, d, x, ms) == \A r \in RanIds : \A k \in DOMAIN ms : Token(ms[k], r) =>
    /\ \A l \in DOMAIN ms : Token(ms[l], r) => l = k
    /\ \/ d = 1 /\ Token(Q[x][1], r)
       \/ \A z \in Places : \A i \in DOMAIN Q[z] : ~Token(Q[z][i], r)

\* Then there is still one at a time.
LEMMA OneKept ==
  ASSUME NEW Q, NEW R, NEW d, NEW x, NEW y, NEW ms, Flow(Q, R, d, x, y, ms),
         One(Q), OneMore(Q, d, x, ms)
  PROVE  One(R)
<1> SUFFICES ASSUME NEW v \in Places, NEW w \in Places, NEW r \in RanIds,
                    NEW i \in DOMAIN R[v], NEW j \in DOMAIN R[w],
                    Token(R[v][i], r), Token(R[w][j], r)
             PROVE  v = w /\ i = j
  BY DEF One
<1> DEFINE Old(z, k, n) == /\ n \in DOMAIN Q[z] /\ R[z][k] = Q[z][n] /\ (n = IF z = x THEN k + d ELSE k)
                           /\ z = x /\ d = 1 => n # 1
           New(z, k) == z = y /\ k - Len(Q[y]) \in DOMAIN ms /\ R[z][k] = ms[k - Len(Q[y])]
<1>1. \A z \in Places : \A k \in DOMAIN R[z] : New(z, k) \/ \E n : Old(z, k, n)
  BY Origin
<1>2. d \in {0, 1} /\ DOMAIN R[v] \subseteq Nat /\ DOMAIN R[w] \subseteq Nat /\ Len(Q[y]) \in Nat /\ y \in Places
  <2>1. \A z \in Places : DOMAIN R[z] \subseteq Nat
    BY DEF Flow, QueueOf
  <2>2. QED
    BY <2>1 DEF Flow, QueueOf
<1>3. \A z \in Places : \A n : n \in DOMAIN Q[z] /\ Token(Q[z][n], r) => ~(z = x /\ d = 1 /\ n # 1 /\ Token(Q[x][1], r))
  <2>1. d = 1 => 1 \in DOMAIN Q[x]
    BY DEF Flow
  <2>2. x \in Places
    BY DEF Flow
  <2>3. QED
    BY <2>1, <2>2 DEF One
<1>4. CASE New(v, i) /\ New(w, j)
  <2>1. i - Len(Q[y]) = j - Len(Q[y])
    BY <1>4 DEF OneMore
  <2>2. i \in Nat /\ j \in Nat
    BY <1>2
  <2>3. QED
    BY <1>2, <1>4, <2>1, <2>2
<1>5. ASSUME NEW z \in Places, NEW k, NEW n, Old(z, k, n), Token(R[z][k], r),
             NEW l, l \in DOMAIN ms, Token(ms[l], r)
      PROVE  FALSE
  <2>1. n \in DOMAIN Q[z] /\ Token(Q[z][n], r)
    BY <1>5
  <2>2. d = 1 /\ Token(Q[x][1], r)
    BY <1>5, <2>1 DEF OneMore
  <2>3. x \in Places /\ 1 \in DOMAIN Q[x]
    BY <2>2 DEF Flow
  <2>4. z = x /\ n = 1
    BY <2>1, <2>2, <2>3 DEF One
  <2>5. QED
    BY <1>5, <2>2, <2>4
<1>6. CASE \E n : Old(v, i, n) /\ \E m : Old(w, j, m)
  <2>1. PICK n, m : Old(v, i, n) /\ Old(w, j, m)
    BY <1>6
  <2>2. v = w /\ n = m
    BY <2>1 DEF One
  <2>3. i \in Nat /\ j \in Nat
    BY <1>2
  <2>4. QED
    BY <1>2, <2>1, <2>2, <2>3
<1>7. CASE New(v, i) /\ \E m : Old(w, j, m)
  <2>1. PICK m : Old(w, j, m)
    BY <1>7
  <2>2. i - Len(Q[y]) \in DOMAIN ms /\ Token(ms[i - Len(Q[y])], r)
    BY <1>7
  <2>3. QED
    BY <1>5, <2>1, <2>2
<1>8. CASE New(w, j) /\ \E n : Old(v, i, n)
  <2>1. PICK n : Old(v, i, n)
    BY <1>8
  <2>2. j - Len(Q[y]) \in DOMAIN ms /\ Token(ms[j - Len(Q[y])], r)
    BY <1>8
  <2>3. QED
    BY <1>5, <2>1, <2>2
<1>9. QED
  BY <1>1, <1>4, <1>6, <1>7, <1>8

\* What a UE waits for it waits for, and what it is told of next is of that.
ExpectsStill(u, Q, d, x, ms) ==
    /\ rrc'[u] = rrc[u]
    /\ \A z \in Places : \A i \in DOMAIN Q[z], what \in Whats :
          /\ ~(z = x /\ d = 1 /\ i = 1) /\ Token(Q[z][i], rrc[u]) /\ Q[z][i].what = what
          /\ Expects(u, what)
          => Expects(u, what)'
    /\ \A k \in DOMAIN ms, what \in Whats :
          Token(ms[k], rrc[u]) /\ ms[k].what = what => Expects(u, what)'

\* So it goes on, unless the UE has lost its connection.
LEMMA ExpectedKept ==
  ASSUME NEW Q, NEW R, NEW d, NEW x, NEW y, NEW ms, Flow(Q, R, d, x, y, ms),
         NEW u, ExpectedFor(Q, u), rrc'[u] = None \/ ExpectsStill(u, Q, d, x, ms)
  PROVE  \A z \in Places : \A i \in DOMAIN R[z], what \in Whats :
            rrc'[u] # None /\ Token(R[z][i], rrc'[u]) /\ R[z][i].what = what => Expects(u, what)'
<1> SUFFICES ASSUME NEW z \in Places, NEW i \in DOMAIN R[z], NEW what \in Whats,
                    rrc'[u] # None, Token(R[z][i], rrc'[u]), R[z][i].what = what
             PROVE  Expects(u, what)'
  OBVIOUS
<1>1. ExpectsStill(u, Q, d, x, ms) /\ rrc'[u] = rrc[u]
  BY DEF ExpectsStill
<1>2. CASE \E j \in DOMAIN Q[z] : R[z][i] = Q[z][j] /\ (z = x /\ d = 1 => j # 1)
  <2>1. PICK j \in DOMAIN Q[z] : R[z][i] = Q[z][j] /\ (z = x /\ d = 1 => j # 1)
    BY <1>2
  <2>2. Token(Q[z][j], rrc[u]) /\ Q[z][j].what = what
    BY <1>1, <2>1
  <2>3. Expects(u, Q[z][j].what)
    BY <1>1, <2>2 DEF ExpectedFor
  <2>4. Expects(u, what)
    BY <2>2, <2>3
  <2>5. QED
    BY <1>1, <2>1, <2>2, <2>4 DEF ExpectsStill
<1>3. CASE \E k \in DOMAIN ms : R[z][i] = ms[k]
  BY <1>1, <1>3 DEF ExpectsStill
<1>4. QED
  <2>1. \/ \E j \in DOMAIN Q[z] : R[z][i] = Q[z][j] /\ (z = x /\ d = 1 => j # 1)
        \/ \E k \in DOMAIN ms : R[z][i] = ms[k]
    BY Origin
  <2>2. QED
    BY <1>2, <1>3, <2>1

\* What N1 has taken stays so.
LEMMA TakenKept ==
  ASSUME NEW d, NEW x, NEW y, NEW ms, Flow(queues, queues', d, x, y, ms),
         generated \in Nat, generated' \in Nat, generated' >= generated,
         y = 3 => \A k \in DOMAIN ms : ms[k].type = "initial" => ms[k].ran > generated,
         NEW r \in Nat, Taken(r)
  PROVE  Taken(r)'
<1>1. \A i \in DOMAIN n1_queue' :
        \/ \E j \in DOMAIN n1_queue : n1_queue'[i] = n1_queue[j]
        \/ y = 3 /\ \E k \in DOMAIN ms : n1_queue'[i] = ms[k]
  <2>1. 3 \in Places
    BY DEF Places
  <2>2. QED
    BY <2>1, Origin, QueuesAre
<1>2. r <= generated /\ r <= generated'
  BY DEF Taken
<1>3. QED
  BY <1>1, <1>2 DEF Taken

\* All that comes after it has been taken does still.
LEMMA LaterKept ==
  ASSUME Later, NEW d, NEW x, NEW y, NEW ms, Flow(queues, queues', d, x, y, ms), Types, Types',
         \A r \in Nat : Taken(r) => Taken(r)',
         \A k \in DOMAIN ms : ms[k].type # "initial" /\ ms[k].ran # None => Taken(ms[k].ran)',
         \A r \in RanIds : gnb'[r].amf # None => gnb[r].amf # None \/ Taken(r)',
         \A u \in UEs : supi2Id'[u] = supi2Id[u] \/ Taken(supi2Id[u].ran)',
         \A c \in Contexts : nas'[c].ran \in {None, nas[c].ran} \/ Taken(nas[c].ran)',
         \A z \in Places : \A i \in DOMAIN queues[z] : queues[z][i].ran \in Nat
  PROVE  Later'
<1>1. LaterTables'
  <2>1. ASSUME NEW r \in RanIds, gnb'[r].amf # None PROVE Taken(r)'
    <3>1. r \in Nat
      BY DEF RanIds, AmfIds
    <3>2. QED
      BY <2>1, <3>1 DEF Later, LaterTables
  <2>2. ASSUME NEW u \in UEs PROVE Taken(supi2Id[u].ran)'
    <3>1. supi2Id[u].ran \in RanIds
      BY DEF Types, N1Types
    <3>2. supi2Id[u].ran \in Nat
      BY <3>1 DEF RanIds, AmfIds
    <3>3. Taken(supi2Id[u].ran)
      BY DEF Later, LaterTables
    <3>4. CASE supi2Id'[u] = supi2Id[u]
      BY <3>2, <3>3, <3>4 DEF Taken
    <3>5. QED
      BY <3>4
  <2>3. ASSUME NEW c \in Contexts, nas'[c].ran # None PROVE Taken(nas[c].ran)'
    <3>1. CASE nas'[c].ran = nas[c].ran
      <4>1. nas[c].ran \in RanIds
        BY <2>3, <3>1 DEF Types, N1Types, NasContexts
      <4>2. nas[c].ran \in Nat
        BY <4>1 DEF RanIds, AmfIds
      <4>3. Taken(nas[c].ran)
        BY <2>3, <3>1 DEF Later, LaterTables
      <4>4. QED
        BY <3>1, <4>2, <4>3 DEF Taken
    <3>2. QED
      BY <2>3, <3>1
  <2>4. QED
    BY <2>1, <2>2, <2>3 DEF LaterTables, None
<1>2. LaterIn(queues)'
  <2> SUFFICES ASSUME NEW z \in Places, NEW i \in DOMAIN queues'[z],
                      queues'[z][i].type # "initial", queues'[z][i].ran # None
               PROVE  Taken(queues[z][i].ran)'
    BY DEF LaterIn, None
  <2>1. \/ \E j \in DOMAIN queues[z] : queues'[z][i] = queues[z][j]
        \/ \E k \in DOMAIN ms : queues'[z][i] = ms[k]
    BY Origin
  <2>2. CASE \E j \in DOMAIN queues[z] : queues'[z][i] = queues[z][j]
    <3>1. PICK j \in DOMAIN queues[z] : queues'[z][i] = queues[z][j]
      BY <2>2
    <3>2. Taken(queues[z][j].ran) /\ queues[z][j].ran \in Nat
      BY <3>1 DEF Later, LaterIn
    <3>3. QED
      BY <3>1, <3>2 DEF Taken
  <2>3. CASE \E k \in DOMAIN ms : queues'[z][i] = ms[k]
    BY <2>3 DEF Taken
  <2>4. QED
    BY <2>1, <2>2, <2>3
<1>3. QED
  BY <1>1, <1>2 DEF Later

-----------------------------------------------------------------------------
(* The ends of connections when messages move.                              *)

\* The queue q becomes r: the first e messages are taken and those of new put.
Shift(q, r, e, new) ==
    /\ e \in {0, 1} /\ (e = 1 => 1 \in DOMAIN q)
    /\ \A i \in DOMAIN r : /\ i \in Nat \ {0}
                           /\ \/ i + e \in DOMAIN q /\ r[i] = q[i + e]
                              \/ (\A j \in DOMAIN q : j - e < i) /\ r[i] \in new
    /\ \A j \in DOMAIN q : /\ j \in Nat \ {0}
                           /\ j > e => j - e \in DOMAIN r /\ r[j - e] = q[j]
    /\ \A m \in new : \E i \in DOMAIN r : r[i] = m /\ \A j \in DOMAIN q : j - e < i

\* Of every queue.
LEMMA ShiftOf ==
  ASSUME NEW Q, NEW R, NEW d, NEW x, NEW y, NEW ms, Flow(Q, R, d, x, y, ms), NEW p \in Places,
         NEW e, e = IF p = x THEN d ELSE 0,
         NEW put, put = IF p = y THEN {ms[k] : k \in DOMAIN ms} ELSE {}
  PROVE  Shift(Q[p], R[p], e, put)
<1>1. QueueOf(Q[p]) /\ d \in {0, 1} /\ x # y
  BY DEF Flow
<1>2. Len(Q[p]) \in Nat /\ DOMAIN Q[p] = 1..Len(Q[p])
  BY <1>1 DEF QueueOf
<1>3. CASE p = x
  <2>1. /\ d = 1 => 1 \in DOMAIN Q[p]
        /\ \A i \in DOMAIN R[p] : i + d \in DOMAIN Q[p] /\ R[p][i] = Q[p][i + d]
        /\ \A i \in DOMAIN Q[p] : i > d => i - d \in DOMAIN R[p] /\ R[p][i - d] = Q[p][i]
        /\ DOMAIN R[p] \subseteq Nat \ {0}
    BY <1>3 DEF Flow
  <2>2. Shift(Q[p], R[p], d, {})
    BY <1>1, <1>2, <2>1 DEF Shift
  <2>3. QED
    BY <1>1, <1>3, <2>2
<1>4. CASE p = y
  <2>1. /\ \A i \in DOMAIN Q[p] : i \in DOMAIN R[p] /\ R[p][i] = Q[p][i]
        /\ \A i \in DOMAIN R[p] : i \notin DOMAIN Q[p] =>
              i - Len(Q[p]) \in DOMAIN ms /\ R[p][i] = ms[i - Len(Q[p])]
        /\ \A k \in DOMAIN ms : Len(Q[p]) + k \in DOMAIN R[p] /\ R[p][Len(Q[p]) + k] = ms[k]
        /\ DOMAIN ms \subseteq Nat \ {0} /\ DOMAIN R[p] \subseteq Nat \ {0}
    BY <1>4 DEF Flow
  <2>2. PICK new : new = {ms[k] : k \in DOMAIN ms}
    OBVIOUS
  <2>3. \A i \in DOMAIN R[p] : /\ i \in Nat \ {0}
                               /\ \/ i + 0 \in DOMAIN Q[p] /\ R[p][i] = Q[p][i + 0]
                                  \/ (\A j \in DOMAIN Q[p] : j - 0 < i) /\ R[p][i] \in new
    <3> SUFFICES ASSUME NEW i \in DOMAIN R[p]
                 PROVE  /\ i \in Nat \ {0}
                        /\ \/ i + 0 \in DOMAIN Q[p] /\ R[p][i] = Q[p][i + 0]
                           \/ (\A j \in DOMAIN Q[p] : j - 0 < i) /\ R[p][i] \in new
      OBVIOUS
    <3>1. i \in Nat \ {0}
      BY <2>1
    <3>2. CASE i \in DOMAIN Q[p]
      BY <2>1, <3>1, <3>2
    <3>3. CASE i \notin DOMAIN Q[p]
      <4>1. R[p][i] \in new
        BY <2>1, <2>2, <3>3
      <4>2. \A j \in DOMAIN Q[p] : j - 0 < i
        BY <1>2, <3>1, <3>3
      <4>3. QED
        BY <3>1, <4>1, <4>2
    <3>4. QED
      BY <3>2, <3>3
  <2>4. \A j \in DOMAIN Q[p] : j \in Nat \ {0} /\ (j > 0 => j - 0 \in DOMAIN R[p] /\ R[p][j - 0] = Q[p][j])
    BY <1>2, <2>1
  <2>5. \A m \in new : \E i \in DOMAIN R[p] : R[p][i] = m /\ \A j \in DOMAIN Q[p] : j - 0 < i
    <3> SUFFICES ASSUME NEW m \in new
                 PROVE  \E i \in DOMAIN R[p] : R[p][i] = m /\ \A j \in DOMAIN Q[p] : j - 0 < i
      OBVIOUS
    <3>1. PICK k \in DOMAIN ms : m = ms[k]
      BY <2>2
    <3>2. Len(Q[p]) + k \in DOMAIN R[p] /\ R[p][Len(Q[p]) + k] = m /\ k \in Nat \ {0}
      BY <2>1, <3>1
    <3>3. \A j \in DOMAIN Q[p] : j - 0 < Len(Q[p]) + k
      BY <1>2, <3>2
    <3>4. QED
      BY <3>2, <3>3
  <2>6. Shift(Q[p], R[p], 0, new)
    BY <2>3, <2>4, <2>5 DEF Shift
  <2>7. QED
    BY <1>1, <1>4, <2>2, <2>6
<1>5. CASE p \notin {x, y}
  <2>1. R[p] = Q[p]
    BY <1>5 DEF Flow
  <2>2. Shift(Q[p], R[p], 0, {})
    BY <1>2, <2>1 DEF Shift
  <2>3. QED
    BY <1>5, <2>2
<1>6. QED
  BY <1>3, <1>4, <1>5

\* From the reset on.
LEMMA ResetFreesKept ==
  ASSUME ResetFrees, NEW e, NEW new, Shift(n2_queue, n2_queue', e, new),
         \A m \in new : m.type # "reset",
         \A r \in RanIds : gnb'[r] # Free => gnb[r] # Free \/ \E m \in new : First(m, r)
  PROVE  ResetFrees'
<1> SUFFICES ASSUME NEW i \in DOMAIN n2_queue', NEW r \in RanIds,
                    n2_queue'[i].type = "reset", gnb'[r] # Free
             PROVE  \E j \in DOMAIN n2_queue' : i < j /\ First(n2_queue[j], r)'
  BY DEF ResetFrees, Free
<1>1. i \in Nat /\ i + e \in DOMAIN n2_queue /\ n2_queue'[i] = n2_queue[i + e] /\ e \in {0, 1}
  BY DEF Shift
<1>2. CASE gnb[r] # Free
  <2>1. PICK j \in DOMAIN n2_queue : i + e < j /\ First(n2_queue[j], r)
    BY <1>1, <1>2 DEF ResetFrees
  <2>2. j \in Nat /\ j > e
    BY <1>1, <2>1 DEF Shift
  <2>3. j - e \in DOMAIN n2_queue' /\ n2_queue'[j - e] = n2_queue[j]
    BY <2>1, <2>2 DEF Shift
  <2>4. i < j - e
    BY <1>1, <2>1, <2>2
  <2>5. QED
    BY <2>1, <2>3, <2>4 DEF First
<1>3. CASE \E m \in new : First(m, r)
  <2>1. PICK m \in new : First(m, r)
    BY <1>3
  <2>2. PICK j \in DOMAIN n2_queue' : n2_queue'[j] = m /\ \A k \in DOMAIN n2_queue : k - e < j
    BY DEF Shift
  <2>3. j \in Nat /\ (i + e) - e < j
    BY <1>1, <2>2 DEF Shift
  <2>4. i < j
    BY <1>1, <2>3
  <2>5. QED
    BY <2>1, <2>2, <2>4 DEF First
<1>4. QED
  BY <1>2, <1>3

\* The other way round.
LEMMA FreeIsResetKept ==
  ASSUME FreeIsReset, NEW e, NEW new, Shift(n2_queue, n2_queue', e, new),
         \A m \in new : m.type = "initial" => gnb'[m.ran] # Free,
         \A i \in DOMAIN n2_queue : n2_queue[i].type = "initial" /\ gnb'[n2_queue[i].ran] = Free =>
            gnb[n2_queue[i].ran] = Free \/ \E m \in new : m.type = "reset"
  PROVE  FreeIsReset'
<1> SUFFICES ASSUME NEW i \in DOMAIN n2_queue', n2_queue'[i].type = "initial",
                    gnb'[n2_queue'[i].ran] = Free
             PROVE  \E j \in DOMAIN n2_queue' : i < j /\ n2_queue'[j].type = "reset"
  BY DEF FreeIsReset, Free
<1>1. i \in Nat /\ i + e \in DOMAIN n2_queue /\ n2_queue'[i] = n2_queue[i + e] /\ e \in {0, 1}
  BY DEF Shift
<1>2. CASE gnb[n2_queue[i + e].ran] = Free
  <2>1. PICK j \in DOMAIN n2_queue : i + e < j /\ n2_queue[j].type = "reset"
    BY <1>1, <1>2 DEF FreeIsReset
  <2>2. j \in Nat /\ j > e
    BY <1>1, <2>1 DEF Shift
  <2>3. j - e \in DOMAIN n2_queue' /\ n2_queue'[j - e] = n2_queue[j]
    BY <2>1, <2>2 DEF Shift
  <2>4. i < j - e
    BY <1>1, <2>1, <2>2
  <2>5. QED
    BY <2>1, <2>3, <2>4
<1>3. CASE \E m \in new : m.type = "reset"
  <2>1. PICK m \in new : m.type = "reset"
    BY <1>3
  <2>2. PICK j \in DOMAIN n2_queue' : n2_queue'[j] = m /\ \A k \in DOMAIN n2_queue : k - e < j
    BY DEF Shift
  <2>3. j \in Nat /\ (i + e) - e < j
    BY <1>1, <2>2 DEF Shift
  <2>4. i < j
    BY <1>1, <2>3
  <2>5. QED
    BY <2>1, <2>2, <2>4
<1>4. QED
  BY <1>1, <1>2, <1>3

\* What N2 forgets, and what it has forgotten.
LEMMA ForgottenIsFreeKept ==
  ASSUME ForgottenIsFree, NEW e, NEW new, Shift(n2_queue, n2_queue', e, new),
         \A r \in RanIds : gnb[r] = Free => gnb'[r] = Free \/ \E m \in new : First(m, r),
         \A r \in RanIds : ~ranid2uecontext'[r].known =>
            \/ ~ranid2uecontext[r].known
            \/ gnb'[r] = Free
            \/ \E i \in DOMAIN n2_queue : i > e /\ First(n2_queue[i], r),
         \A r \in RanIds : e = 1 /\ First(n2_queue[1], r) => ranid2uecontext'[r].known
  PROVE  ForgottenIsFree'
<1> SUFFICES ASSUME NEW r \in RanIds, ~ranid2uecontext'[r].known, gnb'[r] # Free
             PROVE  \E i \in DOMAIN n2_queue' : First(n2_queue[i], r)'
  BY DEF ForgottenIsFree, Free
<1>1. CASE \E i \in DOMAIN n2_queue : i > e /\ First(n2_queue[i], r)
  BY <1>1 DEF Shift, First
<1>2. CASE \E m \in new : First(m, r)
  BY <1>2 DEF Shift, First
<1>3. CASE \E i \in DOMAIN n2_queue : First(n2_queue[i], r)
  <2>1. PICK i \in DOMAIN n2_queue : First(n2_queue[i], r)
    BY <1>3
  <2>2. i \in Nat \ {0} /\ e \in {0, 1} /\ ~(e = 1 /\ i = 1)
    BY <2>1 DEF Shift
  <2>3. i > e
    BY <2>2
  <2>4. QED
    BY <1>1, <2>1, <2>3
<1>4. QED
  BY <1>1, <1>2, <1>3 DEF ForgottenIsFree

\* N2 is told of what ends.
LEMMA EndIsToldKept ==
  ASSUME EndIsTold, NEW e, NEW new, Shift(n2_queue, n2_queue', e, new),
         \A r \in RanIds : ranid2uecontext'[r].known /\ gnb'[r] = Free =>
            \/ /\ ranid2uecontext[r].known /\ gnb[r] = Free
               /\ e = 1 => n2_queue[1].type # "reset"
               /\ e = 1 /\ n2_queue[1].type = "release complete" /\ n2_queue[1].ran = r =>
                     Taken(r)' /\ amfueid2nas_context'[r] = None
               /\ Taken(r) /\ amfueid2nas_context[r] = None =>
                     Taken(r)' /\ amfueid2nas_context'[r] = None
            \/ \E m \in new : m.type = "reset" \/ (m.type = "release complete" /\ m.ran = r)
            \/ \E i \in DOMAIN n2_queue : i > e /\ n2_queue[i].type = "reset"
  PROVE  EndIsTold'
<1> SUFFICES ASSUME NEW r \in RanIds, ranid2uecontext'[r].known, gnb'[r] = Free
             PROVE  \/ \E i \in DOMAIN n2_queue' : n2_queue'[i].type = "reset"
                    \/ \E i \in DOMAIN n2_queue' : n2_queue'[i].type = "release complete" /\ n2_queue'[i].ran = r
                    \/ Taken(r)' /\ amfueid2nas_context'[r] = None
  BY DEF EndIsTold, Free, None
<1>1. CASE \E m \in new : m.type = "reset" \/ (m.type = "release complete" /\ m.ran = r)
  <2>1. PICK m \in new : m.type = "reset" \/ (m.type = "release complete" /\ m.ran = r)
    BY <1>1
  <2>2. PICK i \in DOMAIN n2_queue' : n2_queue'[i] = m
    BY DEF Shift
  <2>3. QED
    BY <2>1, <2>2
<1>2. CASE \E i \in DOMAIN n2_queue : i > e /\ n2_queue[i].type = "reset"
  <2>1. PICK i \in DOMAIN n2_queue : i > e /\ n2_queue[i].type = "reset"
    BY <1>2
  <2>2. i - e \in DOMAIN n2_queue' /\ n2_queue'[i - e] = n2_queue[i]
    BY <2>1 DEF Shift
  <2>3. QED
    BY <2>1, <2>2
<1>3. CASE /\ ranid2uecontext[r].known /\ gnb[r] = Free
           /\ e = 1 => n2_queue[1].type # "reset"
           /\ e = 1 /\ n2_queue[1].type = "release complete" /\ n2_queue[1].ran = r =>
                 Taken(r)' /\ amfueid2nas_context'[r] = None
           /\ Taken(r) /\ amfueid2nas_context[r] = None =>
                 Taken(r)' /\ amfueid2nas_context'[r] = None
  <2>1. \/ \E i \in DOMAIN n2_queue : n2_queue[i].type = "reset"
        \/ \E i \in DOMAIN n2_queue : n2_queue[i].type = "release complete" /\ n2_queue[i].ran = r
        \/ Taken(r) /\ amfueid2nas_context[r] = None
    BY <1>3 DEF EndIsTold
  <2>2. \A i \in DOMAIN n2_queue : i > e \/ (e = 1 /\ i = 1)
    <3>1. e \in {0, 1} /\ \A i \in DOMAIN n2_queue : i \in Nat \ {0}
      BY DEF Shift
    <3>2. QED
      BY ONLY <3>1
  <2>3. CASE \E i \in DOMAIN n2_queue : n2_queue[i].type = "reset"
    BY <1>2, <1>3, <2>2, <2>3
  <2>4. CASE \E i \in DOMAIN n2_queue : n2_queue[i].type = "release complete" /\ n2_queue[i].ran = r
    <3>1. PICK i \in DOMAIN n2_queue : n2_queue[i].type = "release complete" /\ n2_queue[i].ran = r
      BY <2>4
    <3>2. CASE e = 1 /\ i = 1
      BY <1>3, <3>1, <3>2
    <3>3. CASE i > e
      <4>1. i - e \in DOMAIN n2_queue' /\ n2_queue'[i - e] = n2_queue[i]
        BY <3>3 DEF Shift
      <4>2. QED
        BY <3>1, <4>1
    <3>4. QED
      BY <2>2, <3>2, <3>3
  <2>5. QED
    BY <1>3, <2>1, <2>3, <2>4
<1>4. QED
  BY <1>1, <1>2, <1>3

\* Questions are asked about a context.
LEMMA AskedKept ==
  ASSUME AskedHasContext, NEW d, NEW x, NEW y, NEW ms, Flow(queues, queues', d, x, y, ms),
         \A r \in RanIds : LostContext(r)' => LostContext(r) \/ NotAsked(queues, r),
         \A r \in RanIds : \A k \in DOMAIN ms : Question(ms[k], r) =>
            (d = 1 /\ Question(queues[x][1], r)) \/ ~LostContext(r)'
  PROVE  AskedHasContext'
<1> SUFFICES ASSUME NEW r \in RanIds, LostContext(r)', NEW z \in Places, NEW i \in DOMAIN queues'[z],
                    Question(queues'[z][i], r)
             PROVE  FALSE
  BY DEF AskedHasContext, NotAsked, Question
<1>1. NotAsked(queues, r)
  BY DEF AskedHasContext
<1>2. \/ \E j \in DOMAIN queues[z] : queues'[z][i] = queues[z][j]
      \/ \E k \in DOMAIN ms : queues'[z][i] = ms[k]
  BY Origin
<1>3. d = 1 => 1 \in DOMAIN queues[x] /\ x \in Places
  BY DEF Flow
<1>4. QED
  BY <1>1, <1>2, <1>3 DEF NotAsked

\* The release of the old connection s stays ahead of the reply on r.
LEMMA ComingKept ==
  ASSUME NEW d, NEW x, NEW y, NEW ms, Flow(queues, queues', d, x, y, ms), NEW s, NEW r, Coming(s, r),
         y = 4 => \A k \in DOMAIN ms : Reply(ms[k], r) => x = 1 /\ d = 1 /\ Reply(n2_queue[1], r),
         d = 1 /\ x = 1 /\ Command(n2_queue[1], s) => y = 4 /\ ms = <<n2_queue[1]>>,
         d = 1 /\ x = 4 => ~Command(sctp[1], s)
  PROVE  Coming(s, r)'
<1> PICK e, f, new, put :
      /\ e = IF x = 1 THEN d ELSE 0
      /\ f = IF x = 4 THEN d ELSE 0
      /\ new = IF y = 1 THEN {ms[k] : k \in DOMAIN ms} ELSE {}
      /\ put = IF y = 4 THEN {ms[k] : k \in DOMAIN ms} ELSE {}
  OBVIOUS
<1>1. Shift(n2_queue, n2_queue', e, new) /\ Shift(sctp, sctp', f, put)
  <2>1. 1 \in Places /\ 4 \in Places
    BY DEF Places
  <2>2. e = (IF 1 = x THEN d ELSE 0) /\ new = (IF 1 = y THEN {ms[k] : k \in DOMAIN ms} ELSE {})
    OBVIOUS
  <2>3. f = (IF 4 = x THEN d ELSE 0) /\ put = (IF 4 = y THEN {ms[k] : k \in DOMAIN ms} ELSE {})
    OBVIOUS
  <2>4. Flow(queues, queues', d, x, y, ms)
    OBVIOUS
  <2>5. Shift(queues[1], queues'[1], e, new)
    BY ONLY <2>1, <2>2, <2>4, ShiftOf
  <2>6. Shift(queues[4], queues'[4], f, put)
    BY <2>1, <2>3, ShiftOf, SMTT(30)
  <2>7. QED
    BY <2>5, <2>6, QueuesAre
<1>2. d \in {0, 1} /\ e \in {0, 1} /\ f \in {0, 1}
  BY DEF Flow
<1>3. CASE Ahead(sctp, s, r)
  <2>1. PICK i \in DOMAIN sctp : Command(sctp[i], s) /\ \A j \in DOMAIN sctp : Reply(sctp[j], r) => i < j
    BY <1>3 DEF Ahead
  <2>2. i \in Nat \ {0} /\ ~(f = 1 /\ i = 1)
    BY <1>1, <2>1 DEF Shift
  <2>3. i > f
    BY <1>2, <2>2
  <2>4. i - f \in DOMAIN sctp' /\ sctp'[i - f] = sctp[i]
    BY <1>1, <2>3 DEF Shift
  <2>5. ASSUME NEW j \in DOMAIN sctp', Reply(sctp'[j], r) PROVE i - f < j
    <3>1. CASE \A k \in DOMAIN sctp : k - f < j
      BY <3>1
    <3>2. CASE j + f \in DOMAIN sctp /\ sctp'[j] = sctp[j + f]
      <4>1. i < j + f
        BY <2>1, <2>5, <3>2
      <4>2. j \in Nat
        BY <1>1 DEF Shift
      <4>3. QED
        BY <1>2, <2>2, <4>1, <4>2
    <3>3. QED
      BY <1>1, <3>1, <3>2 DEF Shift
  <2>6. Ahead(sctp', s, r)
    BY <2>1, <2>4, <2>5 DEF Ahead
  <2>7. QED
    BY <2>6 DEF Coming, Ahead, Command, Reply
<1>4. CASE Ahead(n2_queue, s, r) /\ \A j \in DOMAIN sctp : ~Reply(sctp[j], r)
  <2>1. PICK i \in DOMAIN n2_queue :
          Command(n2_queue[i], s) /\ \A j \in DOMAIN n2_queue : Reply(n2_queue[j], r) => i < j
    BY <1>4 DEF Ahead
  <2>2. i \in Nat \ {0} /\ (1 \in DOMAIN n2_queue => ~Reply(n2_queue[1], r))
    BY <1>1, <2>1 DEF Shift
  <2>3. \A j \in DOMAIN sctp' : ~Reply(sctp'[j], r)
    <3> SUFFICES ASSUME NEW j \in DOMAIN sctp', Reply(sctp'[j], r) PROVE FALSE
      OBVIOUS
    <3>1. sctp'[j] \in put
      BY <1>1, <1>4 DEF Shift
    <3>2. y = 4 /\ \E k \in DOMAIN ms : sctp'[j] = ms[k]
      BY <3>1
    <3>3. x = 1 /\ d = 1 /\ Reply(n2_queue[1], r)
      BY <3>2
    <3>4. 1 \in DOMAIN n2_queue
      BY <1>1, <3>3 DEF Shift
    <3>5. QED
      BY <2>2, <3>3, <3>4
  <2>4. CASE e = 1 /\ i = 1
    <3>1. y = 4 /\ ms = <<n2_queue[1]>>
      BY <2>1, <2>4
    <3>2. put = {n2_queue[1]}
      BY <3>1
    <3>3. PICK k \in DOMAIN sctp' : sctp'[k] = n2_queue[1]
      BY <1>1, <3>2 DEF Shift
    <3>4. Ahead(sctp', s, r)
      BY <2>1, <2>3, <2>4, <3>3 DEF Ahead
    <3>5. QED
      BY <3>4 DEF Coming, Ahead, Command, Reply
  <2>5. CASE ~(e = 1 /\ i = 1)
    <3>1. i > e
      BY <1>2, <2>2, <2>5
    <3>2. i - e \in DOMAIN n2_queue' /\ n2_queue'[i - e] = n2_queue[i]
      BY <1>1, <3>1 DEF Shift
    <3>3. ASSUME NEW j \in DOMAIN n2_queue', Reply(n2_queue'[j], r) PROVE i - e < j
      <4>1. CASE \A k \in DOMAIN n2_queue : k - e < j
        BY <4>1
      <4>2. CASE j + e \in DOMAIN n2_queue /\ n2_queue'[j] = n2_queue[j + e]
        <5>1. i < j + e
          BY <2>1, <3>3, <4>2
        <5>2. j \in Nat
          BY <1>1 DEF Shift
        <5>3. QED
          BY <1>2, <2>2, <5>1, <5>2
      <4>3. QED
        BY <1>1, <4>1, <4>2 DEF Shift
    <3>4. Ahead(n2_queue', s, r)
      BY <2>1, <3>2, <3>3 DEF Ahead
    <3>5. QED
      BY <2>3, <3>4 DEF Coming, Ahead, Command, Reply
  <2>6. QED
    BY <2>4, <2>5
<1>5. QED
  BY <1>3, <1>4 DEF Coming

\* The release of the old connection s, which the UE u has come from to r.
LEMMA OldStays ==
  ASSUME NEW d, NEW x, NEW y, NEW ms, Flow(queues, queues', d, x, y, ms), NEW u, NEW s, NEW r,
         gnb[s] = Free \/ (request[u].waits /\ Coming(s, r)), gnb[s] = Free => gnb'[s] = Free,
         y = 4 => \A k \in DOMAIN ms : Reply(ms[k], r) => x = 1 /\ d = 1 /\ Reply(n2_queue[1], r),
         d = 1 /\ x = 1 /\ Command(n2_queue[1], s) =>
            (y = 4 /\ ms = <<n2_queue[1]>>) \/ gnb'[s] = Free,
         d = 1 /\ x = 4 /\ Command(sctp[1], s) => gnb'[s] = Free,
         request[u].waits => request'[u].waits \/ (d = 1 /\ x = 4 /\ Reply(sctp[1], r))
  PROVE  gnb'[s] = Free \/ (request'[u].waits /\ Coming(s, r)')
<1> SUFFICES ASSUME gnb'[s] # Free PROVE request'[u].waits /\ Coming(s, r)'
  OBVIOUS
<1>1. request[u].waits /\ Coming(s, r)
  OBVIOUS
<1>2. Coming(s, r)'
  BY <1>1, ComingKept
<1>3. ASSUME d = 1, x = 4, Reply(sctp[1], r) PROVE FALSE
  <2>1. 1 \in DOMAIN sctp /\ QueueOf(sctp)
    <3>1. 4 \in Places
      BY DEF Places
    <3>2. 1 \in DOMAIN queues[4] /\ QueueOf(queues[4])
      BY <1>3, <3>1 DEF Flow
    <3>3. QED
      BY <3>2, QueuesAre
  <2>2. Ahead(sctp, s, r)
    BY <1>1, <1>3, <2>1 DEF Coming
  <2>3. PICK i \in DOMAIN sctp : i < 1
    BY <1>3, <2>1, <2>2 DEF Ahead
  <2>4. QED
    BY <2>1, <2>3 DEF QueueOf
<1>4. QED
  BY <1>1, <1>2, <1>3

-----------------------------------------------------------------------------
(* The invariant.                                                           *)

\* What the SMF has for a UE is none of its talk.
PlainTransfers == \A i \in DOMAIN app_queue : app_queue[i].type = "transfer" =>
    app_queue[i].what \notin Talks /\ app_queue[i].tmsi = None

Held == Inv /\ PlainTransfers /\ OneLink /\ Talk /\ Later /\ End /\ OldIds /\ OldIsReleased

\* A message that is no request, question, answer or reply.
Plain(m) == m.what \notin Talks /\ m.tmsi = None

\* One that goes on with what h was of.
Follows(m, h) ==
    /\ \A r \in RanIds : Token(m, r) => Token(h, r)
    /\ \/ m.what = h.what
       \/ h.what # "deregister" /\ m.what \notin Requests \cup {"deregister", "identify", "identity"}

\* Most messages that a step puts.
Regular(d, x, y, ms) == \A k \in DOMAIN ms :
    /\ ms[k].type \notin {"initial", "reset"}
    /\ ms[k].ran # None => Taken(ms[k].ran)
    /\ \/ Plain(ms[k])
       \/ /\ d = 1 /\ DOMAIN ms = {1} /\ Follows(ms[1], queues[x][1])
          /\ y = 4 => x = 1 /\ ms[1] = queues[x][1]

\* Most that it takes: no release command is lost before the connection.
Ordinary(d, x, y, ms) == d = 1 =>
    /\ queues[x][1].type \notin {"initial", "reset", "release complete"}
    /\ x \in {1, 4} => \A s \in Ids : Command(queues[x][1], s) =>
          (x = 1 /\ y = 4 /\ ms = <<queues[x][1]>>) \/ gnb[s] = Free

\* Nothing is opened, ended, forgotten or followed in such a step.
Calm(d, x, y, ms) ==
    /\ Flow(queues, queues', d, x, y, ms) /\ Regular(d, x, y, ms) /\ Ordinary(d, x, y, ms)
    /\ UNCHANGED <<gnb, guti, opened, generated, supi2Id, amfueid2nas_context>>
    /\ \A u \in UEs : rrc'[u] = None \/ (rrc'[u] = rrc[u] /\ request'[u] = request[u])
    /\ \A r \in RanIds : ranid2uecontext'[r].known = ranid2uecontext[r].known
    /\ \A c \in Contexts : /\ nas'[c].ran = nas[c].ran
                           /\ nas'[c].oldRan = nas[c].oldRan /\ nas'[c].oldAmf = nas[c].oldAmf
    /\ KnownByBoth' /\ PlainTransfers'

\* Connections that are lost leave the others to their UEs.
LEMMA LinksKept ==
  ASSUME Types, OneLink, UNCHANGED opened, \A u \in UEs : rrc'[u] \in {None, rrc[u]}
  PROVE  OneLink'
<1>1. opened \in Nat
  BY IdsAreAmfIds
<1>2. \A u \in UEs : rrc'[u] \in 0..opened
  BY <1>1 DEF OneLink, None
<1>3. QED
  BY <1>2 DEF OneLink, None

\* Where the messages of queues are numbered.
LEMMA QueueNumbers ==
  ASSUME Types
  PROVE  /\ \A z \in Places : \A i \in DOMAIN queues[z] : queues[z][i].ran \in Nat
         /\ \A r \in RanIds : r \in Nat /\ r # None
         /\ generated \in Nat
<1>1. \A r \in RanIds \cup {None} : r \in Nat
  BY DEF RanIds, AmfIds, None
<1>2. /\ \A i \in DOMAIN n2_queue : n2_queue[i].ran \in RanIds \cup {None}
      /\ \A i \in DOMAIN app_queue : app_queue[i].ran \in RanIds \cup {None}
      /\ \A i \in DOMAIN n1_queue : n1_queue[i].ran \in RanIds \cup {None}
      /\ \A i \in DOMAIN sctp : sctp[i].ran \in RanIds \cup {None}
  <2>1. \A i \in DOMAIN n2_queue : n2_queue[i] \in N2Messages
    BY DEF Types, QueueTypes
  <2>2. \A i \in DOMAIN app_queue : app_queue[i] \in AppMessages
    BY DEF Types, QueueTypes
  <2>3. \A i \in DOMAIN n1_queue : n1_queue[i] \in N1Messages
    BY DEF Types, QueueTypes
  <2>4. \A i \in DOMAIN sctp : sctp[i] \in SctpMessages
    BY DEF Types, QueueTypes
  <2>5. QED
    BY <2>1, <2>2, <2>3, <2>4 DEF N2Messages, AppMessages, N1Messages, SctpMessages, MessagesOf
<1>3. ASSUME NEW z \in Places, NEW i \in DOMAIN queues[z] PROVE queues[z][i].ran \in Nat
  BY <1>1, <1>2, QueuesAre
<1>4. QED
  BY <1>1, <1>3, IdsAreAmfIds

\* The talks, from what is there after a step.
LEMMA TalkOf ==
  ASSUME Types', One(queues'),
         \A u \in UEs : \A z \in Places : \A i \in DOMAIN queues'[z], what \in Whats :
            rrc'[u] # None /\ Token(queues'[z][i], rrc'[u]) /\ queues'[z][i].what = what =>
            Expects(u, what)'
  PROVE  Talk'
<1>1. \A z \in Places : \A i \in DOMAIN queues'[z] : queues'[z][i].what \in Whats
  <2>1. /\ \A i \in DOMAIN n2_queue' : n2_queue'[i].what \in Whats
        /\ \A i \in DOMAIN app_queue' : app_queue'[i].what \in Whats
        /\ \A i \in DOMAIN n1_queue' : n1_queue'[i].what \in Whats
        /\ \A i \in DOMAIN sctp' : sctp'[i].what \in Whats
    <3>1. \A i \in DOMAIN n2_queue' : n2_queue'[i] \in N2Messages
      BY DEF Types, QueueTypes
    <3>2. \A i \in DOMAIN app_queue' : app_queue'[i] \in AppMessages
      BY DEF Types, QueueTypes
    <3>3. \A i \in DOMAIN n1_queue' : n1_queue'[i] \in N1Messages
      BY DEF Types, QueueTypes
    <3>4. \A i \in DOMAIN sctp' : sctp'[i] \in SctpMessages
      BY DEF Types, QueueTypes
    <3>5. QED
      BY <3>1, <3>2, <3>3, <3>4 DEF N2Messages, AppMessages, N1Messages, SctpMessages, MessagesOf
  <2>2. QED
    BY <2>1, QueuesAre
<1>2. ASSUME NEW u \in UEs, NEW z \in Places, NEW i \in DOMAIN queues'[z],
             rrc'[u] # None, Token(queues'[z][i], rrc'[u])
      PROVE  Expects(u, queues[z][i].what)'
  <2>1. PICK what \in Whats : queues'[z][i].what = what
    BY <1>1
  <2>2. Expects(u, what)'
    BY <1>2, <2>1
  <2>3. QED
    BY <2>1, <2>2 DEF Expects
<1>3. Expected(queues)'
  BY <1>2 DEF Expected, ExpectedFor, Token, None
<1>4. One(queues)'
  BY DEF One, Token
<1>5. QED
  BY <1>3, <1>4 DEF Talk

\* The talks go on.
LEMMA CalmTalk ==
  ASSUME Held, Types', NEW d, NEW x, NEW y, NEW ms, Calm(d, x, y, ms)
  PROVE  Talk'
<1>1. Flow(queues, queues', d, x, y, ms) /\ Regular(d, x, y, ms)
  BY DEF Calm
<1>2. \A r \in RanIds : r # None
  BY QueueNumbers DEF Held, Inv
<1>3. OneMore(queues, d, x, ms)
  <2> SUFFICES ASSUME NEW r \in RanIds, NEW k \in DOMAIN ms, Token(ms[k], r)
               PROVE  /\ \A l \in DOMAIN ms : Token(ms[l], r) => l = k
                      /\ d = 1 /\ Token(queues[x][1], r)
    BY DEF OneMore
  <2>1. ~Plain(ms[k])
    BY DEF Plain, Token
  <2>2. d = 1 /\ DOMAIN ms = {1} /\ Follows(ms[1], queues[x][1])
    BY <1>1, <2>1 DEF Regular
  <2>3. QED
    BY <2>2 DEF Follows
<1>4. One(queues')
  BY <1>1, <1>3, OneKept DEF Held, Talk
<1>5. ASSUME NEW u \in UEs
      PROVE  \A z \in Places : \A i \in DOMAIN queues'[z], what \in Whats :
                rrc'[u] # None /\ Token(queues'[z][i], rrc'[u]) /\ queues'[z][i].what = what =>
                Expects(u, what)'
  <2>1. CASE rrc'[u] = None
    BY <2>1
  <2>2. CASE rrc'[u] = rrc[u] /\ request'[u] = request[u] /\ rrc[u] # None
    <3>1. guti' = guti
      BY DEF Calm
    <3>2. \A what \in Whats : Expects(u, what) => Expects(u, what)'
      BY <2>2, <3>1 DEF Expects
    <3>3. ASSUME NEW k \in DOMAIN ms, Token(ms[k], rrc[u]), NEW what \in Whats, ms[k].what = what
          PROVE  Expects(u, what)'
      <4>1. rrc[u] \in RanIds
        BY <2>2 DEF Held, Inv, Types, RadioTypes
      <4>2. ~Plain(ms[k])
        BY <3>3, <4>1 DEF Plain, Token
      <4>3. d = 1 /\ k = 1 /\ Follows(ms[1], queues[x][1])
        BY <1>1, <4>2 DEF Regular
      <4>4. Token(queues[x][1], rrc[u]) /\ x \in Places /\ 1 \in DOMAIN queues[x]
        BY <1>1, <3>3, <4>1, <4>3 DEF Follows, Flow
      <4>5. Expects(u, queues[x][1].what)
        BY <2>2, <4>4 DEF Held, Talk, Expected, ExpectedFor
      <4>6. Expects(u, what)
        <5>1. CASE ms[1].what = queues[x][1].what
          BY <3>3, <4>3, <4>5, <5>1
        <5>2. CASE queues[x][1].what # "deregister" /\ ms[1].what \notin Requests \cup {"deregister"}
          BY <3>3, <4>3, <4>5, <5>2 DEF Expects
        <5>3. QED
          BY <4>3, <5>1, <5>2 DEF Follows
      <4>7. QED
        BY <3>2, <4>6
    <3>4. ExpectsStill(u, queues, d, x, ms)
      BY <2>2, <3>2, <3>3 DEF ExpectsStill
    <3>5. ExpectedFor(queues, u)
      BY DEF Held, Talk, Expected
    <3>6. QED
      BY <1>1, <3>4, <3>5, ExpectedKept
  <2>3. QED
    BY <2>1, <2>2 DEF Calm
<1>6. QED
  BY <1>4, <1>5, TalkOf

\* N1 takes the first messages of no connection in such a step.
LEMMA CalmTaken ==
  ASSUME Held, NEW d, NEW x, NEW y, NEW ms, Calm(d, x, y, ms)
  PROVE  /\ \A r \in Nat : Taken(r) => Taken(r)'
         /\ \A r \in RanIds : Taken(r)' => Taken(r)
<1>1. Flow(queues, queues', d, x, y, ms) /\ Regular(d, x, y, ms) /\ Ordinary(d, x, y, ms) /\ UNCHANGED generated
  BY DEF Calm
<1>2. generated \in Nat
  BY QueueNumbers DEF Held, Inv
<1>3. \A k \in DOMAIN ms : ms[k].type # "initial"
  BY <1>1 DEF Regular
<1>4. \A r \in Nat : Taken(r) => Taken(r)'
  <2> SUFFICES ASSUME NEW r \in Nat, Taken(r) PROVE Taken(r)'
    OBVIOUS
  <2>1. generated' \in Nat /\ generated' >= generated
    BY <1>1, <1>2
  <2>2. QED
    BY <1>1, <1>2, <1>3, <2>1, TakenKept
<1>5. ASSUME NEW r \in RanIds, Taken(r)' PROVE Taken(r)
  <2> SUFFICES ASSUME NEW i \in DOMAIN n1_queue, n1_queue[i].type = "initial", n1_queue[i].ran = r
               PROVE  FALSE
    BY <1>1, <1>5 DEF Taken
  <2>1. PICK e : e = IF 3 = x THEN d ELSE 0
    OBVIOUS
  <2>2. PICK new : new = IF 3 = y THEN {ms[k] : k \in DOMAIN ms} ELSE {}
    OBVIOUS
  <2>3. 3 \in Places
    BY DEF Places
  <2>4. Shift(queues[3], queues'[3], e, new)
    <3>1. Flow(queues, queues', d, x, y, ms)
      BY <1>1
    <3>2. QED
      BY ONLY <2>1, <2>2, <2>3, <3>1, ShiftOf
  <2>5. Shift(n1_queue, n1_queue', e, new)
    BY <2>4, QueuesAre
  <2>6. ASSUME e = 1, i = 1 PROVE FALSE
    <3>1. d = 1 /\ x = 3
      BY <2>1, <2>6
    <3>2. queues[x][1] = n1_queue[1]
      BY <3>1, QueuesAre
    <3>3. QED
      BY <1>1, <2>6, <3>1, <3>2 DEF Ordinary
  <2>7. i \in Nat \ {0} /\ e \in {0, 1}
    BY <2>5 DEF Shift
  <2>8. i > e
    BY <2>6, <2>7
  <2>9. i - e \in DOMAIN n1_queue' /\ n1_queue'[i - e] = n1_queue[i]
    BY <2>5, <2>8 DEF Shift
  <2>10. QED
    BY <1>5, <2>9 DEF Taken
<1>6. QED
  BY <1>4, <1>5

\* What comes later comes later.
LEMMA CalmLater ==
  ASSUME Held, Types', NEW d, NEW x, NEW y, NEW ms, Calm(d, x, y, ms)
  PROVE  Later'
<1>1. Flow(queues, queues', d, x, y, ms) /\ Regular(d, x, y, ms)
      /\ UNCHANGED <<gnb, supi2Id>> /\ \A c \in Contexts : nas'[c].ran = nas[c].ran
  BY DEF Calm
<1>2. Types /\ Later
  BY DEF Held, Inv
<1>3. \A r \in Nat : Taken(r) => Taken(r)'
  BY CalmTaken
<1>4. ASSUME NEW k \in DOMAIN ms, ms[k].type # "initial", ms[k].ran # None
      PROVE  Taken(ms[k].ran)'
  <2>1. Taken(ms[k].ran)
    BY <1>1, <1>4 DEF Regular
  <2>2. \/ \E j \in DOMAIN queues'[y] : queues'[y][j] = ms[k]
    BY <1>1 DEF Flow
  <2>3. y \in Places
    BY <1>1 DEF Flow
  <2>4. ms[k].ran \in Nat
    <3>1. (\A z \in Places : \A i \in DOMAIN queues[z] : queues[z][i].ran \in Nat)'
      BY <1>2, QueueNumbers, PTL
    <3>2. QED
      BY <2>2, <2>3, <3>1
  <2>5. QED
    BY <1>3, <2>1, <2>4
<1>5. \A z \in Places : \A i \in DOMAIN queues[z] : queues[z][i].ran \in Nat
  BY <1>2, QueueNumbers
<1>6. QED
  BY <1>1, <1>2, <1>3, <1>4, <1>5, LaterKept

\* Nothing ends.
LEMMA CalmEnd ==
  ASSUME Held, NEW d, NEW x, NEW y, NEW ms, Calm(d, x, y, ms)
  PROVE  End'
<1>1. /\ Flow(queues, queues', d, x, y, ms) /\ Regular(d, x, y, ms) /\ Ordinary(d, x, y, ms)
      /\ UNCHANGED <<gnb, amfueid2nas_context>>
      /\ \A r \in RanIds : ranid2uecontext'[r].known = ranid2uecontext[r].known
      /\ KnownByBoth'
  BY DEF Calm
<1>2. ResetFrees /\ FreeIsReset /\ ForgottenIsFree /\ EndIsTold /\ AskedHasContext
  BY DEF Held, End
<1>3. \A r \in RanIds : Taken(r)' <=> Taken(r)
  BY CalmTaken, QueueNumbers DEF Held, Inv
<1>4. PICK e : e = IF 1 = x THEN d ELSE 0
  OBVIOUS
<1>5. PICK new : new = IF 1 = y THEN {ms[k] : k \in DOMAIN ms} ELSE {}
  OBVIOUS
<1>6. Shift(n2_queue, n2_queue', e, new)
  <2>1. 1 \in Places
    BY DEF Places
  <2>2. Flow(queues, queues', d, x, y, ms)
    BY <1>1
  <2>3. Shift(queues[1], queues'[1], e, new)
    BY ONLY <1>4, <1>5, <2>1, <2>2, ShiftOf
  <2>4. QED
    BY <2>3, QueuesAre
<1>7. \A m \in new : m.type \notin {"initial", "reset"}
  BY <1>1, <1>5 DEF Regular
<1>8. e = 1 => n2_queue[1].type \notin {"initial", "reset", "release complete"}
  <2> SUFFICES ASSUME e = 1 PROVE n2_queue[1].type \notin {"initial", "reset", "release complete"}
    OBVIOUS
  <2>1. d = 1 /\ x = 1
    BY <1>4
  <2>2. queues[x][1] = n2_queue[1]
    BY <2>1, QueuesAre
  <2>3. QED
    BY <1>1, <2>1, <2>2 DEF Ordinary
<1>9. ResetFrees'
  BY <1>1, <1>2, <1>6, <1>7, ResetFreesKept
<1>10. FreeIsReset'
  BY <1>1, <1>2, <1>6, <1>7, FreeIsResetKept
<1>11. ForgottenIsFree'
  <2>1. \A r \in RanIds : e = 1 /\ First(n2_queue[1], r) => ranid2uecontext'[r].known
    BY <1>8 DEF First
  <2>2. QED
    BY <1>1, <1>2, <1>6, <2>1, ForgottenIsFreeKept
<1>12. EndIsTold'
  BY <1>1, <1>2, <1>3, <1>6, <1>8, EndIsToldKept
<1>13. AskedHasContext'
  <2>1. \A r \in RanIds : LostContext(r)' => LostContext(r)
    BY <1>1, <1>3 DEF LostContext, None
  <2>2. \A r \in RanIds : \A k \in DOMAIN ms : Question(ms[k], r) => d = 1 /\ Question(queues[x][1], r)
    <3> SUFFICES ASSUME NEW r \in RanIds, NEW k \in DOMAIN ms, Question(ms[k], r)
                 PROVE  d = 1 /\ Question(queues[x][1], r)
      OBVIOUS
    <3>1. ms[k].what \in {"identify", "identity"} /\ ms[k].ran = r
      BY DEF Question
    <3>2. ~Plain(ms[k]) /\ Token(ms[k], r)
      BY <3>1 DEF Plain, Talks, Token
    <3>3. d = 1 /\ k = 1 /\ Follows(ms[1], queues[x][1])
      BY <1>1, <3>2 DEF Regular
    <3>4. queues[x][1].what = ms[1].what /\ queues[x][1].ran = r
      BY <3>1, <3>2, <3>3 DEF Follows, Token
    <3>5. QED
      BY <3>1, <3>3, <3>4 DEF Question
  <2>3. QED
    BY <1>1, <1>2, <2>1, <2>2, AskedKept
<1>14. QED
  BY <1>1, <1>9, <1>10, <1>11, <1>12, <1>13 DEF End

\* No connection is followed.
LEMMA CalmOld ==
  ASSUME Held, Types', NEW d, NEW x, NEW y, NEW ms, Calm(d, x, y, ms)
  PROVE  OldIds' /\ OldIsReleased'
<1>1. /\ Flow(queues, queues', d, x, y, ms) /\ Regular(d, x, y, ms) /\ Ordinary(d, x, y, ms)
      /\ UNCHANGED <<gnb, generated>>
      /\ \A u \in UEs : rrc'[u] = None \/ (rrc'[u] = rrc[u] /\ request'[u] = request[u])
      /\ \A c \in Contexts : /\ nas'[c].ran = nas[c].ran
                             /\ nas'[c].oldRan = nas[c].oldRan /\ nas'[c].oldAmf = nas[c].oldAmf
  BY DEF Calm
<1>2. OldIds'
  BY <1>1 DEF Held, OldIds, Ids
<1>3. ASSUME NEW u \in UEs, NEW c \in Contexts, rrc'[u] # None, request'[u].kind = "service",
             nas'[c].ran = rrc'[u], nas'[c].oldAmf # None
      PROVE  gnb'[nas'[c].oldAmf] = Free \/ (request'[u].waits /\ Coming(nas[c].oldAmf, rrc[u])')
  <2>1. PICK s, r : s = nas[c].oldAmf /\ r = rrc[u]
    OBVIOUS
  <2>2. rrc'[u] = r /\ request'[u] = request[u] /\ nas'[c].oldAmf = s /\ r # None
    BY <1>1, <1>3, <2>1
  <2>3. gnb[s] = Free \/ (request[u].waits /\ Coming(s, r))
    BY <1>1, <1>3, <2>1, <2>2 DEF Held, OldIsReleased
  <2>4. s \in Ids
    BY <1>3, <2>1, <2>2 DEF Held, OldIds
  <2>5. r \in RanIds
    BY <2>1, <2>2 DEF Held, Inv, Types, RadioTypes
  <2>6. y = 4 => \A k \in DOMAIN ms : Reply(ms[k], r) => x = 1 /\ d = 1 /\ Reply(n2_queue[1], r)
    <3> SUFFICES ASSUME y = 4, NEW k \in DOMAIN ms, Reply(ms[k], r)
                 PROVE  x = 1 /\ d = 1 /\ Reply(n2_queue[1], r)
      OBVIOUS
    <3>1. ~Plain(ms[k])
      BY DEF Plain, Reply, Talks
    <3>2. d = 1 /\ k = 1 /\ x = 1 /\ ms[1] = queues[x][1]
      BY <1>1, <3>1 DEF Regular
    <3>3. QED
      BY <3>2, QueuesAre
  <2>7. d = 1 /\ x = 1 /\ Command(n2_queue[1], s) => (y = 4 /\ ms = <<n2_queue[1]>>) \/ gnb'[s] = Free
    BY <1>1, <2>4, QueuesAre DEF Ordinary
  <2>8. ASSUME d = 1, x = 4, Command(sctp[1], s) PROVE gnb'[s] = Free
    <3>1. queues[x][1] = sctp[1]
      BY <2>8, QueuesAre
    <3>2. gnb[s] = Free
      <4>1. \A t \in Ids : Command(queues[x][1], t) =>
              (x = 1 /\ y = 4 /\ ms = <<queues[x][1]>>) \/ gnb[t] = Free
        BY <1>1, <2>8 DEF Ordinary
      <4>2. Command(queues[x][1], s) /\ x # 1
        BY <2>8, <3>1
      <4>3. QED
        BY <2>4, <4>1, <4>2
    <3>3. QED
      BY <1>1, <3>2
  <2>9. gnb'[s] = Free \/ (request'[u].waits /\ Coming(s, r)')
    BY <1>1, <2>2, <2>3, <2>6, <2>7, <2>8, OldStays
  <2>10. QED
    BY <2>2, <2>9 DEF Coming, Ahead, Command, Reply
<1>4. OldIsReleased'
  BY <1>3 DEF OldIsReleased, None, Free
<1>5. QED
  BY <1>2, <1>4

\* All together.
LEMMA CalmKeeps ==
  ASSUME Held, Inv', NEW d, NEW x, NEW y, NEW ms, Calm(d, x, y, ms)
  PROVE  Held'
<1>1. Types'
  BY DEF Inv
<1>2. PlainTransfers'
  BY DEF Calm
<1>3. OneLink'
  BY LinksKept DEF Calm, Held, Inv
<1>4. QED
  BY <1>1, <1>2, <1>3, CalmTalk, CalmLater, CalmEnd, CalmOld DEF Held

-----------------------------------------------------------------------------
(* Steps that are calm.                                                     *)

\* What is at the head of a queue.
LEMMA HeadIs ==
  ASSUME Types, NEW x \in Places, queues[x] # <<>>
  PROVE  1 \in DOMAIN queues[x] /\ Head(queues[x]) = queues[x][1]
<1>1. PICK S : queues[x] \in Seq(S)
  BY QueueTypesOf
<1>2. QED
  BY <1>1

\* A message is taken from one queue or none, and another gets one, two or none.
LEMMA Flows ==
  ASSUME Types, NEW d \in {0, 1}, NEW x \in Places, NEW y \in Places, NEW ms, x # y,
         d = 0 => queues'[x] = queues[x], d = 1 => queues[x] # <<>> /\ queues'[x] = Tail(queues[x]),
         \/ ms = <<>> /\ queues'[y] = queues[y]
         \/ \E m : ms = <<m>> /\ queues'[y] = Append(queues[y], m)
         \/ (\E m : ms = <<m>> \/ \E n : ms = <<m, n>>) /\ queues'[y] = queues[y] \o ms,
         \A z \in Places : z \notin {x, y} => queues'[z] = queues[z]
  PROVE  Flow(queues, queues', d, x, y, ms)
<1>1. \A z \in Places : \E S : queues[z] \in Seq(S)
  BY QueueTypesOf
<1>2. PICK Q, R : Q = queues /\ R = queues'
  OBVIOUS
<1>3. Flow(Q, R, d, x, y, ms)
  <2>1. \A z \in Places : \E S : Q[z] \in Seq(S)
    BY <1>1, <1>2
  <2>2. /\ d = 0 => R[x] = Q[x]
        /\ d = 1 => Q[x] # <<>> /\ R[x] = Tail(Q[x])
        /\ \/ ms = <<>> /\ R[y] = Q[y]
           \/ \E m : ms = <<m>> /\ R[y] = Append(Q[y], m)
           \/ (\E m : ms = <<m>> \/ \E n : ms = <<m, n>>) /\ R[y] = Q[y] \o ms
        /\ \A z \in Places : z \notin {x, y} => R[z] = Q[z]
    BY <1>2
  <2>3. d \in {0, 1} /\ x \in Places /\ y \in Places /\ x # y
    OBVIOUS
  <2>4. QED
    BY ONLY <2>1, <2>2, <2>3, FlowOf
<1>4. QED
  BY <1>2, <1>3

\* A message that is no first one and of a connection comes after N1 took the first.
LEMMA HeadTaken ==
  ASSUME Held, NEW x \in Places, 1 \in DOMAIN queues[x],
         queues[x][1].type # "initial", queues[x][1].ran # None
  PROVE  Taken(queues[x][1].ran)
BY DEF Held, Later, LaterIn

\* What waits for APP stays plain.
LEMMA PlainKept ==
  ASSUME PlainTransfers, NEW d, NEW x, NEW y, NEW ms, Flow(queues, queues', d, x, y, ms),
         y = 2 => \A k \in DOMAIN ms : ms[k].type = "transfer" => Plain(ms[k])
  PROVE  PlainTransfers'
<1>1. \A i \in DOMAIN app_queue' :
        \/ \E j \in DOMAIN app_queue : app_queue'[i] = app_queue[j]
        \/ y = 2 /\ \E k \in DOMAIN ms : app_queue'[i] = ms[k]
  <2>1. 2 \in Places
    BY DEF Places
  <2>2. QED
    BY <2>1, Origin, QueuesAre
<1>2. QED
  BY <1>1 DEF PlainTransfers, Plain, None

\* N2's tables as they are.
LEMMA KnownKept ==
  ASSUME Held, UNCHANGED <<n2, generated>>
  PROVE  /\ \A r \in RanIds : ranid2uecontext'[r].known = ranid2uecontext[r].known
         /\ KnownByBoth'
<1>1. UNCHANGED <<ranid2uecontext, amfueid2uecontext>>
  BY DEF n2
<1>2. QED
  BY <1>1 DEF Held, End, KnownByBoth

\* A calm step, when N2's tables are left alone.
LEMMA CalmIf ==
  ASSUME Held, Inv', NEW d, NEW x, NEW y, NEW ms, Flow(queues, queues', d, x, y, ms),
         Regular(d, x, y, ms), Ordinary(d, x, y, ms),
         y = 2 => \A k \in DOMAIN ms : Plain(ms[k]),
         UNCHANGED <<n2, gnb, guti, opened, generated, supi2Id, amfueid2nas_context>>,
         \A u \in UEs : rrc'[u] = None \/ (rrc'[u] = rrc[u] /\ request'[u] = request[u]),
         \A c \in Contexts : /\ nas'[c].ran = nas[c].ran
                             /\ nas'[c].oldRan = nas[c].oldRan /\ nas'[c].oldAmf = nas[c].oldAmf
  PROVE  Held'
<1>1. KnownByBoth' /\ \A r \in RanIds : ranid2uecontext'[r].known = ranid2uecontext[r].known
  BY KnownKept
<1>2. PlainTransfers'
  BY PlainKept DEF Held
<1>3. Calm(d, x, y, ms)
  BY <1>1, <1>2 DEF Calm
<1>4. QED
  BY <1>3, CalmKeeps

\* N2 passes a message on, or what it says.
LEMMA N2Passes ==
  ASSUME Held, Inv', NEW m, m = Head(n2_queue), n2_queue # <<>>, n2_queue' = Tail(n2_queue),
         m.type \notin {"initial", "reset", "release complete"},
         NEW y \in {3, 4}, NEW w \in {3, 4}, w # y, NEW ms, queues'[w] = queues[w],
         \/ ms = <<>> /\ queues'[y] = queues[y]
         \/ ms = <<m>> /\ queues'[y] = Append(queues[y], m)
         \/ \E k : /\ ms = <<k>> /\ queues'[y] = Append(queues[y], k)
                   /\ k.type = "release command" /\ k.ran = m.ran /\ Plain(k),
         \A s \in Ids : Command(m, s) => (y = 4 /\ ms = <<m>>) \/ gnb[s] = Free,
         UNCHANGED <<app_queue, app, n1, radio>>, KnownByBoth',
         \A r \in RanIds : ranid2uecontext'[r].known = ranid2uecontext[r].known
  PROVE  Held'
<1>1. Types
  BY DEF Held, Inv
<1>2. 1 \in Places /\ y \in Places /\ 1 # y /\ queues[1] = n2_queue /\ queues'[1] = n2_queue'
  <2>1. y \in {3, 4}
    OBVIOUS
  <2>2. 1 \in Places /\ y \in Places /\ 1 # y
    BY ONLY <2>1 DEF Places
  <2>3. QED
    BY ONLY <2>2, QueuesAre
<1>3. 1 \in DOMAIN queues[1] /\ queues[1][1] = m
  BY <1>1, <1>2, HeadIs
<1>4. \A z \in Places : z \notin {1, y} => queues'[z] = queues[z]
  BY QueuesAre
<1>5. Flow(queues, queues', 1, 1, y, ms)
  <2>1. queues[1] # <<>> /\ queues'[1] = Tail(queues[1])
    BY <1>2
  <2>2. \/ ms = <<>> /\ queues'[y] = queues[y]
        \/ \E k : ms = <<k>> /\ queues'[y] = Append(queues[y], k)
    OBVIOUS
  <2>3. QED
    BY <1>1, <1>2, <1>4, <2>1, <2>2, Flows
<1>6. m.ran # None => Taken(m.ran)
  BY <1>2, <1>3, HeadTaken
<1>7. Regular(1, 1, y, ms)
  <2>1. CASE ms = <<>>
    <3>1. DOMAIN ms = {}
      BY ONLY <2>1
    <3>2. QED
      BY ONLY <3>1 DEF Regular
  <2>2. CASE ms = <<m>>
    <3>1. Follows(m, m)
      BY DEF Follows
    <3>2. DOMAIN ms = {1} /\ ms[1] = m
      BY ONLY <2>2
    <3>3. m.type \notin {"initial", "reset"}
      OBVIOUS
    <3>4. QED
      BY ONLY <1>3, <1>6, <3>1, <3>2, <3>3 DEF Regular
  <2>3. CASE \E k : ms = <<k>> /\ k.type = "release command" /\ k.ran = m.ran /\ Plain(k)
    <3>1. PICK k : ms = <<k>> /\ k.type = "release command" /\ k.ran = m.ran /\ Plain(k)
      BY <2>3
    <3>2. DOMAIN ms = {1} /\ ms[1] = k
      <4>1. ms = <<k>>
        BY <3>1
      <4>2. QED
        BY ONLY <4>1
    <3>3. QED
      BY ONLY <1>6, <3>1, <3>2 DEF Regular
  <2>4. QED
    BY <2>1, <2>2, <2>3
<1>8. Ordinary(1, 1, y, ms)
  BY <1>3 DEF Ordinary
<1>9. UNCHANGED <<generated, supi2Id, amfueid2nas_context, nas, gnb, rrc, guti, request, opened>>
  BY DEF app, n1, radio
<1>10. PlainTransfers'
  BY DEF Held, PlainTransfers, None
<1>11. Calm(1, 1, y, ms)
  BY <1>5, <1>7, <1>8, <1>9, <1>10 DEF Calm
<1>12. QED
  BY <1>11, CalmKeeps

\* NAS messages go to N1.
LEMMA UplinkHeld ==
  ASSUME Held, Inv', ul_nas_transport
  PROVE  Held'
<1>1. PICK m : m = Head(n2_queue)
  OBVIOUS
<1>2. /\ n2_queue # <<>> /\ m.type = "uplink" /\ n2_queue' = Tail(n2_queue)
      /\ n1_queue' = IF ranid2uecontext[m.ran].known THEN Append(n1_queue, m) ELSE n1_queue
      /\ UNCHANGED <<app_queue, sctp, n2, app, n1, radio>>
  BY <1>1 DEF ul_nas_transport, N2Keeps, Takes
<1>3. PICK ms : ms = IF ranid2uecontext[m.ran].known THEN <<m>> ELSE <<>>
  OBVIOUS
<1>4. \A s \in Ids : ~Command(m, s)
  BY <1>2 DEF Command
<1>5. KnownByBoth' /\ \A r \in RanIds : ranid2uecontext'[r].known = ranid2uecontext[r].known
  BY <1>2, KnownKept DEF app
<1>6. queues'[4] = queues[4]
  BY <1>2, QueuesAre
<1>7. \/ ms = <<>> /\ queues'[3] = queues[3]
      \/ ms = <<m>> /\ queues'[3] = Append(queues[3], m)
      \/ \E k : /\ ms = <<k>> /\ queues'[3] = Append(queues[3], k)
                /\ k.type = "release command" /\ k.ran = m.ran /\ Plain(k)
  BY <1>2, <1>3, QueuesAre
<1>8. m.type \notin {"initial", "reset", "release complete"} /\ UNCHANGED <<app_queue, app, n1, radio>>
  BY <1>2
<1>9. \A s \in Ids : Command(m, s) => (3 = 4 /\ ms = <<m>>) \/ gnb[s] = Free
  BY <1>4
<1>10. Held /\ Inv' /\ n2_queue # <<>> /\ n2_queue' = Tail(n2_queue)
  BY <1>2
<1>11. 3 \in {3, 4} /\ 4 \in {3, 4} /\ 4 # 3
  OBVIOUS
<1>12. QED
  BY ONLY <1>1, <1>5, <1>6, <1>7, <1>8, <1>9, <1>10, <1>11, N2Passes

\* N2 sends a message to the gNB, or not; a release command it knows the connection of.
LEMMA N2Sends ==
  ASSUME Held, Inv', NEW m, m = Head(n2_queue), n2_queue # <<>>, n2_queue' = Tail(n2_queue),
         m.type \notin {"initial", "reset", "release complete"},
         \/ sctp' = sctp
         \/ sctp' = Append(sctp, m)
         \/ m.type # "release command" /\ sctp' = Append(sctp, Ngap("release command", m.ran, m.amf)),
         m.type = "release command" /\ sctp' = sctp => gnb[m.ran] = Free,
         UNCHANGED <<app_queue, n1_queue, app, n1, radio>>, KnownByBoth',
         \A r \in RanIds : ranid2uecontext'[r].known = ranid2uecontext[r].known
  PROVE  Held'
<1>1. queues'[3] = queues[3] /\ queues'[4] = sctp' /\ queues[4] = sctp
  BY QueuesAre
<1>2. PICK n : n = Ngap("release command", m.ran, m.amf)
  OBVIOUS
<1>3. n.type = "release command" /\ n.ran = m.ran /\ Plain(n)
  BY <1>2 DEF Ngap, Message, Plain, Talks, Requests, None
<1>4. PICK ms : ms = IF sctp' = sctp THEN <<>> ELSE IF sctp' = Append(sctp, m) THEN <<m>> ELSE <<n>>
  OBVIOUS
<1>5. \/ ms = <<>> /\ queues'[4] = queues[4]
      \/ ms = <<m>> /\ queues'[4] = Append(queues[4], m)
      \/ \E k : /\ ms = <<k>> /\ queues'[4] = Append(queues[4], k)
                /\ k.type = "release command" /\ k.ran = m.ran /\ Plain(k)
  <2>1. CASE sctp' = sctp
    BY <1>1, <1>4, <2>1
  <2>2. CASE sctp' # sctp /\ sctp' = Append(sctp, m)
    BY <1>1, <1>4, <2>2
  <2>3. CASE sctp' # sctp /\ sctp' # Append(sctp, m) /\ sctp' = Append(sctp, n)
    BY <1>1, <1>3, <1>4, <2>3
  <2>4. QED
    BY <1>2, <2>1, <2>2, <2>3
<1>6. ASSUME NEW s \in Ids, Command(m, s) PROVE (4 = 4 /\ ms = <<m>>) \/ gnb[s] = Free
  <2>1. m.type = "release command" /\ m.ran = s
    BY <1>6 DEF Command
  <2>2. CASE sctp' = sctp
    BY <2>1, <2>2
  <2>3. CASE sctp' # sctp
    BY <1>4, <2>1, <2>3
  <2>4. QED
    BY <2>2, <2>3
<1>7. queues'[3] = queues[3]
  BY <1>1
<1>8. m.type \notin {"initial", "reset", "release complete"} /\ UNCHANGED <<app_queue, app, n1, radio>>
  <2>1. m.type \notin {"initial", "reset", "release complete"}
    OBVIOUS
  <2>2. UNCHANGED <<app_queue, app, n1, radio>>
    OBVIOUS
  <2>3. QED
    BY ONLY <2>1, <2>2
<1>9. KnownByBoth' /\ \A r \in RanIds : ranid2uecontext'[r].known = ranid2uecontext[r].known
  OBVIOUS
<1>10. Held /\ Inv' /\ n2_queue # <<>> /\ n2_queue' = Tail(n2_queue) /\ m = Head(n2_queue)
  OBVIOUS
<1>11. 3 \in {3, 4} /\ 4 \in {3, 4} /\ 3 # 4
  BY ONLY TRUE
<1>12. QED
  BY ONLY <1>5, <1>6, <1>7, <1>8, <1>9, <1>10, <1>11, N2Passes

\* What N2 has forgotten was given an id, so the gNB has given it up.
LEMMA ForgottenEnded ==
  ASSUME Held, NEW s \in Ids, ~ranid2uecontext[s].known
  PROVE  gnb[s] = Free
<1>1. s \in RanIds /\ s <= generated /\ s \in Nat /\ generated \in Nat
  BY IdsAreAmfIds DEF Held, Inv, Ids
<1>2. ASSUME NEW i \in DOMAIN n2_queue, First(n2_queue[i], s) PROVE FALSE
  <2>1. Fresh(n2_queue[i]) /\ n2_queue[i].ran = s
    BY <1>2 DEF Held, Inv, AllMessages, N2Message, First
  <2>2. QED
    BY <1>1, <2>1 DEF Fresh
<1>3. QED
  BY <1>1, <1>2 DEF Held, End, ForgottenIsFree

\* N2 finds a ue_context for every id.
LEMMA KeyHolds ==
  ASSUME Inv, NEW a \in Ids
  PROVE  Key(a, a)
BY IdsAreAmfIds DEF Inv, Own, OwnContext, Key, Ids, None

\* The release of a connection is asked for, or ordered.
LEMMA ReleaseHeld ==
  ASSUME Held, Inv', ue_context_release_request \/ ue_context_release_command
  PROVE  Held'
<1>1. PICK m : m = Head(n2_queue)
  OBVIOUS
<1>2. /\ UNCHANGED <<app_queue, n1_queue, n2, app, n1, radio>>
      /\ n2_queue' = Tail(n2_queue) /\ n2_queue # <<>>
      /\ \/ m.type = "release request" /\ sctp' = Append(sctp, Ngap("release command", m.ran, m.amf))
         \/ /\ m.type = "release command" /\ Takes(n2_queue, "release command")
            /\ sctp' = IF ran_ue_id_2_ue_ngap_context(m.ran, m.amf) THEN Append(sctp, m) ELSE sctp
  BY <1>1 DEF ue_context_release_request, ue_context_release_command, N2Keeps, Takes
<1>3. KnownByBoth' /\ \A r \in RanIds : ranid2uecontext'[r].known = ranid2uecontext[r].known
  BY <1>2, KnownKept DEF app
<1>4. CASE m.type = "release request" /\ sctp' = Append(sctp, Ngap("release command", m.ran, m.amf))
  BY <1>1, <1>2, <1>3, <1>4, N2Sends
<1>5. CASE /\ m.type = "release command" /\ Takes(n2_queue, "release command")
           /\ sctp' = IF ran_ue_id_2_ue_ngap_context(m.ran, m.amf) THEN Append(sctp, m) ELSE sctp
  <2>1. m.ran = m.amf /\ m.amf \in Ids
    BY <1>1, <1>5, N2Head DEF N2Message, Paired, Held
  <2>2. ~ran_ue_id_2_ue_ngap_context(m.ran, m.amf) => gnb[m.ran] = Free
    BY <2>1, KeyHolds, ForgottenEnded DEF ran_ue_id_2_ue_ngap_context, Held
  <2>3. CASE ran_ue_id_2_ue_ngap_context(m.ran, m.amf)
    <3>1. sctp' = Append(sctp, m) /\ sctp' # sctp
      <4>1. sctp \in Seq(SctpMessages)
        BY DEF Held, Inv, Types, QueueTypes
      <4>2. Append(sctp, m) # sctp
        <5>1. sctp \in Seq(SctpMessages \cup {m}) /\ m \in SctpMessages \cup {m}
          BY <4>1
        <5>2. Len(Append(sctp, m)) = Len(sctp) + 1 /\ Len(sctp) \in Nat
          BY <5>1, Putting
        <5>3. QED
          BY <5>2
      <4>3. QED
        BY <1>5, <2>3, <4>2
    <3>2. QED
      BY <1>1, <1>2, <1>3, <1>5, <3>1, N2Sends
  <2>4. CASE ~ran_ue_id_2_ue_ngap_context(m.ran, m.amf)
    BY <1>1, <1>2, <1>3, <1>5, <2>2, <2>4, N2Sends
  <2>5. QED
    BY <2>3, <2>4
<1>6. QED
  BY <1>2, <1>4, <1>5

\* The first message to a UE.
LEMMA DownlinkHeld ==
  ASSUME Held, Inv', dl_nas_transport
  PROVE  Held'
<1>1. PICK m : m = Head(n2_queue)
  OBVIOUS
<1>2. /\ n2_queue # <<>> /\ m.type = "downlink" /\ n2_queue' = Tail(n2_queue) /\ Takes(n2_queue, "downlink")
      /\ \/ UNCHANGED <<n2, sctp>>
         \/ /\ ranid2uecontext' = [ranid2uecontext EXCEPT ![m.ran].amf = m.amf]
            /\ amfueid2uecontext' = amfueid2uecontext \cup {m.amf}
            /\ sctp' = Append(sctp, m)
      /\ UNCHANGED <<app_queue, n1_queue, app, n1, radio>>
  BY <1>1 DEF dl_nas_transport, N2Keeps, Takes
<1>3. m.ran = m.amf /\ m.amf \in Ids
  BY <1>1, <1>2, N2Head DEF N2Message, Paired, Held
<1>4. KnownByBoth' /\ \A r \in RanIds : ranid2uecontext'[r].known = ranid2uecontext[r].known
  <2>1. CASE UNCHANGED <<n2, sctp>>
    BY <1>2, <2>1, KnownKept DEF app
  <2>2. CASE /\ ranid2uecontext' = [ranid2uecontext EXCEPT ![m.ran].amf = m.amf]
             /\ amfueid2uecontext' = amfueid2uecontext \cup {m.amf}
    <3>1. ranid2uecontext \in [RanIds -> [known : BOOLEAN, amf : AmfIds \cup {None}, tmsi : Tmsi \cup {None}]]
      BY DEF Held, Inv, Types, N2Types
    <3>2. \A r \in RanIds : /\ ranid2uecontext'[r].known = ranid2uecontext[r].known
                            /\ ranid2uecontext'[r].amf = IF r = m.ran THEN m.amf ELSE ranid2uecontext[r].amf
      BY <2>2, <3>1
    <3>3. KnownByBoth /\ UNCHANGED generated
      BY <1>2 DEF Held, End, app
    <3>4. QED
      BY <1>3, <2>2, <3>2, <3>3 DEF KnownByBoth
  <2>3. QED
    BY <1>2, <2>1, <2>2
<1>5. sctp' = sctp \/ sctp' = Append(sctp, m)
  BY <1>2
<1>6. QED
  BY <1>1, <1>2, <1>4, <1>5, N2Sends

\* Other messages to a UE.
LEMMA SetupHeld ==
  ASSUME Held, Inv', setup_request \/ paging
  PROVE  Held'
<1>1. PICK m : m = Head(n2_queue)
  OBVIOUS
<1>2. /\ n2_queue # <<>> /\ m.type \in {"setup", "paging"} /\ n2_queue' = Tail(n2_queue)
      /\ sctp' = sctp \/ sctp' = Append(sctp, m)
      /\ UNCHANGED <<app_queue, n1_queue, n2, app, n1, radio>>
  <2>1. CASE setup_request
    BY <1>1, <2>1 DEF setup_request, N2Keeps, Takes
  <2>2. CASE paging
    BY <1>1, <2>2 DEF paging, Takes
  <2>3. QED
    BY <2>1, <2>2
<1>3. KnownByBoth' /\ \A r \in RanIds : ranid2uecontext'[r].known = ranid2uecontext[r].known
  BY <1>2, KnownKept DEF app
<1>4. QED
  BY <1>1, <1>2, <1>3, N2Sends

\* N1 handles a message, and answers or not.
LEMMA N1Answers ==
  ASSUME Held, Inv', NEW h, h = Head(n1_queue), n1_queue # <<>>, n1_queue' = Tail(n1_queue),
         h.type \notin {"initial", "reset", "release complete"}, NEW ms,
         \/ ms = <<>> /\ n2_queue' = n2_queue
         \/ \E k : /\ ms = <<k>> /\ n2_queue' = n2_queue \o ms
                   /\ k.type \notin {"initial", "reset"} /\ k.ran = h.ran
                   /\ Plain(k) \/ Follows(k, h),
         UNCHANGED <<app_queue, sctp, n2, generated, supi2Id, amfueid2nas_context, radio>>,
         \A c \in Contexts : /\ nas'[c].ran = nas[c].ran
                             /\ nas'[c].oldRan = nas[c].oldRan /\ nas'[c].oldAmf = nas[c].oldAmf
  PROVE  Held'
<1>1. Types
  BY DEF Held, Inv
<1>2. /\ 1 \in Places /\ 3 \in Places
      /\ queues[1] = n2_queue /\ queues'[1] = n2_queue' /\ queues[3] = n1_queue /\ queues'[3] = n1_queue'
  <2>1. 1 \in Places /\ 3 \in Places
    BY ONLY TRUE DEF Places
  <2>2. QED
    BY ONLY <2>1, QueuesAre
<1>3. 1 \in DOMAIN queues[3] /\ queues[3][1] = h
  BY <1>1, <1>2, HeadIs
<1>4. \A z \in Places : z \notin {3, 1} => queues'[z] = queues[z]
  BY QueuesAre
<1>5. Flow(queues, queues', 1, 3, 1, ms)
  <2>1. queues[3] # <<>> /\ queues'[3] = Tail(queues[3])
    BY <1>2
  <2>2. \/ ms = <<>> /\ queues'[1] = queues[1]
        \/ \E k : ms = <<k>> /\ queues'[1] = Append(queues[1], k)
        \/ (\E k : ms = <<k>> \/ \E n : ms = <<k, n>>) /\ queues'[1] = queues[1] \o ms
    <3>1. \/ ms = <<>> /\ queues'[1] = queues[1]
          \/ (\E k : ms = <<k>>) /\ queues'[1] = queues[1] \o ms
      BY <1>2, Zenon
    <3>2. QED
      BY ONLY <3>1
  <2>3. 1 \in {0, 1} /\ 3 # 1
    BY ONLY TRUE
  <2>4. QED
    BY ONLY <1>1, <1>2, <1>4, <2>1, <2>2, <2>3, Flows
<1>6. h.ran # None => Taken(h.ran)
  BY <1>2, <1>3, HeadTaken
<1>7. Regular(1, 3, 1, ms)
  <2>1. CASE ms = <<>>
    <3>1. DOMAIN ms = {}
      BY ONLY <2>1
    <3>2. QED
      BY ONLY <3>1 DEF Regular
  <2>2. CASE \E k : /\ ms = <<k>> /\ k.type \notin {"initial", "reset"} /\ k.ran = h.ran
                    /\ Plain(k) \/ Follows(k, h)
    <3>1. PICK k : /\ ms = <<k>> /\ k.type \notin {"initial", "reset"} /\ k.ran = h.ran
                   /\ Plain(k) \/ Follows(k, h)
      BY <2>2
    <3>2. ms = <<k>>
      BY <3>1
    <3>3. DOMAIN ms = {1} /\ ms[1] = k
      BY ONLY <3>2
    <3>4. QED
      BY ONLY <1>3, <1>6, <3>1, <3>3 DEF Regular
  <2>3. QED
    BY <2>1, <2>2
<1>8. Ordinary(1, 3, 1, ms)
  <2>1. h.type \notin {"initial", "reset", "release complete"}
    OBVIOUS
  <2>2. 3 \notin {1, 4}
    BY ONLY TRUE
  <2>3. QED
    BY ONLY <1>3, <2>1, <2>2 DEF Ordinary
<1>9. /\ UNCHANGED <<n2, gnb, guti, opened, generated, supi2Id, amfueid2nas_context>>
      /\ \A u \in UEs : rrc'[u] = None \/ (rrc'[u] = rrc[u] /\ request'[u] = request[u])
  BY DEF radio
<1>10. \A c \in Contexts : /\ nas'[c].ran = nas[c].ran
                           /\ nas'[c].oldRan = nas[c].oldRan /\ nas'[c].oldAmf = nas[c].oldAmf
  OBVIOUS
<1>11. Held /\ Inv'
  OBVIOUS
<1>12. 1 # 2
  BY ONLY TRUE
<1>13. QED
  BY ONLY <1>5, <1>7, <1>8, <1>9, <1>10, <1>11, <1>12, CalmIf

\* A message is put that is of no UE's talk.
LEMMA CalmPut ==
  ASSUME Held, Inv', NEW d \in {0, 1}, NEW x \in Places, NEW y \in Places, x # y, NEW k,
         d = 0 => queues'[x] = queues[x], d = 1 => queues[x] # <<>> /\ queues'[x] = Tail(queues[x]),
         queues'[y] = Append(queues[y], k), \A z \in Places : z \notin {x, y} => queues'[z] = queues[z],
         d = 1 => queues[x][1].type \notin {"initial", "reset", "release complete", "release command"},
         k.type \notin {"initial", "reset"}, Plain(k), k.ran # None => Taken(k.ran),
         UNCHANGED <<n2, radio, generated, supi2Id, amfueid2nas_context, nas>>
  PROVE  Held'
<1>1. Types
  BY DEF Held, Inv
<1>2. PICK ms : ms = <<k>>
  OBVIOUS
<1>3. DOMAIN ms = {1} /\ ms[1] = k
  BY ONLY <1>2
<1>4. Flow(queues, queues', d, x, y, ms)
  BY <1>1, <1>2, Flows
<1>5. Regular(d, x, y, ms)
  BY <1>3 DEF Regular
<1>6. Ordinary(d, x, y, ms)
  BY DEF Ordinary, Command
<1>7. UNCHANGED <<gnb, rrc, guti, request, opened>>
  BY DEF radio
<1>8. QED
  BY <1>3, <1>4, <1>5, <1>6, <1>7, CalmIf

\* None is put.
LEMMA CalmTake ==
  ASSUME Held, Inv', NEW d \in {0, 1}, NEW x \in Places, NEW y \in Places, x # y,
         d = 0 => queues'[x] = queues[x], d = 1 => queues[x] # <<>> /\ queues'[x] = Tail(queues[x]),
         queues'[y] = queues[y], \A z \in Places : z \notin {x, y} => queues'[z] = queues[z],
         d = 1 => queues[x][1].type \notin {"initial", "reset", "release complete", "release command"},
         UNCHANGED <<n2, gnb, guti, opened, generated, supi2Id, amfueid2nas_context, nas>>,
         \A u \in UEs : rrc'[u] = None \/ (rrc'[u] = rrc[u] /\ request'[u] = request[u])
  PROVE  Held'
<1>1. Types
  BY DEF Held, Inv
<1>2. PICK ms : ms = <<>>
  OBVIOUS
<1>3. DOMAIN ms = {}
  BY ONLY <1>2
<1>4. Flow(queues, queues', d, x, y, ms)
  BY <1>1, <1>2, Flows
<1>5. Regular(d, x, y, ms)
  BY ONLY <1>3 DEF Regular
<1>6. Ordinary(d, x, y, ms)
  BY DEF Ordinary, Command
<1>7. QED
  BY <1>3, <1>4, <1>5, <1>6, CalmIf

\* A registration is accepted.
LEMMA CompleteHeld ==
  ASSUME Held, Inv', security_mode_complete_handle
  PROVE  Held'
<1>1. PICK m, c : m = Head(n1_queue) /\ c = amfueid2nas_context[m.amf]
  OBVIOUS
<1>2. PICK k : k = Message("setup", m.ran, m.amf, "accept", nas[c].ue, c)
  OBVIOUS
<1>3. /\ n1_queue # <<>> /\ m.type = "uplink" /\ m.what = "complete" /\ n1_queue' = Tail(n1_queue)
      /\ n2_queue' = n2_queue \/ n2_queue' = n2_queue \o <<k>>
      /\ UNCHANGED <<app_queue, sctp, n2, generated, n1, radio>>
  BY <1>1, <1>2 DEF security_mode_complete_handle, Takes, Answer, N1Keeps
<1>4. k.type = "setup" /\ k.ran = m.ran /\ k.what = "accept"
  BY <1>2 DEF Message
<1>5. Follows(k, m)
  BY <1>3, <1>4 DEF Follows, Token, Talks, Requests
<1>6. PICK ms : ms = IF n2_queue' = n2_queue THEN <<>> ELSE <<k>>
  OBVIOUS
<1>7. \/ ms = <<>> /\ n2_queue' = n2_queue
      \/ ms = <<k>> /\ n2_queue' = n2_queue \o ms
  BY <1>3, <1>6
<1>8. UNCHANGED <<supi2Id, amfueid2nas_context, nas>>
  BY <1>3 DEF n1
<1>9. m.type \notin {"initial", "reset", "release complete"} /\ k.type \notin {"initial", "reset"}
  BY <1>3, <1>4
<1>10. QED
  BY <1>1, <1>3, <1>4, <1>5, <1>7, <1>8, <1>9, N1Answers

\* What the SMF has goes on.
LEMMA DownlinkTransferHeld ==
  ASSUME Held, Inv', downlink_nas_transfer
  PROVE  Held'
<1>1. PICK m, t : m = Head(n1_queue) /\ t = IF m.what = "setup" THEN "setup" ELSE "downlink"
  OBVIOUS
<1>2. PICK k : k = Message(t, m.ran, m.amf, "data", m.ue, None)
  OBVIOUS
<1>3. /\ n1_queue # <<>> /\ m.type = "transfer" /\ n1_queue' = Tail(n1_queue)
      /\ n2_queue' = n2_queue \/ n2_queue' = n2_queue \o <<k>>
      /\ UNCHANGED <<app_queue, sctp, n2, app, n1, radio>>
  BY <1>1, <1>2 DEF downlink_nas_transfer, Takes, Answer, N1Keeps
<1>4. k.type = t /\ k.ran = m.ran /\ k.what = "data" /\ k.tmsi = None
  BY <1>2 DEF Message
<1>5. Plain(k)
  BY <1>4 DEF Plain, Talks, Requests
<1>6. PICK ms : ms = IF n2_queue' = n2_queue THEN <<>> ELSE <<k>>
  OBVIOUS
<1>7. \/ ms = <<>> /\ n2_queue' = n2_queue
      \/ ms = <<k>> /\ n2_queue' = n2_queue \o ms
  BY <1>3, <1>6
<1>8. UNCHANGED <<supi2Id, amfueid2nas_context, nas, generated>>
  BY <1>3 DEF n1, app
<1>9. m.type \notin {"initial", "reset", "release complete"} /\ k.type \notin {"initial", "reset"}
  BY <1>1, <1>3, <1>4
<1>10. QED
  BY <1>1, <1>3, <1>4, <1>5, <1>7, <1>8, <1>9, N1Answers

\* The timeouts.
LEMMA TimeoutHeld ==
  ASSUME Held, Inv', mobile_reachable_timer_timeout \/ implicit_deregistration_timer_timeout
  PROVE  Held'
<1>1. PICK m : m = Head(n1_queue)
  OBVIOUS
<1>2. /\ n1_queue # <<>> /\ m.type \in {"mobile", "implicit"} /\ n1_queue' = Tail(n1_queue)
      /\ n2_queue' = n2_queue
      /\ UNCHANGED <<app_queue, sctp, n2, generated, supi2Id, amfueid2nas_context, radio>>
      /\ nas' = nas \/ \E c : nas' = [nas EXCEPT ![c].unreachable = TRUE]
  <2>1. CASE mobile_reachable_timer_timeout
    BY <1>1, <2>1 DEF mobile_reachable_timer_timeout, Takes, N1Keeps, app
  <2>2. CASE implicit_deregistration_timer_timeout
    BY <1>1, <2>2 DEF implicit_deregistration_timer_timeout, Takes, app, n1
  <2>3. QED
    BY <2>1, <2>2
<1>3. \A c \in Contexts : /\ nas'[c].ran = nas[c].ran
                          /\ nas'[c].oldRan = nas[c].oldRan /\ nas'[c].oldAmf = nas[c].oldAmf
  <2>1. nas \in [Contexts -> NasContexts]
    BY DEF Held, Inv, Types, N1Types
  <2>2. CASE nas' = nas
    BY <2>2
  <2>3. CASE \E c : nas' = [nas EXCEPT ![c].unreachable = TRUE]
    BY <2>1, <2>3 DEF NasContexts
  <2>4. QED
    BY <1>2, <2>2, <2>3
<1>4. PICK ms : ms = <<>>
  OBVIOUS
<1>5. m.type \notin {"initial", "reset", "release complete"}
  BY <1>2
<1>6. QED
  BY <1>1, <1>2, <1>3, <1>4, <1>5, N1Answers

\* APP passes on what the SMF has.
LEMMA TransferRequestHeld ==
  ASSUME Held, Inv', n1n2_message_transfer_request
  PROVE  Held'
<1>1. PICK m, id : m = Head(app_queue) /\ id = supi2Id[m.ue]
  OBVIOUS
<1>2. PICK p, t : p = Ngap("paging", id.ran, id.amf) /\ t = [m EXCEPT !.ran = id.ran, !.amf = id.amf]
  OBVIOUS
<1>3. /\ Takes(app_queue, "transfer") /\ app_queue # <<>> /\ m.type = "transfer" /\ app_queue' = Tail(app_queue)
      /\ \/ n2_queue' = Append(n2_queue, p) /\ n1_queue' = n1_queue
         \/ n1_queue' = Append(n1_queue, t) /\ n2_queue' = n2_queue
      /\ UNCHANGED <<sctp, n2, app, n1, radio>>
  BY <1>1, <1>2 DEF n1n2_message_transfer_request, Takes
<1>4. m \in AppMessages /\ AppMessage(m) /\ m = app_queue[1] /\ 1 \in DOMAIN app_queue
  BY <1>1, <1>3, AppHead DEF Held
<1>5. m.ue \in UEs /\ Plain(m)
  BY <1>3, <1>4 DEF AppMessage, Held, PlainTransfers, Plain
<1>6. Taken(id.ran)
  BY <1>1, <1>5 DEF Held, Later, LaterTables
<1>7. p.type = "paging" /\ p.ran = id.ran /\ Plain(p)
  BY <1>2 DEF Ngap, Message, Plain, Talks, Requests, None
<1>8. t.type = "transfer" /\ t.ran = id.ran /\ Plain(t)
  BY <1>2, <1>3, <1>4, <1>5 DEF AppMessages, MessagesOf, Plain
<1>9. UNCHANGED <<n2, radio, generated, supi2Id, amfueid2nas_context, nas>>
  BY <1>3 DEF app, n1
<1>10. /\ queues'[2] = Tail(queues[2]) /\ queues[2] # <<>> /\ queues[2][1].type = "transfer"
       /\ queues'[4] = queues[4]
       /\ \/ queues'[1] = Append(queues[1], p) /\ queues'[3] = queues[3]
          \/ queues'[3] = Append(queues[3], t) /\ queues'[1] = queues[1]
  BY <1>3, <1>4, QueuesAre
<1>11. 1 \in Places /\ 2 \in Places /\ 3 \in Places /\ \A z \in Places : z \in {1, 2, 3, 4}
  BY ONLY TRUE DEF Places
<1>12. CASE queues'[1] = Append(queues[1], p) /\ queues'[3] = queues[3]
  <2>1. \A z \in Places : z \notin {2, 1} => queues'[z] = queues[z]
    BY ONLY <1>10, <1>11, <1>12
  <2>2. queues[2][1].type \notin {"initial", "reset", "release complete", "release command"}
        /\ p.type \notin {"initial", "reset"}
    BY ONLY <1>7, <1>10
  <2>3. Held /\ Inv' /\ 1 \in {0, 1} /\ 2 # 1 /\ 1 # 0
    OBVIOUS
  <2>4. QED
    BY ONLY <1>6, <1>7, <1>9, <1>10, <1>11, <1>12, <2>1, <2>2, <2>3, CalmPut
<1>13. CASE queues'[3] = Append(queues[3], t) /\ queues'[1] = queues[1]
  <2>1. \A z \in Places : z \notin {2, 3} => queues'[z] = queues[z]
    BY ONLY <1>10, <1>11, <1>13
  <2>2. queues[2][1].type \notin {"initial", "reset", "release complete", "release command"}
        /\ t.type \notin {"initial", "reset"}
    BY ONLY <1>8, <1>10
  <2>3. Held /\ Inv' /\ 1 \in {0, 1} /\ 2 # 3 /\ 1 # 0
    OBVIOUS
  <2>4. QED
    BY ONLY <1>6, <1>8, <1>9, <1>10, <1>11, <1>13, <2>1, <2>2, <2>3, CalmPut
<1>14. QED
  BY <1>10, <1>12, <1>13

\* What a step leaves alone of the queues, and what their numbers are.
LEMMA PlacesAre ==
  /\ 1 \in Places /\ 2 \in Places /\ 3 \in Places /\ 4 \in Places
  /\ \A z \in Places : z \in {1, 2, 3, 4}
BY DEF Places

\* The gNB asks for a release.
LEMMA AskHeld ==
  ASSUME Held, Inv', NEW r \in RanIds, AskForRelease(r)
  PROVE  Held'
<1>1. PICK k : k = Ngap("release request", r, gnb[r].amf)
  OBVIOUS
<1>2. /\ gnb[r].amf # None /\ n2_queue' = Append(n2_queue, k)
      /\ UNCHANGED <<app_queue, n1_queue, sctp, n2, app, n1, radio>>
  BY <1>1 DEF AskForRelease
<1>3. k.type = "release request" /\ k.ran = r /\ Plain(k)
  BY <1>1 DEF Ngap, Message, Plain, Talks, Requests, None
<1>4. Taken(r)
  BY <1>2 DEF Held, Later, LaterTables
<1>5. /\ queues'[1] = Append(queues[1], k) /\ queues'[2] = queues[2]
      /\ queues'[3] = queues[3] /\ queues'[4] = queues[4]
  BY <1>2, QueuesAre
<1>6. \A z \in Places : z \notin {2, 1} => queues'[z] = queues[z]
  BY ONLY <1>5, PlacesAre
<1>7. UNCHANGED <<n2, radio, generated, supi2Id, amfueid2nas_context, nas>>
  BY <1>2 DEF app, n1
<1>8. k.type \notin {"initial", "reset"} /\ (k.ran # None => Taken(k.ran))
  BY <1>3, <1>4
<1>9. Held /\ Inv'
  OBVIOUS
<1>10. 0 \in {0, 1} /\ 0 # 1 /\ 2 # 1
  BY ONLY TRUE
<1>11. QED
  BY ONLY <1>3, <1>5, <1>6, <1>7, <1>8, <1>9, <1>10, PlacesAre, CalmPut

\* The SMF has something for a UE.
LEMMA TransferHeld ==
  ASSUME Held, Inv', NEW u \in UEs, NEW what \in {"paging", "nas", "setup"}, Transfer(u, what)
  PROVE  Held'
<1>1. PICK k : k = Message("transfer", None, None, what, u, None)
  OBVIOUS
<1>2. /\ app_queue' = Append(app_queue, k)
      /\ UNCHANGED <<n2_queue, n1_queue, sctp, n2, app, n1, radio>>
  BY <1>1 DEF Transfer
<1>3. k.type = "transfer" /\ k.ran = None /\ Plain(k)
  BY <1>1 DEF Message, Plain, Talks, Requests
<1>4. /\ queues'[2] = Append(queues[2], k) /\ queues'[1] = queues[1]
      /\ queues'[3] = queues[3] /\ queues'[4] = queues[4]
  BY <1>2, QueuesAre
<1>5. \A z \in Places : z \notin {1, 2} => queues'[z] = queues[z]
  BY ONLY <1>4, PlacesAre
<1>6. UNCHANGED <<n2, radio, generated, supi2Id, amfueid2nas_context, nas>>
  BY <1>2 DEF app, n1
<1>7. k.type \notin {"initial", "reset"} /\ (k.ran # None => Taken(k.ran))
  BY <1>3
<1>8. Held /\ Inv'
  OBVIOUS
<1>9. 0 \in {0, 1} /\ 0 # 1 /\ 1 # 2
  BY ONLY TRUE
<1>10. QED
  BY ONLY <1>3, <1>4, <1>5, <1>6, <1>7, <1>8, <1>9, PlacesAre, CalmPut, ZenonT(60)

\* A timer runs out.
LEMMA ExpireHeld ==
  ASSUME Held, Inv', Expire
  PROVE  Held'
<1>1. PICK t \in timers : n1_queue' = Append(n1_queue, Ngap(t[1], None, t[2]))
  BY DEF Expire
<1>2. t[1] \in {"mobile", "implicit"}
  BY DEF Held, Inv, Types, N1Types
<1>3. PICK k : k = Ngap(t[1], None, t[2])
  OBVIOUS
<1>4. /\ n1_queue' = Append(n1_queue, k)
      /\ UNCHANGED <<n2_queue, app_queue, sctp, n2, app, amfueid2nas_context, supi2Id, nas, radio>>
  BY <1>1, <1>3 DEF Expire
<1>5. k.type \in {"mobile", "implicit"} /\ k.ran = None /\ Plain(k)
  BY <1>2, <1>3 DEF Ngap, Message, Plain, Talks, Requests, None
<1>6. /\ queues'[3] = Append(queues[3], k) /\ queues'[1] = queues[1]
      /\ queues'[2] = queues[2] /\ queues'[4] = queues[4]
  BY <1>4, QueuesAre
<1>7. \A z \in Places : z \notin {1, 3} => queues'[z] = queues[z]
  BY ONLY <1>6, PlacesAre
<1>8. UNCHANGED <<n2, radio, generated, supi2Id, amfueid2nas_context, nas>>
  BY <1>4 DEF app
<1>9. k.type \notin {"initial", "reset"} /\ (k.ran # None => Taken(k.ran))
  BY <1>5
<1>10. Held /\ Inv'
  OBVIOUS
<1>11. 0 \in {0, 1} /\ 0 # 1 /\ 1 # 3
  BY ONLY TRUE
<1>12. QED
  BY ONLY <1>5, <1>6, <1>7, <1>8, <1>9, <1>10, <1>11, PlacesAre, CalmPut, ZenonT(60)

\* The radio link is lost, or nothing happens.
LEMMA LoseHeld ==
  ASSUME Held, Inv', (\E u \in UEs : Lose(u)) \/ UNCHANGED vars
  PROVE  Held'
<1>1. /\ UNCHANGED <<queues, n2, gnb, guti, opened, generated, supi2Id, amfueid2nas_context, nas>>
      /\ \A u \in UEs : rrc'[u] = None \/ (rrc'[u] = rrc[u] /\ request'[u] = request[u])
  <2>1. CASE UNCHANGED vars
    BY <2>1 DEF vars, app, n1, radio
  <2>2. CASE \E u \in UEs : Lose(u)
    <3>1. PICK u \in UEs : Lose(u)
      BY <2>2
    <3>2. UNCHANGED <<queues, n2, gnb, guti, opened, generated, supi2Id, amfueid2nas_context, nas>>
      BY <3>1 DEF Lose, app, n1
    <3>3. /\ rrc' = [rrc EXCEPT ![u] = None] /\ request' = [request EXCEPT ![u] = Idle]
          /\ rrc \in [UEs -> RanIds \cup {None}]
          /\ request \in [UEs -> [kind : Requests \cup {"none"}, waits : BOOLEAN]]
      BY <3>1 DEF Lose, Held, Inv, Types, RadioTypes
    <3>4. QED
      BY <3>2, <3>3
  <2>3. QED
    BY <2>1, <2>2
<1>2. \A z : queues'[z] = queues[z]
  BY <1>1
<1>3. 0 \in {0, 1} /\ 0 # 1 /\ 1 # 2
  BY ONLY TRUE
<1>4. QED
  BY <1>1, <1>2, <1>3, PlacesAre, CalmTake

\* The gNB pages.
LEMMA PagedHeld ==
  ASSUME Held, Inv', Paged
  PROVE  Held'
<1>1. /\ sctp # <<>> /\ Head(sctp).type = "paging" /\ sctp' = Tail(sctp)
      /\ UNCHANGED <<n2_queue, app_queue, n1_queue, n2, app, n1, radio>>
  BY DEF Paged
<1>2. /\ queues[4] # <<>> /\ queues'[4] = Tail(queues[4]) /\ Head(queues[4]).type = "paging"
      /\ queues'[1] = queues[1] /\ queues'[2] = queues[2] /\ queues'[3] = queues[3]
  BY <1>1, QueuesAre
<1>3. queues[4][1].type \notin {"initial", "reset", "release complete", "release command"}
  <2>1. Head(queues[4]) = queues[4][1]
    BY <1>2, HeadIs, PlacesAre DEF Held, Inv
  <2>2. QED
    BY ONLY <1>2, <2>1
<1>4. \A z \in Places : z \notin {4, 1} => queues'[z] = queues[z]
  BY ONLY <1>2, PlacesAre
<1>5. /\ UNCHANGED <<n2, gnb, guti, opened, generated, supi2Id, amfueid2nas_context, nas>>
      /\ \A u \in UEs : rrc'[u] = None \/ (rrc'[u] = rrc[u] /\ request'[u] = request[u])
  BY <1>1 DEF app, n1, radio
<1>6. Held /\ Inv'
  OBVIOUS
<1>7. 1 \in {0, 1} /\ 1 # 0 /\ 4 # 1
  BY ONLY TRUE
<1>8. QED
  BY ONLY <1>2, <1>3, <1>4, <1>5, <1>6, <1>7, PlacesAre, CalmTake, ZenonT(60)

-----------------------------------------------------------------------------
(* The steps that open, end or follow a connection.                         *)

\* What becomes of the queue of N2.
LEMMA N2Shift ==
  ASSUME NEW d, NEW x, NEW y, NEW ms, Flow(queues, queues', d, x, y, ms)
  PROVE  \E e, new : /\ Shift(n2_queue, n2_queue', e, new)
                     /\ e \in {0, 1} /\ (e = 1 => d = 1 /\ x = 1) /\ (d = 1 /\ x = 1 => e = 1)
                     /\ \A m \in new : y = 1 /\ \E k \in DOMAIN ms : m = ms[k]
                     /\ y = 1 => \A k \in DOMAIN ms : ms[k] \in new
<1>1. 1 \in Places
  BY PlacesAre
<1>2. PICK e : e = IF 1 = x THEN d ELSE 0
  OBVIOUS
<1>3. PICK new : new = IF 1 = y THEN {ms[k] : k \in DOMAIN ms} ELSE {}
  OBVIOUS
<1>4. Shift(queues[1], queues'[1], e, new)
  <2>1. e = (IF 1 = x THEN d ELSE 0) /\ new = (IF 1 = y THEN {ms[k] : k \in DOMAIN ms} ELSE {})
    BY <1>2, <1>3
  <2>2. Flow(queues, queues', d, x, y, ms)
    OBVIOUS
  <2>3. QED
    BY ONLY <1>1, <2>1, <2>2, ShiftOf
<1>5. Shift(n2_queue, n2_queue', e, new)
  BY <1>4, QueuesAre
<1>6. e \in {0, 1} /\ (e = 1 => d = 1 /\ x = 1) /\ (d = 1 /\ x = 1 => e = 1)
  <2>1. e \in {0, 1}
    BY <1>5 DEF Shift
  <2>2. QED
    BY ONLY <1>2, <2>1
<1>7. /\ \A m \in new : y = 1 /\ \E k \in DOMAIN ms : m = ms[k]
      /\ y = 1 => \A k \in DOMAIN ms : ms[k] \in new
  BY ONLY <1>3
<1>8. QED
  BY ONLY <1>5, <1>6, <1>7

\* The talks go on when each UE still waits for what it is in.
LEMMA TalkKept ==
  ASSUME Held, Types', NEW d, NEW x, NEW y, NEW ms, Flow(queues, queues', d, x, y, ms),
         OneMore(queues, d, x, ms),
         \A u \in UEs : rrc'[u] = None \/ ExpectsStill(u, queues, d, x, ms)
  PROVE  Talk'
<1>1. One(queues')
  BY OneKept DEF Held, Talk
<1>2. ASSUME NEW u \in UEs
      PROVE  \A z \in Places : \A i \in DOMAIN queues'[z], what \in Whats :
                rrc'[u] # None /\ Token(queues'[z][i], rrc'[u]) /\ queues'[z][i].what = what =>
                Expects(u, what)'
  <2>1. ExpectedFor(queues, u)
    BY DEF Held, Talk, Expected
  <2>2. QED
    BY <2>1, ExpectedKept
<1>3. QED
  BY <1>1, <1>2, TalkOf

\* What is asked for on a connection, or answered, is its UE's.
LEMMA HeadExpects ==
  ASSUME Held, NEW u \in UEs, NEW x \in Places, 1 \in DOMAIN queues[x],
         Token(queues[x][1], rrc[u]), rrc[u] # None
  PROVE  Expects(u, queues[x][1].what)
BY DEF Held, Talk, Expected, ExpectedFor

\* There is no message of a connection that is not opened.
LEMMA NotOpened ==
  ASSUME Held, NEW z \in Places, NEW i \in DOMAIN queues[z]
  PROVE  queues[z][i].ran <= opened
<1>1. generated \in Nat /\ opened \in Nat /\ generated <= opened
  BY IdsAreAmfIds DEF Held, Inv, Order
<1>2. CASE queues[z][i].type # "initial"
  <2>1. queues[z][i].ran = None \/ queues[z][i].ran <= generated
    BY <1>2 DEF Held, Later, LaterIn, Taken
  <2>2. queues[z][i].ran \in Nat
    BY QueueNumbers DEF Held, Inv
  <2>3. QED
    BY <1>1, <2>1, <2>2 DEF None
<1>3. CASE queues[z][i].type = "initial"
  <2>1. CASE z = 1
    <3>1. N2Message(n2_queue[i]) /\ n2_queue[i].type = "initial"
      BY <1>3, <2>1, QueuesAre DEF Held, Inv, AllMessages
    <3>2. n2_queue[i].ran \in (generated + 1)..opened
      BY <3>1 DEF N2Message, Fresh
    <3>3. QED
      BY <1>1, <2>1, <3>2, QueuesAre
  <2>2. CASE z = 2
    <3>1. AppMessage(app_queue[i]) /\ app_queue[i].type = "initial"
      BY <1>3, <2>2, QueuesAre DEF Held, Inv, AllMessages
    <3>2. app_queue[i].ran \in (generated + 1)..opened
      BY <3>1 DEF AppMessage, Fresh
    <3>3. QED
      BY <1>1, <2>2, <3>2, QueuesAre
  <2>3. CASE z = 3
    <3>1. N1Message(n1_queue[i]) /\ n1_queue[i].type = "initial"
      BY <1>3, <2>3, QueuesAre DEF Held, Inv, AllMessages
    <3>2. n1_queue[i].ran \in Ids
      BY <3>1 DEF N1Message, Paired
    <3>3. QED
      BY <1>1, <2>3, <3>2, QueuesAre DEF Ids
  <2>4. CASE z = 4
    <3>1. Paired(sctp[i])
      BY <2>4, QueuesAre DEF Held, Inv, AllMessages
    <3>2. QED
      BY <1>1, <2>4, <3>1, QueuesAre DEF Paired, Ids
  <2>5. QED
    BY <2>1, <2>2, <2>3, <2>4, QueuesAre
<1>4. QED
  BY <1>2, <1>3

\* Steps of which none is N1's or APP's.
LEMMA TakenSame ==
  ASSUME UNCHANGED <<n1_queue, generated>>
  PROVE  \A r \in Nat : Taken(r)' <=> Taken(r)
BY DEF Taken

\* A connection is taken once its first message is.
LEMMA TakenBefore ==
  ASSUME Types, NEW d, NEW x, NEW y, NEW ms, Flow(queues, queues', d, x, y, ms),
         NEW r \in RanIds, Taken(r)', r <= generated,
         x = 3 /\ d = 1 /\ n1_queue[1].type = "initial" => n1_queue[1].ran # r
  PROVE  Taken(r)
<1> SUFFICES ASSUME NEW i \in DOMAIN n1_queue, n1_queue[i].type = "initial", n1_queue[i].ran = r
             PROVE  FALSE
  BY DEF Taken
<1>1. PICK e : e = IF 3 = x THEN d ELSE 0
  OBVIOUS
<1>2. PICK new : new = IF 3 = y THEN {ms[k] : k \in DOMAIN ms} ELSE {}
  OBVIOUS
<1>3. Shift(queues[3], queues'[3], e, new)
  <2>1. Flow(queues, queues', d, x, y, ms)
    OBVIOUS
  <2>2. 3 \in Places
    BY PlacesAre
  <2>3. QED
    BY ONLY <1>1, <1>2, <2>1, <2>2, ShiftOf
<1>4. Shift(n1_queue, n1_queue', e, new)
  BY <1>3, QueuesAre
<1>5. i \in Nat \ {0} /\ e \in {0, 1}
  BY <1>4 DEF Shift
<1>6. ~(e = 1 /\ i = 1)
  BY <1>1
<1>7. i > e
  BY <1>5, <1>6
<1>8. i - e \in DOMAIN n1_queue' /\ n1_queue'[i - e] = n1_queue[i]
  BY <1>4, <1>7 DEF Shift
<1>9. QED
  BY <1>8 DEF Taken

\* No connection ends and none begins.
LEMMA EndKept ==
  ASSUME Held, NEW d, NEW x, NEW y, NEW ms, Flow(queues, queues', d, x, y, ms),
         y = 1 => \A k \in DOMAIN ms : ms[k].type \notin {"initial", "reset"},
         d = 1 /\ x = 1 => n2_queue[1].type \notin {"initial", "reset", "release complete"},
         \A r \in RanIds : gnb'[r] = Free <=> gnb[r] = Free,
         \A r \in RanIds : ranid2uecontext'[r].known = ranid2uecontext[r].known, KnownByBoth',
         \A r \in RanIds : ranid2uecontext[r].known /\ Taken(r) /\ amfueid2nas_context[r] = None =>
            Taken(r)' /\ amfueid2nas_context'[r] = None,
         \A r \in RanIds : LostContext(r)' => LostContext(r) \/ NotAsked(queues, r),
         \A r \in RanIds : \A k \in DOMAIN ms : Question(ms[k], r) =>
            (d = 1 /\ Question(queues[x][1], r)) \/ ~LostContext(r)'
  PROVE  End'
<1>1. ResetFrees /\ FreeIsReset /\ ForgottenIsFree /\ EndIsTold /\ AskedHasContext
  BY DEF Held, End
<1>2. PICK e, new : /\ Shift(n2_queue, n2_queue', e, new)
                    /\ e \in {0, 1} /\ (e = 1 => d = 1 /\ x = 1)
                    /\ \A m \in new : y = 1 /\ \E k \in DOMAIN ms : m = ms[k]
  <2>1. Flow(queues, queues', d, x, y, ms)
    OBVIOUS
  <2>2. QED
    BY ONLY <2>1, N2Shift
<1>3. \A m \in new : m.type \notin {"initial", "reset"}
  BY <1>2
<1>4. e = 1 => n2_queue[1].type \notin {"initial", "reset", "release complete"}
  BY <1>2
<1>5. ResetFrees'
  BY <1>1, <1>2, <1>3, ResetFreesKept
<1>6. FreeIsReset'
  <2>1. \A i \in DOMAIN n2_queue : n2_queue[i].type = "initial" /\ gnb'[n2_queue[i].ran] = Free =>
            gnb[n2_queue[i].ran] = Free
    <3> SUFFICES ASSUME NEW i \in DOMAIN n2_queue, n2_queue[i].type = "initial",
                        gnb'[n2_queue[i].ran] = Free
                 PROVE  gnb[n2_queue[i].ran] = Free
      OBVIOUS
    <3>1. Fresh(n2_queue[i])
      BY DEF Held, Inv, AllMessages, N2Message
    <3>2. n2_queue[i].ran \in RanIds
      <4>1. n2_queue[i].ran \in (generated + 1)..opened
        BY <3>1 DEF Fresh
      <4>2. generated \in 1..MaxAmfId /\ opened \in 1..MaxAmfId /\ RanIds = 1..MaxAmfId /\ MaxAmfId \in Nat
        BY DEF Held, Inv, Types, AppTypes, RadioTypes, RanIds, AmfIds
      <4>3. QED
        BY ONLY <4>1, <4>2
    <3>3. QED
      BY <3>2
  <2>2. QED
    BY <1>1, <1>2, <1>3, <2>1, FreeIsResetKept
<1>7. ForgottenIsFree'
  <2>1. \A r \in RanIds : e = 1 /\ First(n2_queue[1], r) => ranid2uecontext'[r].known
    BY <1>4 DEF First
  <2>2. QED
    BY <1>1, <1>2, <2>1, ForgottenIsFreeKept
<1>8. EndIsTold'
  BY <1>1, <1>2, <1>4, EndIsToldKept
<1>9. AskedHasContext'
  BY <1>1, AskedKept
<1>10. QED
  BY <1>5, <1>6, <1>7, <1>8, <1>9 DEF End

\* The release of the connection s that a context left for its present one, r of UE u,
\* stays ahead.
LEMMA OldFollows ==
  ASSUME Held, NEW d, NEW x, NEW y, NEW ms, Flow(queues, queues', d, x, y, ms), y # 4,
         NEW u \in UEs, NEW c \in Contexts, NEW s, s = nas[c].oldAmf, s # None,
         NEW r, r = rrc[u], r # None,
         request[u].kind = "service", nas[c].ran = r,
         \A t \in Ids : gnb[t] = Free => gnb'[t] = Free,
         \A t \in Ids : d = 1 /\ x = 1 /\ Command(n2_queue[1], t) => gnb'[t] = Free,
         \A t \in Ids : d = 1 /\ x = 4 /\ Command(sctp[1], t) => gnb'[t] = Free,
         request[u].waits => request'[u].waits \/ (d = 1 /\ x = 4 /\ Reply(sctp[1], r))
  PROVE  gnb'[s] = Free \/ (request'[u].waits /\ Coming(s, r)')
<1>1. s \in Ids
  BY DEF Held, OldIds
<1>2. gnb[s] = Free \/ (request[u].waits /\ Coming(s, r))
  BY DEF Held, OldIsReleased
<1>3. QED
  BY <1>1, <1>2, OldStays

\* So do all, as long as no UE or context gets another.
LEMMA OldsFollow ==
  ASSUME Held, NEW d, NEW x, NEW y, NEW ms, Flow(queues, queues', d, x, y, ms), y # 4,
         \A t \in Ids : gnb[t] = Free => gnb'[t] = Free,
         \A t \in Ids : d = 1 /\ x = 1 /\ Command(n2_queue[1], t) => gnb'[t] = Free,
         \A t \in Ids : d = 1 /\ x = 4 /\ Command(sctp[1], t) => gnb'[t] = Free,
         \A u \in UEs, c \in Contexts :
            /\ rrc'[u] # None /\ request'[u].kind = "service"
            /\ nas'[c].ran = rrc'[u] /\ nas'[c].oldAmf # None
            => /\ rrc'[u] = rrc[u] /\ request[u].kind = "service"
               /\ nas'[c].ran = nas[c].ran /\ nas'[c].oldAmf = nas[c].oldAmf
               /\ request[u].waits => request'[u].waits \/ (d = 1 /\ x = 4 /\ Reply(sctp[1], rrc[u]))
  PROVE  OldIsReleased'
<1>1. ASSUME NEW u \in UEs, NEW c \in Contexts, rrc'[u] # None, request'[u].kind = "service",
             nas'[c].ran = rrc'[u], nas'[c].oldAmf # None
      PROVE  gnb'[nas'[c].oldAmf] = Free \/ (request'[u].waits /\ Coming(nas[c].oldAmf, rrc[u])')
  <2>1. PICK s, r : s = nas[c].oldAmf /\ r = rrc[u]
    OBVIOUS
  <2>2. /\ rrc'[u] = r /\ nas[c].ran = r /\ nas'[c].oldAmf = s /\ s # None /\ r # None
        /\ request[u].kind = "service"
        /\ request[u].waits => request'[u].waits \/ (d = 1 /\ x = 4 /\ Reply(sctp[1], r))
    BY <1>1, <2>1
  <2>3. gnb'[s] = Free \/ (request'[u].waits /\ Coming(s, r)')
    BY <2>1, <2>2, OldFollows
  <2>4. rrc'[u] = r /\ nas'[c].oldAmf = s
    BY <2>2
  <2>5. QED
    BY ONLY <2>3, <2>4 DEF Coming, Ahead, Command, Reply
<1>2. QED
  BY <1>1 DEF OldIsReleased, None, Free

\* A message is put that is no answer: what it is.
LEMMA PutFlow ==
  ASSUME Types, NEW m, n2_queue' = Append(n2_queue, m), UNCHANGED <<app_queue, n1_queue, sctp>>
  PROVE  \E ms : DOMAIN ms = {1} /\ ms[1] = m /\ Flow(queues, queues', 0, 2, 1, ms)
<1>1. PICK ms : ms = <<m>>
  OBVIOUS
<1>2. DOMAIN ms = {1} /\ ms[1] = m
  BY ONLY <1>1
<1>3. /\ queues'[1] = Append(queues[1], m) /\ queues'[2] = queues[2]
      /\ queues'[3] = queues[3] /\ queues'[4] = queues[4]
  BY QueuesAre
<1>4. \A z \in Places : z \notin {2, 1} => queues'[z] = queues[z]
  BY ONLY <1>3, PlacesAre
<1>5. 0 \in {0, 1} /\ 0 # 1 /\ 2 # 1
  BY ONLY TRUE
<1>6. \E k : ms = <<k>> /\ queues'[1] = Append(queues[1], k)
  BY <1>1, <1>3
<1>7. Types
  OBVIOUS
<1>8. Flow(queues, queues', 0, 2, 1, ms)
  BY ONLY <1>3, <1>4, <1>5, <1>6, <1>7, PlacesAre, Flows
<1>9. QED
  BY <1>2, <1>8

\* What the SMF has is not touched.
LEMMA TransfersKept ==
  ASSUME PlainTransfers, UNCHANGED app_queue
  PROVE  PlainTransfers'
BY DEF PlainTransfers, None

\* The old connections stay what they are.
LEMMA OldIdsKept ==
  ASSUME OldIds, Ids \subseteq Ids',
         \A c \in Contexts : /\ nas'[c].oldRan = nas[c].oldRan /\ nas'[c].oldAmf = nas[c].oldAmf
                             /\ nas[c].ran # None => nas'[c].ran # None
  PROVE  OldIds'
BY DEF OldIds, None

\* A UE opens a connection.
LEMMA OpenHeld ==
  ASSUME Held, Inv', NEW u \in UEs, NEW what \in Requests, Open(u, what)
  PROVE  Held'
<1>1. PICK r : r = opened + 1
  OBVIOUS
<1>2. PICK m : m = Message("initial", r, None, what, u, guti'[u])
  OBVIOUS
<1>3. /\ rrc[u] = None /\ opened < MaxAmfId /\ opened' = r
      /\ gnb' = [gnb EXCEPT ![r] = [ue |-> u, amf |-> None]]
      /\ rrc' = [rrc EXCEPT ![u] = r]
      /\ guti' = guti \/ guti' = [guti EXCEPT ![u] = None]
      /\ request' = [request EXCEPT ![u] = [kind |-> what, waits |-> TRUE]]
      /\ n2_queue' = Append(n2_queue, m)
      /\ UNCHANGED <<app_queue, n1_queue, sctp, n2, app, n1>>
  BY <1>1, <1>2 DEF Open
<1>4. m.type = "initial" /\ m.ran = r /\ m.what = what
  BY <1>2 DEF Message
<1>5. UNCHANGED <<generated, supi2Id, amfueid2nas_context, nas>>
  BY <1>3 DEF app, n1
<1>6. /\ generated \in Nat /\ opened \in Nat /\ generated <= opened /\ r \in Nat
      /\ generated < r /\ opened < r /\ r \in RanIds /\ r # None
      /\ \A t \in Ids : t \in RanIds /\ t # r
  <2>1. generated \in Nat /\ opened \in Nat /\ generated <= opened /\ MaxAmfId \in Nat /\ opened < MaxAmfId
    BY <1>3, IdsAreAmfIds DEF Held, Inv, Order
  <2>2. \A t \in Ids : t \in RanIds
    BY IdsAreAmfIds DEF Held, Inv
  <2>3. QED
    BY <1>1, <2>1, <2>2 DEF RanIds, AmfIds, None, Ids
<1>7. /\ \A q \in RanIds : gnb'[q] = IF q = r THEN [ue |-> u, amf |-> None] ELSE gnb[q]
      /\ \A v \in UEs : rrc'[v] = IF v = u THEN r ELSE rrc[v]
      /\ \A v \in UEs : v # u => guti'[v] = guti[v] /\ request'[v] = request[v]
      /\ request'[u].waits /\ request'[u].kind = what
  <2>1. /\ gnb \in [RanIds -> Connections] /\ rrc \in [UEs -> RanIds \cup {None}]
        /\ guti \in [UEs -> Tmsi \cup {None}]
        /\ request \in [UEs -> [kind : Requests \cup {"none"}, waits : BOOLEAN]]
    BY DEF Held, Inv, Types, RadioTypes
  <2>2. \A q \in RanIds : gnb'[q] = IF q = r THEN [ue |-> u, amf |-> None] ELSE gnb[q]
    BY <1>3, <1>6, <2>1
  <2>3. \A v \in UEs : rrc'[v] = IF v = u THEN r ELSE rrc[v]
    BY <1>3, <2>1
  <2>4. \A v \in UEs : v # u => guti'[v] = guti[v]
    BY <1>3, <2>1
  <2>5. \A v \in UEs : request'[v] = IF v = u THEN [kind |-> what, waits |-> TRUE] ELSE request[v]
    BY <1>3, <2>1
  <2>6. QED
    BY <2>2, <2>3, <2>4, <2>5
<1>8. gnb'[r] # Free
  <2>1. u # None
    BY DEF UEs, None
  <2>2. gnb'[r].ue = u
    BY <1>6, <1>7
  <2>3. QED
    BY <2>1, <2>2 DEF Free
<1>9. PICK ms : DOMAIN ms = {1} /\ ms[1] = m /\ Flow(queues, queues', 0, 2, 1, ms)
  <2>1. Types
    BY DEF Held, Inv
  <2>2. QED
    BY <1>3, <2>1, PutFlow
<1>10. \A z \in Places : \A i \in DOMAIN queues[z] : ~Token(queues[z][i], r)
  <2> SUFFICES ASSUME NEW z \in Places, NEW i \in DOMAIN queues[z], queues[z][i].ran = r PROVE FALSE
    BY DEF Token
  <2>1. r <= opened
    BY NotOpened
  <2>2. QED
    BY ONLY <1>6, <2>1
<1>11. Talk'
  <2>1. OneMore(queues, 0, 2, ms)
    BY <1>4, <1>9, <1>10 DEF OneMore, Token
  <2>2. One(queues')
    BY <1>9, <2>1, OneKept DEF Held, Talk
  <2>3. ASSUME NEW v \in UEs
        PROVE  \A z \in Places : \A i \in DOMAIN queues'[z], w \in Whats :
                  rrc'[v] # None /\ Token(queues'[z][i], rrc'[v]) /\ queues'[z][i].what = w =>
                  Expects(v, w)'
    <3>1. CASE v = u
      <4> SUFFICES ASSUME NEW z \in Places, NEW i \in DOMAIN queues'[z], NEW w \in Whats,
                          Token(queues'[z][i], r), queues'[z][i].what = w
                   PROVE  Expects(v, w)'
        BY <1>7, <3>1
      <4>1. \/ \E j \in DOMAIN queues[z] : queues'[z][i] = queues[z][j]
            \/ \E k \in DOMAIN ms : queues'[z][i] = ms[k]
        BY <1>9, Origin
      <4>2. queues'[z][i] = m
        BY <1>9, <1>10, <4>1
      <4>3. w = what
        BY <1>4, <4>2
      <4>4. what # "deregister"
        BY DEF Requests
      <4>5. QED
        BY <1>7, <3>1, <4>3, <4>4 DEF Expects
    <3>2. CASE v # u
      <4>1. rrc'[v] = rrc[v] /\ guti'[v] = guti[v] /\ request'[v] = request[v]
        BY <1>7, <3>2
      <4>2. rrc[v] # r
        <5>1. rrc[v] \in 0..opened
          BY DEF Held, OneLink
        <5>2. QED
          BY ONLY <1>6, <5>1
      <4>3. \A w \in Whats : Expects(v, w) => Expects(v, w)'
        BY <4>1 DEF Expects
      <4>4. \A k \in DOMAIN ms : ~Token(ms[k], rrc[v])
        BY <1>4, <1>9, <4>2 DEF Token
      <4>5. ExpectsStill(v, queues, 0, 2, ms)
        BY <4>1, <4>3, <4>4 DEF ExpectsStill
      <4>6. ExpectedFor(queues, v)
        BY DEF Held, Talk, Expected
      <4>7. QED
        BY <1>9, <4>5, <4>6, ExpectedKept
    <3>3. QED
      BY <3>1, <3>2
  <2>4. QED
    BY <2>2, <2>3, TalkOf DEF Inv
<1>12. \A q \in Nat : Taken(q)' <=> Taken(q)
  BY <1>3, <1>5, TakenSame
<1>13. Later'
  <2>1. \A k \in DOMAIN ms : ms[k].type = "initial"
    BY <1>4, <1>9
  <2>2. \A q \in RanIds : gnb'[q].amf # None => gnb[q].amf # None
    BY <1>7
  <2>3. Types /\ Types' /\ Later
    BY DEF Held, Inv
  <2>4. \A z \in Places : \A i \in DOMAIN queues[z] : queues[z][i].ran \in Nat
    BY <2>3, QueueNumbers
  <2>5. QED
    BY <1>5, <1>9, <1>12, <2>1, <2>2, <2>3, <2>4, LaterKept
<1>14. End'
  <2>1. ResetFrees /\ FreeIsReset /\ ForgottenIsFree /\ EndIsTold /\ AskedHasContext
    BY DEF Held, End
  <2>2. PICK e, new : /\ Shift(n2_queue, n2_queue', e, new) /\ e = 0 /\ \A k \in new : k = m
                      /\ m \in new
    <3>1. PICK e, new : /\ Shift(n2_queue, n2_queue', e, new)
                        /\ e \in {0, 1} /\ (e = 1 => 0 = 1 /\ 2 = 1)
                        /\ \A k \in new : 1 = 1 /\ \E l \in DOMAIN ms : k = ms[l]
                        /\ 1 = 1 => \A k \in DOMAIN ms : ms[k] \in new
      BY <1>9, N2Shift
    <3>2. e = 0
      BY ONLY <3>1
    <3>3. QED
      BY <1>9, <3>1, <3>2
  <2>3. First(m, r)
    BY <1>4 DEF First
  <2>4. ResetFrees'
    <3>1. \A k \in new : k.type # "reset"
      BY <1>4, <2>2
    <3>2. \A q \in RanIds : gnb'[q] # Free => gnb[q] # Free \/ \E k \in new : First(k, q)
      BY <1>7, <2>2, <2>3
    <3>3. QED
      BY <2>1, <2>2, <3>1, <3>2, ResetFreesKept
  <2>5. FreeIsReset'
    <3>1. \A k \in new : k.type = "initial" => gnb'[k.ran] # Free
      BY <1>4, <1>8, <2>2
    <3>2. ASSUME NEW i \in DOMAIN n2_queue, n2_queue[i].type = "initial", gnb'[n2_queue[i].ran] = Free
          PROVE  gnb[n2_queue[i].ran] = Free
      <4>1. n2_queue[i].ran # r
        BY <1>8, <3>2
      <4>2. Fresh(n2_queue[i])
        BY <3>2 DEF Held, Inv, AllMessages, N2Message
      <4>3. n2_queue[i].ran \in (generated + 1)..opened
        BY <4>2 DEF Fresh
      <4>4. generated \in 1..MaxAmfId /\ opened \in 1..MaxAmfId /\ RanIds = 1..MaxAmfId /\ MaxAmfId \in Nat
        BY DEF Held, Inv, Types, AppTypes, RadioTypes, RanIds, AmfIds
      <4>5. n2_queue[i].ran \in RanIds
        BY ONLY <4>3, <4>4
      <4>6. QED
        BY <1>7, <3>2, <4>1, <4>5
    <3>3. QED
      BY <2>1, <2>2, <3>1, <3>2, FreeIsResetKept
  <2>6. KnownByBoth' /\ \A q \in RanIds : ranid2uecontext'[q].known = ranid2uecontext[q].known
    BY <1>3, <1>5, KnownKept
  <2>7. ForgottenIsFree'
    <3>1. \A q \in RanIds : gnb[q] = Free => gnb'[q] = Free \/ \E k \in new : First(k, q)
      BY <1>7, <2>2, <2>3
    <3>2. QED
      BY <2>1, <2>2, <2>6, <3>1, ForgottenIsFreeKept
  <2>8. EndIsTold'
    <3>1. \A q \in RanIds : gnb'[q] = Free => gnb[q] = Free
      BY <1>7, <1>8
    <3>2. \A q \in RanIds : Taken(q) => Taken(q)'
      BY <1>12, IdsAreAmfIds DEF Held, Inv
    <3>3. e # 1
      BY ONLY <2>2
    <3>4. ASSUME NEW q \in RanIds, ranid2uecontext'[q].known, gnb'[q] = Free
          PROVE  /\ ranid2uecontext[q].known /\ gnb[q] = Free
                 /\ Taken(q) /\ amfueid2nas_context[q] = None =>
                       Taken(q)' /\ amfueid2nas_context'[q] = None
      BY <1>5, <2>6, <3>1, <3>2, <3>4
    <3>5. QED
      BY ONLY <2>1, <2>2, <3>3, <3>4, EndIsToldKept
  <2>9. AskedHasContext'
    <3>1. \A q \in RanIds : LostContext(q)' => LostContext(q)
      BY <1>5, <1>12, <2>6, IdsAreAmfIds DEF Held, Inv, LostContext, None
    <3>2. \A k \in DOMAIN ms : ms[k].what \notin {"identify", "identity"}
      BY <1>4, <1>9 DEF Requests
    <3>3. QED
      BY <1>9, <2>1, <3>1, <3>2, AskedKept DEF Question
  <2>10. QED
    BY <2>4, <2>5, <2>6, <2>7, <2>8, <2>9 DEF End
<1>15. OneLink'
  <2>1. \A v \in UEs : v # u => rrc[v] \in 0..opened /\ rrc'[v] = rrc[v] /\ rrc[v] # r
    <3>1. \A v \in UEs : rrc[v] \in 0..opened
      BY DEF Held, OneLink
    <3>2. QED
      BY <1>6, <1>7, <3>1
  <2>2. rrc'[u] = r
    BY <1>7
  <2>3. \A v \in UEs : rrc'[v] \in 0..r
    BY <1>6, <2>1, <2>2
  <2>4. \A v, w \in UEs : rrc'[v] # None /\ rrc'[w] = rrc'[v] => w = v
    BY <2>1, <2>2 DEF Held, OneLink
  <2>5. QED
    BY <1>3, <2>3, <2>4 DEF OneLink, None
<1>16. OldIds' /\ PlainTransfers'
  BY <1>3, <1>5, OldIdsKept, TransfersKept DEF Held, Ids
<1>17. OldIsReleased'
  <2>1. \A t \in Ids : gnb[t] = Free => gnb'[t] = Free
    BY <1>6, <1>7
  <2>2. \A c \in Contexts : nas[c].ran # r
    <3>1. \A c \in Contexts : nas[c].ran # None => nas[c].ran <= generated
      BY DEF Held, Later, LaterTables, Taken
    <3>2. QED
      BY <1>6, <3>1
  <2>3. ASSUME NEW v \in UEs, NEW c \in Contexts, nas'[c].ran = rrc'[v]
        PROVE  rrc'[v] = rrc[v] /\ request'[v] = request[v] /\ nas'[c] = nas[c]
    BY <1>5, <1>7, <2>2, <2>3
  <2>4. 0 # 1 /\ 1 # 4
    BY ONLY TRUE
  <2>5. QED
    BY <1>9, <2>1, <2>3, <2>4, OldsFollow
<1>18. QED
  BY <1>11, <1>13, <1>14, <1>15, <1>16, <1>17 DEF Held

\* A UE deregisters.
LEMMA DeregisterHeld ==
  ASSUME Held, Inv', NEW u \in UEs, Deregister(u)
  PROVE  Held'
<1>1. PICK r : r = rrc[u]
  OBVIOUS
<1>2. PICK m : m = Message("uplink", r, gnb[r].amf, "deregister", u, guti[u])
  OBVIOUS
<1>3. /\ r # None /\ guti[u] # None /\ ~request[u].waits /\ gnb[r].amf # None
      /\ n2_queue' = Append(n2_queue, m) /\ guti' = [guti EXCEPT ![u] = None]
      /\ UNCHANGED <<app_queue, n1_queue, sctp, n2, app, n1, gnb, rrc, request, opened>>
  BY <1>1, <1>2 DEF Deregister
<1>4. m.type = "uplink" /\ m.ran = r /\ m.what = "deregister"
  BY <1>2 DEF Message
<1>5. UNCHANGED <<generated, supi2Id, amfueid2nas_context, nas>>
  BY <1>3 DEF app, n1
<1>6. guti'[u] = None /\ \A v \in UEs : v # u => guti'[v] = guti[v]
  <2>1. guti \in [UEs -> Tmsi \cup {None}]
    BY DEF Held, Inv, Types, RadioTypes
  <2>2. QED
    BY <1>3, <2>1
<1>7. r \in RanIds /\ Taken(r)
  BY <1>1, <1>3 DEF Held, Inv, Types, RadioTypes, Later, LaterTables
<1>8. PICK ms : DOMAIN ms = {1} /\ ms[1] = m /\ Flow(queues, queues', 0, 2, 1, ms)
  <2>1. Types
    BY DEF Held, Inv
  <2>2. QED
    BY <1>3, <2>1, PutFlow
<1>9. \A z \in Places : \A i \in DOMAIN queues[z] : ~Token(queues[z][i], r)
  <2> SUFFICES ASSUME NEW z \in Places, NEW i \in DOMAIN queues[z], Token(queues[z][i], r) PROVE FALSE
    OBVIOUS
  <2>1. Expects(u, queues[z][i].what)
    BY <1>1, <1>3 DEF Held, Talk, Expected, ExpectedFor
  <2>2. QED
    BY <1>3, <2>1 DEF Expects
<1>10. Talk'
  <2>1. OneMore(queues, 0, 2, ms)
    BY <1>4, <1>8, <1>9 DEF OneMore, Token
  <2>2. ASSUME NEW v \in UEs, rrc'[v] # None PROVE ExpectsStill(v, queues, 0, 2, ms)
    <3>1. rrc'[v] = rrc[v] /\ request'[v] = request[v]
      BY <1>3
    <3>2. CASE v = u
      <4>1. \A k \in DOMAIN ms, what \in Whats :
               Token(ms[k], rrc[v]) /\ ms[k].what = what => Expects(v, what)'
        BY <1>4, <1>6, <1>8, <3>2 DEF Expects
      <4>2. QED
        BY <1>1, <1>9, <3>1, <3>2, <4>1 DEF ExpectsStill
    <3>3. CASE v # u
      <4>1. rrc[v] # r
        BY <1>1, <1>3, <3>3 DEF Held, OneLink
      <4>2. \A what \in Whats : Expects(v, what) => Expects(v, what)'
        BY <1>6, <3>1, <3>3 DEF Expects
      <4>3. \A k \in DOMAIN ms : ~Token(ms[k], rrc[v])
        BY <1>4, <1>8, <4>1 DEF Token
      <4>4. QED
        BY <3>1, <4>2, <4>3 DEF ExpectsStill
    <3>4. QED
      BY <3>2, <3>3
  <2>3. Types'
    BY DEF Inv
  <2>4. QED
    BY <1>8, <2>1, <2>2, <2>3, TalkKept
<1>11. \A q \in Nat : Taken(q)' <=> Taken(q)
  BY <1>3, <1>5, TakenSame
<1>12. Types /\ Types' /\ Later /\ \A q \in RanIds : q \in Nat
  BY QueueNumbers DEF Held, Inv
<1>13. Later'
  <2>1. \A k \in DOMAIN ms : Taken(ms[k].ran)'
    BY <1>4, <1>7, <1>8, <1>11, <1>12
  <2>2. \A z \in Places : \A i \in DOMAIN queues[z] : queues[z][i].ran \in Nat
    BY <1>12, QueueNumbers
  <2>3. QED
    BY <1>3, <1>5, <1>8, <1>11, <1>12, <2>1, <2>2, LaterKept
<1>14. End'
  <2>1. KnownByBoth' /\ \A q \in RanIds : ranid2uecontext'[q].known = ranid2uecontext[q].known
    BY <1>3, <1>5, KnownKept
  <2>2. \A k \in DOMAIN ms : ms[k].type \notin {"initial", "reset"}
    BY <1>4, <1>8
  <2>3. \A q \in RanIds : LostContext(q)' => LostContext(q)
    BY <1>5, <1>11, <1>12, <2>1 DEF LostContext, None
  <2>4. \A q \in RanIds : \A k \in DOMAIN ms : ~Question(ms[k], q)
    BY <1>4, <1>8 DEF Question
  <2>5. \A q \in RanIds : Taken(q) /\ amfueid2nas_context[q] = None =>
           Taken(q)' /\ amfueid2nas_context'[q] = None
    BY <1>5, <1>11, <1>12
  <2>6. 0 # 1
    BY ONLY TRUE
  <2>7. \A q \in RanIds : gnb'[q] = Free <=> gnb[q] = Free
    BY <1>3
  <2>8. Held
    OBVIOUS
  <2>9. QED
    BY ONLY <1>8, <2>1, <2>2, <2>3, <2>4, <2>5, <2>6, <2>7, <2>8, EndKept
<1>15. OneLink'
  BY <1>3, <1>12, LinksKept DEF Held
<1>16. OldIds' /\ PlainTransfers'
  BY <1>3, <1>5, OldIdsKept, TransfersKept DEF Held, Ids
<1>17. OldIsReleased'
  <2>1. 0 # 1 /\ 1 # 4
    BY ONLY TRUE
  <2>2. QED
    BY <1>3, <1>5, <1>8, <2>1, OldsFollow
<1>18. QED
  BY <1>10, <1>13, <1>14, <1>15, <1>16, <1>17 DEF Held

\* The gNB resets N2.
LEMMA ResetHeld ==
  ASSUME Held, Inv', Reset
  PROVE  Held'
<1>1. PICK m : m = Ngap("reset", None, None)
  OBVIOUS
<1>2. /\ gnb' = [r \in RanIds |-> Free] /\ rrc' = [u \in UEs |-> None]
      /\ n2_queue' = Append(n2_queue, m)
      /\ UNCHANGED <<app_queue, n1_queue, sctp, n2, app, n1, guti, opened>>
  BY <1>1 DEF Reset
<1>3. m.type = "reset" /\ m.ran = None /\ m.what = "none"
  BY <1>1 DEF Ngap, Message
<1>4. UNCHANGED <<generated, supi2Id, amfueid2nas_context, nas>>
  BY <1>2 DEF app, n1
<1>5. Types /\ Types' /\ Later /\ \A q \in RanIds : q \in Nat /\ q # None
  BY QueueNumbers DEF Held, Inv
<1>6. PICK ms : DOMAIN ms = {1} /\ ms[1] = m /\ Flow(queues, queues', 0, 2, 1, ms)
  BY <1>2, <1>5, PutFlow
<1>7. (\A r \in RanIds : gnb'[r] = Free) /\ (\A u \in UEs : rrc'[u] = None)
  BY <1>2
<1>8. Talk'
  <2>1. OneMore(queues, 0, 2, ms)
    BY <1>3, <1>5, <1>6 DEF OneMore, Token
  <2>2. QED
    BY <1>5, <1>6, <1>7, <2>1, TalkKept
<1>9. \A q \in Nat : Taken(q)' <=> Taken(q)
  BY <1>2, <1>4, TakenSame
<1>10. Later'
  <2>1. \A k \in DOMAIN ms : ms[k].ran = None
    BY <1>3, <1>6
  <2>2. \A z \in Places : \A i \in DOMAIN queues[z] : queues[z][i].ran \in Nat
    BY <1>5, QueueNumbers
  <2>3. \A r \in RanIds : gnb'[r].amf = None
    BY <1>7 DEF Free
  <2>4. QED
    BY <1>4, <1>5, <1>6, <1>9, <2>1, <2>2, <2>3, LaterKept
<1>11. End'
  <2>1. ResetFrees /\ FreeIsReset /\ ForgottenIsFree /\ EndIsTold /\ AskedHasContext
    BY DEF Held, End
  <2>2. PICK e, new : /\ Shift(n2_queue, n2_queue', e, new) /\ \A k \in new : k = m
                      /\ m \in new
    <3>1. PICK e, new : /\ Shift(n2_queue, n2_queue', e, new)
                        /\ \A k \in new : 1 = 1 /\ \E l \in DOMAIN ms : k = ms[l]
                        /\ 1 = 1 => \A k \in DOMAIN ms : ms[k] \in new
      BY <1>6, N2Shift
    <3>2. QED
      BY <1>6, <3>1
  <2>3. ResetFrees'
    <3>1. \A i \in DOMAIN n2_queue', r \in RanIds :
             n2_queue'[i].type = "reset" /\ gnb'[r] # Free => FALSE
      BY <1>7
    <3>2. QED
      BY <3>1 DEF ResetFrees, Free
  <2>4. FreeIsReset'
    <3>1. \A k \in new : k.type # "initial"
      BY <1>3, <2>2
    <3>2. \E k \in new : k.type = "reset"
      BY <1>3, <2>2
    <3>3. QED
      BY <2>1, <2>2, <3>1, <3>2, FreeIsResetKept
  <2>5. ForgottenIsFree'
    BY <1>7 DEF ForgottenIsFree, Free
  <2>6. KnownByBoth' /\ \A q \in RanIds : ranid2uecontext'[q].known = ranid2uecontext[q].known
    BY <1>2, <1>4, KnownKept
  <2>7. EndIsTold'
    <3>1. \E k \in new : k.type = "reset"
      BY <1>3, <2>2
    <3>2. QED
      BY <2>1, <2>2, <3>1, EndIsToldKept
  <2>8. AskedHasContext'
    <3>1. \A q \in RanIds : LostContext(q)' => LostContext(q)
      BY <1>4, <1>5, <1>9, <2>6 DEF LostContext, None
    <3>2. \A q \in RanIds : \A k \in DOMAIN ms : ~Question(ms[k], q)
      BY <1>3, <1>6 DEF Question
    <3>3. QED
      BY <1>6, <2>1, <3>1, <3>2, AskedKept
  <2>9. QED
    BY <2>3, <2>4, <2>5, <2>6, <2>7, <2>8 DEF End
<1>12. OneLink'
  BY <1>2, <1>5, <1>7, LinksKept DEF Held
<1>13. OldIds' /\ PlainTransfers'
  BY <1>2, <1>4, OldIdsKept, TransfersKept DEF Held, Ids
<1>14. OldIsReleased'
  BY <1>7 DEF OldIsReleased, None
<1>15. QED
  BY <1>8, <1>10, <1>11, <1>12, <1>13, <1>14 DEF Held

\* The gNB takes a message, and answers or not.
LEMMA GnbFlow ==
  ASSUME Types, sctp # <<>>, sctp' = Tail(sctp), UNCHANGED <<app_queue, n1_queue>>,
         NEW p \in BOOLEAN, NEW m, n2_queue' = IF p THEN Append(n2_queue, m) ELSE n2_queue
  PROVE  /\ \E ms : /\ p => DOMAIN ms = {1} /\ ms[1] = m
                    /\ ~p => DOMAIN ms = {}
                    /\ Flow(queues, queues', 1, 4, 1, ms)
         /\ queues[4] = sctp /\ 1 \in DOMAIN queues[4] /\ sctp[1] = Head(sctp)
<1>1. PICK ms : ms = IF p THEN <<m>> ELSE <<>>
  OBVIOUS
<1>2. (p => DOMAIN ms = {1} /\ ms[1] = m) /\ (~p => DOMAIN ms = {})
  BY ONLY <1>1
<1>3. /\ queues'[4] = Tail(queues[4]) /\ queues[4] # <<>> /\ queues'[2] = queues[2]
      /\ queues'[3] = queues[3] /\ queues[4] = sctp /\ queues'[1] = n2_queue' /\ queues[1] = n2_queue
  BY QueuesAre
<1>4. \A z \in Places : z \notin {4, 1} => queues'[z] = queues[z]
  BY ONLY <1>3, PlacesAre
<1>5. 1 \in {0, 1} /\ 0 # 1 /\ 4 # 1
  BY ONLY TRUE
<1>6. \/ ms = <<>> /\ queues'[1] = queues[1]
      \/ \E k : ms = <<k>> /\ queues'[1] = Append(queues[1], k)
  BY <1>1, <1>3
<1>7. Types
  OBVIOUS
<1>8. Flow(queues, queues', 1, 4, 1, ms)
  BY ONLY <1>3, <1>4, <1>5, <1>6, <1>7, PlacesAre, Flows
<1>9. 1 \in DOMAIN queues[4] /\ Head(queues[4]) = queues[4][1]
  BY <1>3, <1>7, PlacesAre, HeadIs
<1>10. QED
  BY <1>2, <1>3, <1>8, <1>9

\* The gNB releases a connection.
LEMMA ReleaseStepHeld ==
  ASSUME Held, Inv', Release
  PROVE  Held'
<1>1. PICK h, u, p : h = Head(sctp) /\ u = gnb[h.ran].ue /\ p = Matches(h)
  OBVIOUS
<1>2. PICK m : m = Ngap("release complete", h.ran, h.amf)
  OBVIOUS
<1>3. p \in BOOLEAN /\ (p <=> gnb[h.ran] # Free /\ gnb[h.ran].amf \in {None, h.amf})
  BY <1>1 DEF Matches
<1>4. /\ sctp # <<>> /\ h.type = "release command" /\ sctp' = Tail(sctp)
      /\ n2_queue' = IF p THEN Append(n2_queue, m) ELSE n2_queue
      /\ gnb' = IF p THEN [gnb EXCEPT ![h.ran] = Free] ELSE gnb
      /\ \/ UNCHANGED <<rrc, request>>
         \/ rrc' = [rrc EXCEPT ![u] = None] /\ request' = [request EXCEPT ![u] = Idle]
      /\ UNCHANGED <<app_queue, n1_queue, n2, app, n1, guti, opened>>
  BY <1>1, <1>2 DEF Release
<1>5. h.ran = h.amf /\ h.amf \in Ids /\ h.ran \in RanIds
  BY <1>1, <1>4, SctpHead, IdsAreAmfIds DEF Held, Inv, Paired
<1>6. m.type = "release complete" /\ m.ran = h.ran /\ m.what = "none" /\ m.tmsi = None
  BY <1>2 DEF Ngap, Message
<1>7. UNCHANGED <<generated, supi2Id, amfueid2nas_context, nas>>
  BY <1>4 DEF app, n1
<1>8. Types /\ Types' /\ Later /\ \A q \in RanIds : q \in Nat /\ q # None
  BY QueueNumbers DEF Held, Inv
<1>9. /\ \A q \in RanIds : gnb'[q] = IF p /\ q = h.ran THEN Free ELSE gnb[q]
      /\ \A v \in UEs : rrc'[v] = None \/ (rrc'[v] = rrc[v] /\ request'[v] = request[v])
  <2>1. /\ gnb \in [RanIds -> Connections] /\ rrc \in [UEs -> RanIds \cup {None}]
        /\ request \in [UEs -> [kind : Requests \cup {"none"}, waits : BOOLEAN]]
    BY <1>8 DEF Types, RadioTypes
  <2>2. \A q \in RanIds : gnb'[q] = IF p /\ q = h.ran THEN Free ELSE gnb[q]
    BY <1>3, <1>4, <2>1
  <2>3. \A v \in UEs : rrc'[v] = None \/ (rrc'[v] = rrc[v] /\ request'[v] = request[v])
    BY <1>4, <2>1
  <2>4. QED
    BY <2>2, <2>3
<1>10. gnb'[h.ran] = Free
  <2>1. ~p => gnb[h.ran] = Free
    BY <1>3, <1>5 DEF Held, Inv, Own, OwnRadio
  <2>2. QED
    BY <1>5, <1>9, <2>1
<1>11. PICK ms : /\ p => DOMAIN ms = {1} /\ ms[1] = m
                 /\ ~p => DOMAIN ms = {}
                 /\ Flow(queues, queues', 1, 4, 1, ms)
                 /\ queues[4] = sctp /\ 1 \in DOMAIN queues[4] /\ sctp[1] = h
  <2>1. Types /\ p \in BOOLEAN /\ sctp # <<>> /\ sctp' = Tail(sctp) /\ UNCHANGED <<app_queue, n1_queue>>
        /\ n2_queue' = IF p THEN Append(n2_queue, m) ELSE n2_queue
    BY <1>3, <1>4, <1>8
  <2>2. /\ \E ms : /\ p => DOMAIN ms = {1} /\ ms[1] = m
                   /\ ~p => DOMAIN ms = {}
                   /\ Flow(queues, queues', 1, 4, 1, ms)
        /\ queues[4] = sctp /\ 1 \in DOMAIN queues[4] /\ sctp[1] = Head(sctp)
    BY ONLY <2>1, GnbFlow
  <2>3. QED
    BY <1>1, <2>2
<1>12. \A k \in DOMAIN ms : ms[k] = m
  BY <1>3, <1>11
<1>13. Talk'
  <2>1. \A k \in DOMAIN ms : ms[k].what \notin Talks /\ ms[k].tmsi = None
    BY <1>6, <1>12 DEF Talks, Requests
  <2>2. OneMore(queues, 1, 4, ms)
    BY <2>1 DEF OneMore, Token
  <2>3. ASSUME NEW v \in UEs, rrc'[v] # None PROVE ExpectsStill(v, queues, 1, 4, ms)
    <3>1. rrc'[v] = rrc[v] /\ request'[v] = request[v] /\ guti'[v] = guti[v]
      BY <1>4, <1>9, <2>3
    <3>2. \A what \in Whats : Expects(v, what) => Expects(v, what)'
      BY <3>1 DEF Expects
    <3>3. QED
      BY <2>1, <3>1, <3>2 DEF ExpectsStill, Token
  <2>4. QED
    BY <1>8, <1>11, <2>2, <2>3, TalkKept
<1>14. \A q \in Nat : Taken(q)' <=> Taken(q)
  BY <1>4, <1>7, TakenSame
<1>15. Taken(h.ran)
  <2>1. queues[4][1].type # "initial" /\ queues[4][1].ran # None
    BY <1>4, <1>5, <1>8, <1>11
  <2>2. QED
    BY <1>11, <2>1, PlacesAre, HeadTaken
<1>16. Later'
  <2>1. \A k \in DOMAIN ms : Taken(ms[k].ran)'
    BY <1>5, <1>6, <1>8, <1>12, <1>14, <1>15
  <2>2. \A z \in Places : \A i \in DOMAIN queues[z] : queues[z][i].ran \in Nat
    BY <1>8, QueueNumbers
  <2>3. \A r \in RanIds : gnb'[r].amf # None => gnb[r].amf # None
    BY <1>9 DEF Free
  <2>4. QED
    BY <1>7, <1>8, <1>11, <1>14, <2>1, <2>2, <2>3, LaterKept
<1>17. End'
  <2>1. ResetFrees /\ FreeIsReset /\ ForgottenIsFree /\ EndIsTold /\ AskedHasContext
    BY DEF Held, End
  <2>2. PICK e, new : /\ Shift(n2_queue, n2_queue', e, new) /\ e = 0 /\ \A k \in new : k = m
                      /\ p => m \in new
    <3>1. PICK e, new : /\ Shift(n2_queue, n2_queue', e, new)
                        /\ e \in {0, 1} /\ (e = 1 => 1 = 1 /\ 4 = 1)
                        /\ \A k \in new : 1 = 1 /\ \E l \in DOMAIN ms : k = ms[l]
                        /\ 1 = 1 => \A k \in DOMAIN ms : ms[k] \in new
      <4>1. Flow(queues, queues', 1, 4, 1, ms)
        BY <1>11
      <4>2. QED
        BY ONLY <4>1, N2Shift
    <3>2. e = 0
      BY ONLY <3>1
    <3>3. QED
      BY <1>11, <1>12, <3>1, <3>2
  <2>3. e # 1
    BY ONLY <2>2
  <2>4. \A k \in new : k.type = "release complete" /\ k.ran = h.ran
    BY <1>6, <2>2
  <2>5. \A q \in RanIds : /\ gnb[q] = Free => gnb'[q] = Free
                          /\ gnb'[q] = Free => gnb[q] = Free \/ (q = h.ran /\ p)
    BY <1>9
  <2>6. ResetFrees'
    BY <2>1, <2>2, <2>4, <2>5, ResetFreesKept
  <2>7. FreeIsReset'
    <3>1. \A k \in new : k.type # "initial"
      BY <2>4
    <3>2. ASSUME NEW i \in DOMAIN n2_queue, n2_queue[i].type = "initial", gnb'[n2_queue[i].ran] = Free
          PROVE  gnb[n2_queue[i].ran] = Free
      <4>1. Fresh(n2_queue[i])
        BY <3>2 DEF Held, Inv, AllMessages, N2Message
      <4>2. n2_queue[i].ran \in (generated + 1)..opened
        BY <4>1 DEF Fresh
      <4>3. generated \in 1..MaxAmfId /\ opened \in 1..MaxAmfId /\ RanIds = 1..MaxAmfId /\ MaxAmfId \in Nat
            /\ h.ran \in 1..generated
        BY <1>5 DEF Held, Inv, Types, AppTypes, RadioTypes, RanIds, AmfIds, Ids
      <4>4. n2_queue[i].ran \in RanIds /\ n2_queue[i].ran # h.ran
        BY ONLY <4>2, <4>3
      <4>5. QED
        BY <2>5, <3>2, <4>4
    <3>3. QED
      BY <2>1, <2>2, <3>1, <3>2, FreeIsResetKept
  <2>8. KnownByBoth' /\ \A q \in RanIds : ranid2uecontext'[q].known = ranid2uecontext[q].known
    BY <1>4, <1>7, KnownKept
  <2>9. ForgottenIsFree'
    BY <2>1, <2>2, <2>3, <2>5, <2>8, ForgottenIsFreeKept
  <2>10. EndIsTold'
    <3>1. ASSUME NEW q \in RanIds, ranid2uecontext'[q].known, gnb'[q] = Free
          PROVE  \/ /\ ranid2uecontext[q].known /\ gnb[q] = Free
                    /\ Taken(q) /\ amfueid2nas_context[q] = None =>
                          Taken(q)' /\ amfueid2nas_context'[q] = None
                 \/ \E k \in new : k.type = "release complete" /\ k.ran = q
      <4>1. CASE q = h.ran /\ p
        BY <2>2, <2>4, <4>1
      <4>2. CASE gnb[q] = Free
        BY <1>7, <1>8, <1>14, <2>8, <3>1, <4>2
      <4>3. QED
        BY <2>5, <3>1, <4>1, <4>2
    <3>2. \A r \in RanIds : ranid2uecontext'[r].known /\ gnb'[r] = Free =>
            \/ /\ ranid2uecontext[r].known /\ gnb[r] = Free
               /\ e = 1 => n2_queue[1].type # "reset"
               /\ e = 1 /\ n2_queue[1].type = "release complete" /\ n2_queue[1].ran = r =>
                     Taken(r)' /\ amfueid2nas_context'[r] = None
               /\ Taken(r) /\ amfueid2nas_context[r] = None =>
                     Taken(r)' /\ amfueid2nas_context'[r] = None
            \/ \E k \in new : k.type = "reset" \/ (k.type = "release complete" /\ k.ran = r)
            \/ \E i \in DOMAIN n2_queue : i > e /\ n2_queue[i].type = "reset"
      BY <2>3, <3>1
    <3>3. EndIsTold /\ Shift(n2_queue, n2_queue', e, new)
      BY <2>1, <2>2
    <3>4. QED
      BY ONLY <3>2, <3>3, EndIsToldKept
  <2>11. AskedHasContext'
    <3>1. \A q \in RanIds : LostContext(q)' => LostContext(q)
      BY <1>7, <1>8, <1>14, <2>8 DEF LostContext, None
    <3>2. \A q \in RanIds : \A k \in DOMAIN ms : ~Question(ms[k], q)
      BY <1>6, <1>12 DEF Question
    <3>3. QED
      BY <1>11, <2>1, <3>1, <3>2, AskedKept
  <2>12. QED
    BY <2>6, <2>7, <2>8, <2>9, <2>10, <2>11 DEF End
<1>18. OneLink'
  BY <1>4, <1>8, <1>9, LinksKept DEF Held
<1>19. OldIds' /\ PlainTransfers'
  BY <1>4, <1>7, OldIdsKept, TransfersKept DEF Held, Ids
<1>20. OldIsReleased'
  <2>1. 4 # 1 /\ 1 # 4
    BY ONLY TRUE
  <2>2. \A t \in Ids : t \in RanIds
    BY <1>8, IdsAreAmfIds
  <2>3. \A t \in Ids : Command(sctp[1], t) => gnb'[t] = Free
    BY <1>10, <1>11 DEF Command
  <2>4. \A t \in Ids : gnb[t] = Free => gnb'[t] = Free
    BY <1>9, <2>2
  <2>5. \A v \in UEs, c \in Contexts : rrc'[v] # None =>
           rrc'[v] = rrc[v] /\ request'[v] = request[v] /\ nas'[c] = nas[c]
    BY <1>7, <1>9
  <2>6. Held /\ Flow(queues, queues', 1, 4, 1, ms)
    BY <1>11
  <2>7. QED
    BY ONLY <2>1, <2>3, <2>4, <2>5, <2>6, OldsFollow
<1>21. QED
  BY <1>13, <1>16, <1>17, <1>18, <1>19, <1>20 DEF Held

\* A UE is told something.
LEMMA DeliverStepHeld ==
  ASSUME Held, Inv', Deliver
  PROVE  Held'
<1>1. PICK h, u : h = Head(sctp) /\ u = gnb[h.ran].ue
  OBVIOUS
<1>2. PICK heard, a : /\ heard = (Matches(h) /\ h.ue \in {None, u} /\ rrc[u] = h.ran)
                      /\ a = CASE h.what = "challenge" -> "complete"
                               [] h.what = "identify" -> "identity"
                               [] OTHER -> "none"
  OBVIOUS
<1>3. PICK m, p : /\ m = Message("uplink", h.ran, h.amf, a, u, None)
                  /\ p = (heard /\ a # "none")
  OBVIOUS
<1>4. /\ sctp # <<>> /\ h.type \in {"downlink", "setup"} /\ sctp' = Tail(sctp)
      /\ gnb' = IF Matches(h) THEN [gnb EXCEPT ![h.ran].amf = h.amf] ELSE gnb
      /\ request' = IF heard /\ h.what \in {"accept", "reject"}
                    THEN [request EXCEPT ![u].waits = FALSE] ELSE request
      /\ guti' = IF heard /\ (h.what = "reject" \/ h.tmsi # None)
                 THEN [guti EXCEPT ![u] = h.tmsi] ELSE guti
      /\ n2_queue' = IF p THEN Append(n2_queue, m) ELSE n2_queue
      /\ UNCHANGED <<app_queue, n1_queue, n2, app, n1, rrc, opened>>
  BY <1>1, <1>2, <1>3 DEF Deliver
<1>5. h.ran = h.amf /\ h.amf \in Ids /\ h.ran \in RanIds /\ h.ran # None
  BY <1>1, <1>4, SctpHead, IdsAreAmfIds DEF Held, Inv, Paired
<1>6. m.type = "uplink" /\ m.ran = h.ran /\ m.what = a /\ m.tmsi = None
  BY <1>3 DEF Message
<1>7. UNCHANGED <<generated, supi2Id, amfueid2nas_context, nas>>
  BY <1>4 DEF app, n1
<1>8. Types /\ Types' /\ Later /\ \A q \in RanIds : q \in Nat /\ q # None
  BY QueueNumbers DEF Held, Inv
<1>9. /\ heard \in BOOLEAN /\ p \in BOOLEAN /\ (p => heard)
      /\ p => \/ h.what = "challenge" /\ a = "complete"
              \/ h.what = "identify" /\ a = "identity"
  <2>1. heard \in BOOLEAN /\ p \in BOOLEAN /\ (p => heard)
    BY <1>2, <1>3
  <2>2. a # "none" => \/ h.what = "challenge" /\ a = "complete"
                      \/ h.what = "identify" /\ a = "identity"
    BY <1>2
  <2>3. QED
    BY <1>3, <2>1, <2>2
<1>10. /\ \A r \in RanIds : gnb'[r] = Free <=> gnb[r] = Free
       /\ \A r \in RanIds : gnb'[r].amf # None => gnb[r].amf # None \/ r = h.ran
  <2>1. gnb \in [RanIds -> Connections]
    BY <1>8 DEF Types, RadioTypes
  <2>2. CASE ~Matches(h)
    BY <1>4, <2>2
  <2>3. CASE Matches(h)
    <3>1. gnb[h.ran] # Free
      BY <2>3 DEF Matches
    <3>2. \A r \in RanIds : r # h.ran => gnb'[r] = gnb[r]
      BY <1>4, <2>1, <2>3
    <3>3. gnb'[h.ran].amf = h.amf
      BY <1>4, <1>5, <2>1, <2>3 DEF Connections
    <3>4. gnb'[h.ran] # Free
      BY <1>5, <3>3 DEF Free
    <3>5. QED
      BY <3>1, <3>2, <3>4
  <2>4. QED
    BY <2>2, <2>3
<1>11. ASSUME NEW v \in UEs
       PROVE  /\ rrc'[v] = rrc[v] /\ request'[v].kind = request[v].kind
              /\ request'[v].waits = request[v].waits \/ (rrc[v] = h.ran /\ h.what \in {"accept", "reject"})
              /\ guti'[v] = guti[v] \/ (rrc[v] = h.ran /\ (h.what = "reject" \/ h.tmsi # None))
  <2>1. /\ guti \in [UEs -> Tmsi \cup {None}]
        /\ request \in [UEs -> [kind : Requests \cup {"none"}, waits : BOOLEAN]]
    BY <1>8 DEF Types, RadioTypes
  <2>2. rrc'[v] = rrc[v]
    BY <1>4
  <2>3. heard => rrc[u] = h.ran
    BY <1>2
  <2>4. /\ request'[v].kind = request[v].kind
        /\ request'[v].waits = request[v].waits \/ (rrc[v] = h.ran /\ h.what \in {"accept", "reject"})
    <3>1. CASE heard /\ h.what \in {"accept", "reject"} /\ v = u
      BY <1>4, <2>1, <2>3, <3>1
    <3>2. CASE ~(heard /\ h.what \in {"accept", "reject"} /\ v = u)
      <4>1. request'[v] = request[v]
        BY <1>4, <2>1, <3>2
      <4>2. QED
        BY <4>1
    <3>3. QED
      BY <3>1, <3>2
  <2>5. guti'[v] = guti[v] \/ (rrc[v] = h.ran /\ (h.what = "reject" \/ h.tmsi # None))
    BY <1>4, <2>1, <2>3
  <2>6. QED
    BY <2>2, <2>4, <2>5
<1>12. PICK ms : /\ p => DOMAIN ms = {1} /\ ms[1] = m
                 /\ ~p => DOMAIN ms = {}
                 /\ Flow(queues, queues', 1, 4, 1, ms)
                 /\ queues[4] = sctp /\ 1 \in DOMAIN queues[4] /\ sctp[1] = h
  <2>1. Types /\ p \in BOOLEAN /\ sctp # <<>> /\ sctp' = Tail(sctp) /\ UNCHANGED <<app_queue, n1_queue>>
        /\ n2_queue' = IF p THEN Append(n2_queue, m) ELSE n2_queue
    BY <1>4, <1>8, <1>9
  <2>2. /\ \E ms : /\ p => DOMAIN ms = {1} /\ ms[1] = m
                   /\ ~p => DOMAIN ms = {}
                   /\ Flow(queues, queues', 1, 4, 1, ms)
        /\ queues[4] = sctp /\ 1 \in DOMAIN queues[4] /\ sctp[1] = Head(sctp)
    BY ONLY <2>1, GnbFlow
  <2>3. QED
    BY <1>1, <2>2
<1>13. \A k \in DOMAIN ms : k = 1 /\ ms[k] = m /\ p
  BY <1>9, <1>12
<1>14. queues[4][1] = h /\ 4 \in Places
  BY <1>12, PlacesAre
<1>15. p => Token(h, h.ran)
  BY <1>9 DEF Token, Talks
<1>16. Talk'
  <2>1. OneMore(queues, 1, 4, ms)
    BY <1>6, <1>13, <1>14, <1>15 DEF OneMore, Token
  <2>2. ASSUME NEW v \in UEs, rrc'[v] # None PROVE ExpectsStill(v, queues, 1, 4, ms)
    <3>1. rrc'[v] = rrc[v] /\ rrc[v] \in RanIds
      BY <1>8, <1>11, <2>2 DEF Types, RadioTypes
    <3>2. ASSUME NEW z \in Places, NEW i \in DOMAIN queues[z], NEW what \in Whats, ~(z = 4 /\ i = 1),
                 Token(queues[z][i], rrc[v]), Expects(v, what)
          PROVE  Expects(v, what)'
      <4>1. ~(rrc[v] = h.ran /\ Token(h, h.ran))
        BY <1>5, <1>12, <1>14, <3>2 DEF Held, Talk, One
      <4>2. request'[v].waits = request[v].waits /\ guti'[v] = guti[v]
        <5>1. h.what \in {"accept", "reject"} \/ h.tmsi # None => Token(h, h.ran)
          BY DEF Token, Talks
        <5>2. QED
          BY <1>11, <4>1, <5>1
      <4>3. QED
        BY <1>11, <3>2, <4>2 DEF Expects
    <3>3. ASSUME NEW k \in DOMAIN ms, NEW what \in Whats, Token(ms[k], rrc[v]), ms[k].what = what
          PROVE  Expects(v, what)'
      <4>1. p /\ rrc[v] = h.ran /\ what = a
        BY <1>6, <1>13, <3>3 DEF Token
      <4>2. Expects(v, h.what)
        BY <1>12, <1>14, <1>15, <2>2, <3>1, <4>1, HeadExpects
      <4>3. h.what \in {"challenge", "identify"} /\ a \in {"complete", "identity"}
        BY <1>9, <4>1
      <4>4. request[v].waits
        BY <4>2, <4>3 DEF Expects
      <4>5. request'[v].waits
        BY <1>11, <4>3, <4>4
      <4>6. QED
        BY <4>1, <4>3, <4>5 DEF Expects, Requests
    <3>4. QED
      BY <3>1, <3>2, <3>3 DEF ExpectsStill
  <2>3. QED
    BY <1>8, <1>12, <2>1, <2>2, TalkKept
<1>17. \A q \in Nat : Taken(q)' <=> Taken(q)
  BY <1>4, <1>7, TakenSame
<1>18. Taken(h.ran)
  <2>1. queues[4][1].type # "initial" /\ queues[4][1].ran # None
    BY <1>4, <1>5, <1>14
  <2>2. QED
    BY <1>12, <1>14, <2>1, HeadTaken
<1>19. Later'
  <2>1. Taken(h.ran)' /\ \A k \in DOMAIN ms : ms[k].ran = h.ran
    BY <1>5, <1>6, <1>8, <1>13, <1>17, <1>18
  <2>2. \A z \in Places : \A i \in DOMAIN queues[z] : queues[z][i].ran \in Nat
    BY <1>8, QueueNumbers
  <2>3. \A k \in DOMAIN ms : Taken(ms[k].ran)'
    BY <2>1 DEF Taken
  <2>4. \A r \in RanIds : gnb'[r].amf # None => gnb[r].amf # None \/ Taken(r)'
    <3>1. ASSUME NEW r \in RanIds, gnb'[r].amf # None PROVE gnb[r].amf # None \/ Taken(r)'
      <4>1. r # h.ran \/ Taken(r)
        BY <1>18
      <4>2. QED
        BY <1>8, <1>10, <1>17, <3>1, <4>1
    <3>2. QED
      BY <3>1
  <2>5. QED
    BY <1>7, <1>8, <1>12, <1>17, <2>2, <2>3, <2>4, LaterKept
<1>20. End'
  <2>1. KnownByBoth' /\ \A q \in RanIds : ranid2uecontext'[q].known = ranid2uecontext[q].known
    BY <1>4, <1>7, KnownKept
  <2>2. \A k \in DOMAIN ms : ms[k].type \notin {"initial", "reset"}
    BY <1>6, <1>13
  <2>3. \A q \in RanIds : LostContext(q)' => LostContext(q)
    BY <1>7, <1>8, <1>17, <2>1 DEF LostContext, None
  <2>4. \A q \in RanIds : \A k \in DOMAIN ms : Question(ms[k], q) => 1 = 1 /\ Question(queues[4][1], q)
    BY <1>6, <1>9, <1>13, <1>14 DEF Question
  <2>5. \A q \in RanIds : Taken(q) /\ amfueid2nas_context[q] = None =>
           Taken(q)' /\ amfueid2nas_context'[q] = None
    BY <1>7, <1>8, <1>17
  <2>6. 4 # 1
    BY ONLY TRUE
  <2>7. \A q \in RanIds : gnb'[q] = Free <=> gnb[q] = Free
    BY <1>10
  <2>8. Held /\ Flow(queues, queues', 1, 4, 1, ms)
    BY <1>12
  <2>9. QED
    BY ONLY <2>1, <2>2, <2>3, <2>4, <2>5, <2>6, <2>7, <2>8, EndKept
<1>21. OneLink'
  BY <1>4, <1>8, <1>11, LinksKept DEF Held
<1>22. OldIds' /\ PlainTransfers'
  BY <1>4, <1>7, OldIdsKept, TransfersKept DEF Held, Ids
<1>23. OldIsReleased'
  <2>1. 4 # 1 /\ 1 # 4 /\ 4 = 4 /\ 1 = 1
    BY ONLY TRUE
  <2>2. \A t \in Ids : t \in RanIds
    BY <1>8, IdsAreAmfIds
  <2>3. \A t \in Ids : ~Command(sctp[1], t)
    BY <1>4, <1>12 DEF Command
  <2>4. \A t \in Ids : gnb[t] = Free => gnb'[t] = Free
    BY <1>10, <2>2
  <2>5. \A v \in UEs : request[v].waits => request'[v].waits \/ Reply(sctp[1], rrc[v])
    BY <1>11, <1>12 DEF Reply
  <2>6. \A v \in UEs, c \in Contexts : /\ rrc'[v] = rrc[v] /\ request'[v].kind = request[v].kind
                                       /\ nas'[c] = nas[c]
    BY <1>7, <1>11
  <2>7. Held /\ Flow(queues, queues', 1, 4, 1, ms)
    BY <1>12
  <2>8. QED
    BY ONLY <2>1, <2>3, <2>4, <2>5, <2>6, <2>7, OldsFollow
<1>24. QED
  BY <1>16, <1>19, <1>20, <1>21, <1>22, <1>23 DEF Held

\* N2 takes a message of which the tables change, and passes it on to APP or not.
LEMMA N2TablesHeld ==
  ASSUME Held, Inv', NEW h, h = Head(n2_queue), n2_queue # <<>>, n2_queue' = Tail(n2_queue),
         h.type # "release command", NEW p \in BOOLEAN, p => h.type = "initial",
         app_queue' = IF p THEN Append(app_queue, h) ELSE app_queue,
         UNCHANGED <<n1_queue, sctp, radio, generated, supi2Id>>,
         \A c \in Contexts : /\ nas'[c].ran = nas[c].ran
                             /\ nas'[c].oldRan = nas[c].oldRan /\ nas'[c].oldAmf = nas[c].oldAmf,
         \A r \in RanIds : ~ranid2uecontext'[r].known =>
            \/ ~ranid2uecontext[r].known
            \/ gnb[r] = Free
            \/ \E i \in DOMAIN n2_queue : i > 1 /\ First(n2_queue[i], r),
         \A r \in RanIds : First(h, r) => ranid2uecontext'[r].known,
         KnownByBoth',
         \A r \in RanIds : ranid2uecontext'[r].known /\ gnb[r] = Free =>
            \/ /\ ranid2uecontext[r].known /\ h.type # "reset"
               /\ h.type = "release complete" /\ h.ran = r =>
                     Taken(r) /\ amfueid2nas_context'[r] = None
               /\ Taken(r) /\ amfueid2nas_context[r] = None => amfueid2nas_context'[r] = None
            \/ \E i \in DOMAIN n2_queue : i > 1 /\ n2_queue[i].type = "reset",
         \A r \in RanIds : ranid2uecontext'[r].known /\ Taken(r) /\ amfueid2nas_context'[r] = None =>
            LostContext(r)
  PROVE  Held'
<1>1. UNCHANGED <<gnb, rrc, guti, request, opened>>
  BY DEF radio
<1>2. Types /\ Types' /\ Later /\ \A q \in RanIds : q \in Nat /\ q # None
  BY QueueNumbers DEF Held, Inv
<1>3. queues[1] = n2_queue /\ 1 \in DOMAIN queues[1] /\ queues[1][1] = h /\ n2_queue[1] = h
  <2>1. queues[1] = n2_queue
    BY QueuesAre
  <2>2. 1 \in DOMAIN queues[1] /\ Head(queues[1]) = queues[1][1]
    BY <1>2, <2>1, PlacesAre, HeadIs
  <2>3. QED
    BY <2>1, <2>2
<1>4. PICK ms : /\ p => DOMAIN ms = {1} /\ ms[1] = h
                /\ ~p => DOMAIN ms = {}
                /\ Flow(queues, queues', 1, 1, 2, ms)
  <2>1. PICK ms : ms = IF p THEN <<h>> ELSE <<>>
    OBVIOUS
  <2>2. (p => DOMAIN ms = {1} /\ ms[1] = h) /\ (~p => DOMAIN ms = {})
    BY ONLY <2>1
  <2>3. /\ queues'[1] = Tail(queues[1]) /\ queues[1] # <<>> /\ queues'[3] = queues[3]
        /\ queues'[4] = queues[4] /\ queues'[2] = app_queue' /\ queues[2] = app_queue
    BY QueuesAre
  <2>4. \A z \in Places : z \notin {1, 2} => queues'[z] = queues[z]
    BY ONLY <2>3, PlacesAre
  <2>5. 1 \in {0, 1} /\ 0 # 1 /\ 1 # 2
    BY ONLY TRUE
  <2>6. \/ ms = <<>> /\ queues'[2] = queues[2]
        \/ \E k : ms = <<k>> /\ queues'[2] = Append(queues[2], k)
    BY <2>1, <2>3
  <2>7. Flow(queues, queues', 1, 1, 2, ms)
    BY ONLY <1>2, <2>3, <2>4, <2>5, <2>6, PlacesAre, Flows
  <2>8. QED
    BY <2>2, <2>7
<1>5. \A k \in DOMAIN ms : k = 1 /\ ms[k] = h /\ h.type = "initial"
  BY <1>4
<1>6. Talk'
  <2>1. OneMore(queues, 1, 1, ms)
    BY <1>3, <1>5 DEF OneMore
  <2>2. ASSUME NEW v \in UEs, rrc'[v] # None PROVE ExpectsStill(v, queues, 1, 1, ms)
    <3>1. rrc'[v] = rrc[v]
      BY <1>1
    <3>2. \A what \in Whats : Expects(v, what) => Expects(v, what)'
      BY <1>1 DEF Expects
    <3>3. ASSUME NEW k \in DOMAIN ms, NEW what \in Whats, Token(ms[k], rrc[v]), ms[k].what = what
          PROVE  Expects(v, what)'
      <4>1. Token(queues[1][1], rrc[v]) /\ queues[1][1].what = what
        BY <1>3, <1>5, <3>3
      <4>2. Expects(v, queues[1][1].what)
        BY <1>3, <2>2, <3>1, <4>1, PlacesAre, HeadExpects
      <4>3. Expects(v, what)
        BY <4>1, <4>2
      <4>4. QED
        BY <3>2, <4>3
    <3>4. QED
      BY <3>1, <3>2, <3>3 DEF ExpectsStill
  <2>3. QED
    BY <1>2, <1>4, <2>1, <2>2, TalkKept
<1>7. \A q \in Nat : Taken(q)' <=> Taken(q)
  BY TakenSame
<1>8. Later'
  <2>1. \A k \in DOMAIN ms : ms[k].type = "initial"
    BY <1>5
  <2>2. \A z \in Places : \A i \in DOMAIN queues[z] : queues[z][i].ran \in Nat
    BY <1>2, QueueNumbers
  <2>3. QED
    BY <1>1, <1>2, <1>4, <1>7, <2>1, <2>2, LaterKept
<1>9. End'
  <2>1. ResetFrees /\ FreeIsReset /\ ForgottenIsFree /\ EndIsTold /\ AskedHasContext
    BY DEF Held, End
  <2>2. PICK e, new : Shift(n2_queue, n2_queue', e, new) /\ e = 1 /\ new = {}
    <3>1. PICK e, new : /\ Shift(n2_queue, n2_queue', e, new)
                        /\ 1 = 1 /\ 1 = 1 => e = 1
                        /\ \A k \in new : 2 = 1 /\ \E l \in DOMAIN ms : k = ms[l]
      <4>1. Flow(queues, queues', 1, 1, 2, ms)
        BY <1>4
      <4>2. QED
        BY ONLY <4>1, N2Shift
    <3>2. e = 1 /\ new = {}
      BY ONLY <3>1
    <3>3. QED
      BY <3>1, <3>2
  <2>3. Shift(n2_queue, n2_queue', 1, {})
    BY ONLY <2>2
  <2>4. ResetFrees'
    <3>1. \A k \in {} : k.type # "reset"
      OBVIOUS
    <3>2. \A r \in RanIds : gnb'[r] # Free => gnb[r] # Free \/ \E k \in {} : First(k, r)
      BY <1>1
    <3>3. ResetFrees
      BY <2>1
    <3>4. QED
      BY ONLY <2>3, <3>1, <3>2, <3>3, ResetFreesKept
  <2>5. FreeIsReset'
    <3>1. \A k \in {} : k.type = "initial" => gnb'[k.ran] # Free
      OBVIOUS
    <3>2. \A i \in DOMAIN n2_queue : n2_queue[i].type = "initial" /\ gnb'[n2_queue[i].ran] = Free =>
             gnb[n2_queue[i].ran] = Free \/ \E k \in {} : k.type = "reset"
      BY <1>1
    <3>3. FreeIsReset
      BY <2>1
    <3>4. QED
      BY ONLY <2>3, <3>1, <3>2, <3>3, FreeIsResetKept
  <2>6. ForgottenIsFree'
    BY <1>1, <1>3, <2>1, <2>3, ForgottenIsFreeKept
  <2>7. EndIsTold'
    <3>1. \A r \in RanIds : Taken(r) => Taken(r)'
      BY <1>2, <1>7
    <3>2. \A r \in RanIds : ranid2uecontext'[r].known /\ gnb'[r] = Free =>
            \/ /\ ranid2uecontext[r].known /\ gnb[r] = Free
               /\ 1 = 1 => n2_queue[1].type # "reset"
               /\ 1 = 1 /\ n2_queue[1].type = "release complete" /\ n2_queue[1].ran = r =>
                     Taken(r)' /\ amfueid2nas_context'[r] = None
               /\ Taken(r) /\ amfueid2nas_context[r] = None =>
                     Taken(r)' /\ amfueid2nas_context'[r] = None
            \/ \E k \in {} : k.type = "reset" \/ (k.type = "release complete" /\ k.ran = r)
            \/ \E i \in DOMAIN n2_queue : i > 1 /\ n2_queue[i].type = "reset"
      BY <1>1, <1>3, <3>1
    <3>3. EndIsTold
      BY <2>1
    <3>4. QED
      BY ONLY <2>3, <3>2, <3>3, EndIsToldKept
  <2>8. AskedHasContext'
    <3>1. \A r \in RanIds : LostContext(r)' => LostContext(r)
      BY <1>2, <1>7 DEF LostContext, None
    <3>2. \A r \in RanIds : \A k \in DOMAIN ms : Question(ms[k], r) => 1 = 1 /\ Question(queues[1][1], r)
      BY <1>3, <1>5
    <3>3. AskedHasContext /\ Flow(queues, queues', 1, 1, 2, ms)
      BY <1>4, <2>1
    <3>4. QED
      BY ONLY <3>1, <3>2, <3>3, AskedKept
  <2>9. QED
    BY <2>4, <2>5, <2>6, <2>7, <2>8 DEF End
<1>10. OneLink'
  BY <1>1, <1>2, LinksKept DEF Held
<1>11. PlainTransfers'
  <2>1. \A k \in DOMAIN ms : ms[k].type = "transfer" => Plain(ms[k])
    BY <1>5
  <2>2. QED
    BY <1>4, <2>1, PlainKept DEF Held
<1>12. OldIds'
  BY OldIdsKept DEF Held, Ids
<1>13. OldIsReleased'
  <2>1. 1 # 4 /\ 2 # 4
    BY ONLY TRUE
  <2>2. \A t \in Ids : ~Command(n2_queue[1], t)
    BY <1>3 DEF Command
  <2>3. Held /\ Flow(queues, queues', 1, 1, 2, ms)
    BY <1>4
  <2>4. \A c \in Contexts : /\ nas'[c].ran = nas[c].ran /\ nas'[c].oldAmf = nas[c].oldAmf
    OBVIOUS
  <2>5. QED
    BY ONLY <1>1, <2>1, <2>2, <2>3, <2>4, OldsFollow
<1>14. QED
  BY <1>6, <1>8, <1>9, <1>10, <1>11, <1>12, <1>13 DEF Held

\* The first message of a connection.
LEMMA InitialHeld ==
  ASSUME Held, Inv', initial_ue_message
  PROVE  Held'
<1>1. PICK h, t : h = Head(n2_queue)
                  /\ t = [known |-> TRUE, amf |-> ranid2uecontext[h.ran].amf,
                          tmsi |-> IF h.tmsi = None THEN ranid2uecontext[h.ran].tmsi ELSE h.tmsi]
  OBVIOUS
<1>2. /\ n2_queue # <<>> /\ h.type = "initial" /\ n2_queue' = Tail(n2_queue) /\ Takes(n2_queue, "initial")
      /\ ranid2uecontext' = [ranid2uecontext EXCEPT ![h.ran] = t]
      /\ app_queue' = Append(app_queue, h)
      /\ UNCHANGED <<n1_queue, sctp, amfueid2uecontext, app, n1, radio>>
  BY <1>1 DEF initial_ue_message, N2Keeps, Takes
<1>3. /\ UNCHANGED <<generated, supi2Id, amfueid2nas_context, nas, amfueid2uecontext>>
      /\ UNCHANGED <<n1_queue, sctp, radio, generated, supi2Id>>
  BY <1>2 DEF app, n1
<1>4. h.ran \in (generated + 1)..opened /\ First(h, h.ran)
  BY <1>1, <1>2, N2Head DEF Held, N2Message, Fresh, First
<1>5. /\ generated \in 1..MaxAmfId /\ opened \in 1..MaxAmfId /\ RanIds = 1..MaxAmfId /\ MaxAmfId \in Nat
  BY DEF Held, Inv, Types, AppTypes, RadioTypes, RanIds, AmfIds
<1>6. h.ran \in RanIds /\ ~(h.ran <= generated)
  BY ONLY <1>4, <1>5
<1>7. \A r \in RanIds : ranid2uecontext'[r] = IF r = h.ran THEN t ELSE ranid2uecontext[r]
  <2>1. ranid2uecontext \in [RanIds -> [known : BOOLEAN, amf : AmfIds \cup {None}, tmsi : Tmsi \cup {None}]]
    BY DEF Held, Inv, Types, N2Types
  <2>2. QED
    BY <1>2, <1>6, <2>1
<1>8. /\ \A r \in RanIds : r # h.ran => ranid2uecontext'[r] = ranid2uecontext[r]
      /\ ranid2uecontext'[h.ran].known
  BY <1>1, <1>6, <1>7
<1>9. n2_queue[1] = h /\ 1 \in DOMAIN n2_queue
  <2>1. n2_queue \in Seq(N2Messages)
    BY DEF Held, Inv, Types, QueueTypes
  <2>2. QED
    BY <1>1, <1>2, <2>1, Taking
<1>10. KnownByBoth'
  BY <1>3, <1>6, <1>8 DEF Held, End, KnownByBoth
<1>11. ASSUME NEW r \in RanIds, ranid2uecontext'[r].known, gnb[r] = Free
       PROVE  \/ /\ ranid2uecontext[r].known /\ h.type # "reset"
                 /\ h.type # "release complete"
                 /\ Taken(r) /\ amfueid2nas_context[r] = None => amfueid2nas_context'[r] = None
              \/ \E i \in DOMAIN n2_queue : i > 1 /\ n2_queue[i].type = "reset"
  <2>1. CASE r = h.ran
    BY <1>2, <1>9, <1>11, <2>1 DEF Held, End, FreeIsReset
  <2>2. CASE r # h.ran
    BY <1>2, <1>3, <1>8, <1>11, <2>2
  <2>3. QED
    BY <2>1, <2>2
<1>12. ASSUME NEW r \in RanIds, ranid2uecontext'[r].known, Taken(r), amfueid2nas_context'[r] = None
       PROVE  LostContext(r)
  <2>1. r # h.ran
    BY <1>6, <1>12 DEF Taken
  <2>2. QED
    BY <1>3, <1>8, <1>12, <2>1 DEF LostContext
<1>13. \A c \in Contexts : /\ nas'[c].ran = nas[c].ran
                           /\ nas'[c].oldRan = nas[c].oldRan /\ nas'[c].oldAmf = nas[c].oldAmf
  BY <1>3
<1>14. /\ \A r \in RanIds : ~ranid2uecontext'[r].known => ~ranid2uecontext[r].known
       /\ \A r \in RanIds : First(h, r) => ranid2uecontext'[r].known
  BY <1>8 DEF First
<1>15. /\ Held /\ Inv' /\ h = Head(n2_queue) /\ n2_queue # <<>> /\ n2_queue' = Tail(n2_queue)
       /\ h.type # "release command" /\ h.type = "initial" /\ TRUE \in BOOLEAN
       /\ app_queue' = IF TRUE THEN Append(app_queue, h) ELSE app_queue
  BY <1>1, <1>2
<1>16. QED
  BY ONLY <1>3, <1>10, <1>11, <1>12, <1>13, <1>14, <1>15, N2TablesHeld

\* The release of a connection is complete.
LEMMA ReleaseCompleteHeld ==
  ASSUME Held, Inv', ue_context_release_complete
  PROVE  Held'
<1>1. PICK h : h = Head(n2_queue)
  OBVIOUS
<1>2. /\ n2_queue # <<>> /\ h.type = "release complete" /\ n2_queue' = Tail(n2_queue)
      /\ Takes(n2_queue, "release complete")
      /\ \/ /\ ~Key(h.ran, h.amf) \/ h.amf \notin amfueid2uecontext \/ amfueid2nas_context[h.amf] = None
            /\ UNCHANGED <<n2, nas>>
         \/ /\ ranid2uecontext' = [ranid2uecontext EXCEPT ![h.ran] = Unknown]
            /\ amfueid2uecontext' = amfueid2uecontext \ {h.amf}
            /\ \/ nas' = nas
               \/ \E c : nas' = [nas EXCEPT ![c].cm = "CM_IDLE", ![c].unreachable = FALSE]
      /\ UNCHANGED <<app_queue, n1_queue, sctp, app, amfueid2nas_context, supi2Id, radio>>
  BY <1>1 DEF ue_context_release_complete, Takes, remove_connection
<1>3. UNCHANGED <<generated, supi2Id, amfueid2nas_context>> /\ UNCHANGED <<n1_queue, sctp, radio, generated, supi2Id>>
  BY <1>2 DEF app
<1>4. h.ran = h.amf /\ h.amf \in Ids /\ gnb[h.ran] = Free /\ h.ran \in RanIds /\ h.ran # None
  BY <1>1, <1>2, N2Head, IdsAreAmfIds DEF Held, Inv, N2Message, Paired
<1>5. n2_queue[1] = h /\ 1 \in DOMAIN n2_queue
  <2>1. n2_queue \in Seq(N2Messages)
    BY DEF Held, Inv, Types, QueueTypes
  <2>2. QED
    BY <1>1, <1>2, <2>1, Taking
<1>6. Taken(h.ran)
  <2>1. queues[1] = n2_queue
    BY QueuesAre
  <2>2. 1 \in DOMAIN queues[1] /\ queues[1][1].type # "initial" /\ queues[1][1].ran # None /\ queues[1][1] = h
    BY <1>2, <1>4, <1>5, <2>1
  <2>3. QED
    BY <2>2, PlacesAre, HeadTaken
<1>7. \A c \in Contexts : /\ nas'[c].ran = nas[c].ran
                          /\ nas'[c].oldRan = nas[c].oldRan /\ nas'[c].oldAmf = nas[c].oldAmf
  <2>1. nas \in [Contexts -> NasContexts]
    BY DEF Held, Inv, Types, N1Types
  <2>2. CASE nas' = nas
    BY <2>2
  <2>3. CASE \E c : nas' = [nas EXCEPT ![c].cm = "CM_IDLE", ![c].unreachable = FALSE]
    <3>1. PICK c : nas' = [nas EXCEPT ![c].cm = "CM_IDLE", ![c].unreachable = FALSE]
      BY <2>3
    <3>2. QED
      BY <2>1, <3>1 DEF NasContexts
  <2>4. QED
    BY <1>2, <2>2, <2>3
<1>8. \/ /\ UNCHANGED <<ranid2uecontext, amfueid2uecontext>>
         /\ ranid2uecontext[h.ran].known => amfueid2nas_context[h.ran] = None
      \/ /\ \A r \in RanIds : r # h.ran => ranid2uecontext'[r] = ranid2uecontext[r]
         /\ ~ranid2uecontext'[h.ran].known
         /\ amfueid2uecontext' = amfueid2uecontext \ {h.ran}
  <2>1. CASE /\ ~Key(h.ran, h.amf) \/ h.amf \notin amfueid2uecontext \/ amfueid2nas_context[h.amf] = None
             /\ UNCHANGED <<n2, nas>>
    <3>1. Key(h.ran, h.amf)
      BY <1>4, KeyHolds DEF Held
    <3>2. ranid2uecontext[h.ran].known => h.ran \in amfueid2uecontext
      BY <1>4, <1>6 DEF Held, End, KnownByBoth, Taken
    <3>3. QED
      BY <1>4, <2>1, <3>1, <3>2 DEF n2
  <2>2. CASE /\ ranid2uecontext' = [ranid2uecontext EXCEPT ![h.ran] = Unknown]
             /\ amfueid2uecontext' = amfueid2uecontext \ {h.amf}
    <3>1. ranid2uecontext \in [RanIds -> [known : BOOLEAN, amf : AmfIds \cup {None}, tmsi : Tmsi \cup {None}]]
      BY DEF Held, Inv, Types, N2Types
    <3>2. QED
      BY <1>4, <2>2, <3>1 DEF Unknown
  <2>3. QED
    BY <1>2, <2>1, <2>2
<1>9. \A r \in RanIds : /\ ranid2uecontext'[r].known => ranid2uecontext[r].known /\ ranid2uecontext'[r] = ranid2uecontext[r]
                        /\ ~ranid2uecontext'[r].known => ~ranid2uecontext[r].known \/ gnb[r] = Free
                        /\ ranid2uecontext'[r].known /\ r = h.ran => amfueid2nas_context[r] = None
  BY <1>4, <1>8
<1>10. KnownByBoth'
  <2>1. KnownByBoth
    BY DEF Held, End
  <2>2. \A r \in RanIds : ranid2uecontext'[r].known /\ r \in amfueid2uecontext => r \in amfueid2uecontext'
    BY <1>8
  <2>3. QED
    BY <1>3, <1>9, <2>1, <2>2 DEF KnownByBoth
<1>11. ASSUME NEW r \in RanIds, ranid2uecontext'[r].known, gnb[r] = Free
       PROVE  /\ ranid2uecontext[r].known /\ h.type # "reset"
              /\ h.type = "release complete" /\ h.ran = r =>
                    Taken(r) /\ amfueid2nas_context'[r] = None
              /\ Taken(r) /\ amfueid2nas_context[r] = None => amfueid2nas_context'[r] = None
  BY <1>2, <1>3, <1>6, <1>9, <1>11
<1>12. \A r \in RanIds : ranid2uecontext'[r].known /\ Taken(r) /\ amfueid2nas_context'[r] = None => LostContext(r)
  BY <1>3, <1>9 DEF LostContext
<1>13. /\ \A r \in RanIds : ~ranid2uecontext'[r].known => ~ranid2uecontext[r].known \/ gnb[r] = Free
       /\ \A r \in RanIds : First(h, r) => ranid2uecontext'[r].known
  BY <1>2, <1>9 DEF First
<1>14. /\ Held /\ Inv' /\ h = Head(n2_queue) /\ n2_queue # <<>> /\ n2_queue' = Tail(n2_queue)
       /\ h.type # "release command" /\ FALSE \in BOOLEAN
       /\ app_queue' = IF FALSE THEN Append(app_queue, h) ELSE app_queue
  BY <1>1, <1>2
<1>15. QED
  BY ONLY <1>3, <1>7, <1>10, <1>11, <1>12, <1>13, <1>14, N2TablesHeld

\* N2 is reset.
LEMMA NgResetHeld ==
  ASSUME Held, Inv', ng_reset
  PROVE  Held'
<1>1. PICK h : h = Head(n2_queue)
  OBVIOUS
<1>2. /\ n2_queue # <<>> /\ h.type = "reset" /\ n2_queue' = Tail(n2_queue)
      /\ ranid2uecontext' = [r \in RanIds |-> Unknown]
      /\ UNCHANGED <<app_queue, n1_queue, sctp, app, supi2Id, nas, radio>>
  BY <1>1 DEF ng_reset, Takes
<1>3. UNCHANGED <<n1_queue, sctp, radio, generated, supi2Id>>
  BY <1>2 DEF app
<1>4. n2_queue[1] = h /\ 1 \in DOMAIN n2_queue
  <2>1. n2_queue \in Seq(N2Messages)
    BY DEF Held, Inv, Types, QueueTypes
  <2>2. QED
    BY <1>1, <1>2, <2>1, Taking
<1>5. \A r \in RanIds : ~ranid2uecontext'[r].known
  BY <1>2 DEF Unknown
<1>6. \A r \in RanIds : gnb[r] = Free \/ \E i \in DOMAIN n2_queue : i > 1 /\ First(n2_queue[i], r)
  BY <1>2, <1>4 DEF Held, End, ResetFrees
<1>7. KnownByBoth'
  BY <1>5 DEF KnownByBoth
<1>8. \A r \in RanIds : ~First(h, r)
  BY <1>2 DEF First
<1>9. \A c \in Contexts : nas'[c] = nas[c]
  BY <1>2
<1>10. /\ Held /\ Inv' /\ h = Head(n2_queue) /\ n2_queue # <<>> /\ n2_queue' = Tail(n2_queue)
       /\ h.type # "release command" /\ FALSE \in BOOLEAN
       /\ app_queue' = IF FALSE THEN Append(app_queue, h) ELSE app_queue
  BY <1>1, <1>2
<1>11. QED
  BY ONLY <1>3, <1>5, <1>6, <1>7, <1>8, <1>9, <1>10, N2TablesHeld

\* APP gives a connection its AMF UE NGAP ID.
LEMMA EstablishmentHeld ==
  ASSUME Held, Inv', nas_signalling_establishment_request
  PROVE  Held'
<1>1. PICK h, a : h = Head(app_queue) /\ a = generated + 1
  OBVIOUS
<1>2. PICK t : t = [h EXCEPT !.amf = a]
  OBVIOUS
<1>3. /\ app_queue # <<>> /\ app_queue' = Tail(app_queue) /\ Takes(app_queue, "initial")
      /\ h.type = "initial" /\ generated' = a /\ n1_queue' = Append(n1_queue, t)
      /\ \/ /\ ranid2uecontext[h.ran].known
            /\ ranid2uecontext' = [ranid2uecontext EXCEPT ![h.ran].amf = a]
            /\ amfueid2uecontext' = amfueid2uecontext \cup {a}
         \/ ~ranid2uecontext[h.ran].known /\ UNCHANGED n2
      /\ UNCHANGED <<n2_queue, sctp, n1, radio>>
  BY <1>1, <1>2 DEF nas_signalling_establishment_request, Takes, generate_amf_ue_ngap_id
<1>4. UNCHANGED <<supi2Id, amfueid2nas_context, nas, gnb, rrc, guti, request, opened>>
  BY <1>3 DEF n1, radio
<1>5. h \in AppMessages /\ app_queue[1] = h /\ 1 \in DOMAIN app_queue /\ h.ran = a /\ Fresh(h)
  BY <1>1, <1>3, AppHead, InTurn DEF Held, AppMessage
<1>6. t.type = "initial" /\ t.ran = a /\ t.what = h.what /\ t.tmsi = h.tmsi
  BY <1>2, <1>3, <1>5 DEF AppMessages, MessagesOf
<1>7. /\ generated \in Nat /\ a \in Nat /\ a > generated /\ a \in RanIds /\ a # None
      /\ ~(a <= generated) /\ Ids \subseteq Ids' /\ generated' >= generated
  <2>1. generated \in 1..MaxAmfId /\ opened \in 1..MaxAmfId /\ RanIds = 1..MaxAmfId /\ MaxAmfId \in Nat
    BY DEF Held, Inv, Types, AppTypes, RadioTypes, RanIds, AmfIds
  <2>2. a \in (generated + 1)..opened
    BY <1>5 DEF Fresh
  <2>3. QED
    BY <1>1, <1>3, <2>1, <2>2 DEF Ids, None
<1>8. Types /\ Types' /\ Later /\ \A q \in RanIds : q \in Nat /\ q # None
  BY QueueNumbers DEF Held, Inv
<1>9. /\ queues[2] = app_queue /\ 1 \in DOMAIN queues[2] /\ queues[2][1] = h
  BY <1>5, QueuesAre
<1>10. PICK ms : DOMAIN ms = {1} /\ ms[1] = t /\ Flow(queues, queues', 1, 2, 3, ms)
  <2>1. PICK ms : ms = <<t>>
    OBVIOUS
  <2>2. DOMAIN ms = {1} /\ ms[1] = t
    BY ONLY <2>1
  <2>3. /\ queues'[2] = Tail(queues[2]) /\ queues[2] # <<>> /\ queues'[1] = queues[1]
        /\ queues'[4] = queues[4] /\ queues'[3] = Append(queues[3], t)
    BY <1>3, QueuesAre
  <2>4. \A z \in Places : z \notin {2, 3} => queues'[z] = queues[z]
    BY ONLY <2>3, PlacesAre
  <2>5. 1 \in {0, 1} /\ 0 # 1 /\ 2 # 3
    BY ONLY TRUE
  <2>6. \E k : ms = <<k>> /\ queues'[3] = Append(queues[3], k)
    BY ONLY <2>1, <2>3
  <2>7. Flow(queues, queues', 1, 2, 3, ms)
    BY ONLY <1>8, <2>3, <2>4, <2>5, <2>6, PlacesAre, Flows
  <2>8. QED
    BY <2>2, <2>7
<1>11. \A k \in DOMAIN ms : k = 1 /\ ms[k] = t
  BY <1>10
<1>12. \A r : Token(t, r) => Token(h, r)
  BY <1>5, <1>6 DEF Token
<1>13. Talk'
  <2>1. OneMore(queues, 1, 2, ms)
    BY <1>9, <1>11, <1>12 DEF OneMore
  <2>2. ASSUME NEW v \in UEs, rrc'[v] # None PROVE ExpectsStill(v, queues, 1, 2, ms)
    <3>1. rrc'[v] = rrc[v]
      BY <1>4
    <3>2. \A what \in Whats : Expects(v, what) => Expects(v, what)'
      BY <1>4 DEF Expects
    <3>3. ASSUME NEW k \in DOMAIN ms, NEW what \in Whats, Token(ms[k], rrc[v]), ms[k].what = what
          PROVE  Expects(v, what)'
      <4>1. Token(queues[2][1], rrc[v]) /\ queues[2][1].what = what
        BY <1>6, <1>9, <1>11, <1>12, <3>3
      <4>2. Expects(v, queues[2][1].what)
        BY <1>9, <2>2, <3>1, <4>1, PlacesAre, HeadExpects
      <4>3. Expects(v, what)
        BY <4>1, <4>2
      <4>4. QED
        BY <3>2, <4>3
    <3>4. QED
      BY <3>1, <3>2, <3>3 DEF ExpectsStill
  <2>3. QED
    BY <1>8, <1>10, <2>1, <2>2, TalkKept
<1>14. ASSUME NEW r \in Nat, Taken(r) PROVE Taken(r)'
  <2>1. \A k \in DOMAIN ms : ms[k].type = "initial" => ms[k].ran > generated
    BY <1>6, <1>7, <1>11
  <2>2. generated' \in Nat /\ generated' >= generated
    BY <1>3, <1>7
  <2>3. QED
    BY <1>7, <1>10, <1>14, <2>1, <2>2, TakenKept
<1>15. ASSUME NEW r \in RanIds, Taken(r)' PROVE Taken(r)
  <2>1. r # a
    <3>1. Len(queues[3]) + 1 \in DOMAIN queues'[3] /\ queues'[3][Len(queues[3]) + 1] = t
      <4>1. 1 \in DOMAIN ms /\ ms[1] = t
        BY <1>10
      <4>2. \A k \in DOMAIN ms : Len(queues[3]) + k \in DOMAIN queues'[3]
                                 /\ queues'[3][Len(queues[3]) + k] = ms[k]
        BY <1>10 DEF Flow
      <4>3. QED
        BY <4>1, <4>2
    <3>2. PICK i \in DOMAIN n1_queue' : n1_queue'[i] = t
      BY <3>1, QueuesAre
    <3>3. QED
      BY <1>6, <1>15, <3>2 DEF Taken
  <2>2. r <= generated
    <3>1. r <= a /\ r \in Nat
      BY <1>3, <1>8, <1>15 DEF Taken
    <3>2. QED
      BY <1>1, <1>7, <2>1, <3>1
  <2>3. \A i \in DOMAIN n1_queue : i \in DOMAIN n1_queue' /\ n1_queue'[i] = n1_queue[i]
    <3>1. \A i \in DOMAIN queues[3] : i \in DOMAIN queues'[3] /\ queues'[3][i] = queues[3][i]
      BY <1>10 DEF Flow
    <3>2. QED
      BY <3>1, QueuesAre
  <2>4. QED
    BY <1>15, <2>2, <2>3 DEF Taken
<1>16. Later'
  <2>1. \A k \in DOMAIN ms : ms[k].type = "initial"
    BY <1>6, <1>11
  <2>2. \A z \in Places : \A i \in DOMAIN queues[z] : queues[z][i].ran \in Nat
    BY <1>8, QueueNumbers
  <2>3. QED
    BY <1>4, <1>8, <1>10, <1>14, <2>1, <2>2, LaterKept
<1>17. /\ \A r \in RanIds : ranid2uecontext'[r].known = ranid2uecontext[r].known
       /\ KnownByBoth'
  <2>1. ranid2uecontext \in [RanIds -> [known : BOOLEAN, amf : AmfIds \cup {None}, tmsi : Tmsi \cup {None}]]
    BY <1>8 DEF Types, N2Types
  <2>2. CASE /\ ranid2uecontext' = [ranid2uecontext EXCEPT ![h.ran].amf = a]
             /\ amfueid2uecontext' = amfueid2uecontext \cup {a}
    <3>1. \A r \in RanIds : /\ ranid2uecontext'[r].known = ranid2uecontext[r].known
                            /\ ranid2uecontext'[r].amf = IF r = a THEN a ELSE ranid2uecontext[r].amf
      BY <1>5, <2>1, <2>2
    <3>2. \A r \in RanIds : r <= generated' => r <= generated \/ r = a
      BY <1>1, <1>3, <1>7, <1>8
    <3>3. KnownByBoth
      BY DEF Held, End
    <3>4. KnownByBoth'
      BY <2>2, <3>1, <3>2, <3>3 DEF KnownByBoth
    <3>5. QED
      BY <3>1, <3>4
  <2>3. CASE ~ranid2uecontext[a].known /\ UNCHANGED n2
    <3>1. UNCHANGED <<ranid2uecontext, amfueid2uecontext>>
      BY <2>3 DEF n2
    <3>2. \A r \in RanIds : r <= generated' => r <= generated \/ r = a
      BY <1>1, <1>3, <1>7, <1>8
    <3>3. KnownByBoth
      BY DEF Held, End
    <3>4. KnownByBoth'
      BY <2>3, <3>1, <3>2, <3>3 DEF KnownByBoth
    <3>5. QED
      BY <3>1, <3>4
  <2>4. QED
    BY <1>3, <1>5, <2>2, <2>3
<1>18. End'
  <2>1. \A q \in RanIds : LostContext(q)' => LostContext(q)
    BY <1>4, <1>15, <1>17 DEF LostContext, None
  <2>2. \A q \in RanIds : \A k \in DOMAIN ms : Question(ms[k], q) => 1 = 1 /\ Question(queues[2][1], q)
    BY <1>5, <1>6, <1>9, <1>11 DEF Question
  <2>3. \A q \in RanIds : Taken(q) /\ amfueid2nas_context[q] = None =>
           Taken(q)' /\ amfueid2nas_context'[q] = None
    BY <1>4, <1>8, <1>14
  <2>4. 3 # 1 /\ 2 # 1
    BY ONLY TRUE
  <2>5. \A q \in RanIds : gnb'[q] = Free <=> gnb[q] = Free
    BY <1>4
  <2>6. Held /\ Flow(queues, queues', 1, 2, 3, ms)
    BY <1>10
  <2>7. QED
    BY ONLY <1>17, <2>1, <2>2, <2>3, <2>4, <2>5, <2>6, EndKept
<1>19. OneLink'
  BY <1>4, <1>8, LinksKept DEF Held
<1>20. PlainTransfers'
  <2>1. 3 # 2
    BY ONLY TRUE
  <2>2. PlainTransfers /\ Flow(queues, queues', 1, 2, 3, ms)
    BY <1>10 DEF Held
  <2>3. QED
    BY ONLY <2>1, <2>2, PlainKept
<1>21. OldIds'
  BY <1>4, <1>7, OldIdsKept DEF Held
<1>22. OldIsReleased'
  <2>1. 3 # 4 /\ 2 # 4 /\ 2 # 1
    BY ONLY TRUE
  <2>2. Held /\ Flow(queues, queues', 1, 2, 3, ms)
    BY <1>10
  <2>3. QED
    BY ONLY <1>4, <2>1, <2>2, OldsFollow
<1>23. QED
  BY <1>13, <1>16, <1>18, <1>19, <1>20, <1>21, <1>22 DEF Held

\* N1 handles its head, h, and puts messages for N2.
LEMMA N1Flow ==
  ASSUME Types, n1_queue # <<>>, n1_queue' = Tail(n1_queue), UNCHANGED <<app_queue, sctp>>, NEW ms,
         \/ ms = <<>> /\ n2_queue' = n2_queue
         \/ (\E m : ms = <<m>> \/ \E n : ms = <<m, n>>) /\ n2_queue' = n2_queue \o ms
  PROVE  /\ Flow(queues, queues', 1, 3, 1, ms)
         /\ 1 \in DOMAIN queues[3] /\ queues[3][1] = Head(n1_queue)
<1>1. /\ queues'[3] = Tail(queues[3]) /\ queues[3] # <<>> /\ queues[3] = n1_queue
      /\ queues'[2] = queues[2] /\ queues'[4] = queues[4]
      /\ queues[1] = n2_queue /\ queues'[1] = n2_queue'
  BY QueuesAre
<1>2. \A z \in Places : z \notin {3, 1} => queues'[z] = queues[z]
  BY ONLY <1>1, PlacesAre
<1>3. 1 \in {0, 1} /\ 0 # 1 /\ 3 # 1
  BY ONLY TRUE
<1>4. \/ ms = <<>> /\ queues'[1] = queues[1]
      \/ (\E m : ms = <<m>> \/ \E n : ms = <<m, n>>) /\ queues'[1] = queues[1] \o ms
  BY <1>1
<1>5. Types
  OBVIOUS
<1>6. Flow(queues, queues', 1, 3, 1, ms)
  BY ONLY <1>1, <1>2, <1>3, <1>4, <1>5, PlacesAre, Flows
<1>7. QED
  BY <1>1, <1>5, <1>6, PlacesAre, HeadIs

\* It goes on with what the UE expects, or says nothing of that.
LEMMA N1Held ==
  ASSUME Held, Inv', NEW ms, Flow(queues, queues', 1, 3, 1, ms),
         NEW h, 1 \in DOMAIN queues[3], queues[3][1] = h, Taken(h.ran)',
         \A k \in DOMAIN ms :
            /\ ms[k].type \notin {"initial", "reset"}
            /\ ms[k].ran # None => Taken(ms[k].ran)'
            /\ \A r \in RanIds : Question(ms[k], r) => Question(h, r) \/ ~LostContext(r)',
         OneMore(queues, 1, 3, ms),
         \A v \in UEs, k \in DOMAIN ms, what \in Whats :
            rrc[v] # None /\ Token(ms[k], rrc[v]) /\ ms[k].what = what => Expects(v, what),
         UNCHANGED <<app_queue, n2, generated, radio>>,
         \A v \in UEs : supi2Id'[v] = supi2Id[v] \/ supi2Id'[v].ran = h.ran,
         \A c \in Contexts : nas'[c].ran = nas[c].ran \/ nas'[c].ran = h.ran,
         \A r \in RanIds : /\ ranid2uecontext[r].known /\ Taken(r) /\ amfueid2nas_context[r] = None =>
                                 amfueid2nas_context'[r] = None
                           /\ LostContext(r)' => LostContext(r) \/ NotAsked(queues, r),
         OldIds', OldIsReleased'
  PROVE  Held'
<1>1. UNCHANGED <<gnb, rrc, guti, request, opened>>
  BY DEF radio
<1>2. Types /\ Types' /\ Later /\ \A q \in RanIds : q \in Nat /\ q # None
  BY QueueNumbers DEF Held, Inv
<1>3. Talk'
  <2>1. ASSUME NEW v \in UEs, rrc'[v] # None PROVE ExpectsStill(v, queues, 1, 3, ms)
    <3>1. rrc'[v] = rrc[v]
      BY <1>1
    <3>2. \A what \in Whats : Expects(v, what) => Expects(v, what)'
      BY <1>1 DEF Expects
    <3>3. QED
      BY <2>1, <3>1, <3>2 DEF ExpectsStill
  <2>2. QED
    BY <1>2, <2>1, TalkKept
<1>4. \A r \in Nat : Taken(r) => Taken(r)'
  <2>1. generated \in Nat /\ generated' \in Nat /\ generated' >= generated
    BY <1>2, IdsAreAmfIds
  <2>2. 1 # 3
    BY ONLY TRUE
  <2>3. QED
    BY <2>1, <2>2, TakenKept
<1>5. Later'
  <2>1. \A v \in UEs : supi2Id'[v] = supi2Id[v] \/ Taken(supi2Id[v].ran)'
    BY DEF Taken
  <2>2. \A c \in Contexts : nas'[c].ran \in {None, nas[c].ran} \/ Taken(nas[c].ran)'
    BY DEF Taken
  <2>3. \A z \in Places : \A i \in DOMAIN queues[z] : queues[z][i].ran \in Nat
    BY <1>2, QueueNumbers
  <2>4. QED
    BY <1>1, <1>2, <1>4, <2>1, <2>2, <2>3, LaterKept
<1>6. End'
  <2>1. KnownByBoth' /\ \A q \in RanIds : ranid2uecontext'[q].known = ranid2uecontext[q].known
    BY KnownKept
  <2>2. \A q \in RanIds : ranid2uecontext[q].known /\ Taken(q) /\ amfueid2nas_context[q] = None =>
           Taken(q)' /\ amfueid2nas_context'[q] = None
    BY <1>2, <1>4
  <2>3. \A k \in DOMAIN ms : ms[k].type \notin {"initial", "reset"}
    OBVIOUS
  <2>4. \A q \in RanIds : LostContext(q)' => LostContext(q) \/ NotAsked(queues, q)
    OBVIOUS
  <2>5. \A q \in RanIds : \A k \in DOMAIN ms : Question(ms[k], q) =>
           (1 = 1 /\ Question(queues[3][1], q)) \/ ~LostContext(q)'
    OBVIOUS
  <2>6. \A q \in RanIds : gnb'[q] = Free <=> gnb[q] = Free
    BY <1>1
  <2>7. 3 # 1
    BY ONLY TRUE
  <2>8. Held /\ Flow(queues, queues', 1, 3, 1, ms)
    OBVIOUS
  <2>9. QED
    BY ONLY <2>1, <2>2, <2>3, <2>4, <2>5, <2>6, <2>7, <2>8, EndKept
<1>7. OneLink'
  BY <1>1, <1>2, LinksKept DEF Held
<1>8. PlainTransfers'
  BY TransfersKept DEF Held
<1>9. QED
  BY <1>3, <1>5, <1>6, <1>7, <1>8 DEF Held

\* Two messages, put one after the other.
LEMMA Joined ==
  ASSUME Types, NEW m, NEW n
  PROVE  /\ <<m>> \o <<n>> = <<m, n>> /\ <<>> \o <<n>> = <<n>>
         /\ n2_queue \o <<m>> \o <<n>> = n2_queue \o <<m, n>>
<1>1. <<m>> \o <<n>> = <<m, n>> /\ <<>> \o <<n>> = <<n>>
  <2>1. <<m>> \in Seq({m, n}) /\ <<n>> \in Seq({m, n}) /\ n \in {m, n}
    OBVIOUS
  <2>2. Append(<<m>>, n) = <<m>> \o <<n>>
    BY <2>1, AppendIsConcat
  <2>3. Append(<<m>>, n) = <<m, n>>
    <3>1. PICK p, q : p = Append(<<m>>, n) /\ q = <<m, n>>
      OBVIOUS
    <3>2. q \in Seq({m, n}) /\ Len(q) = 2 /\ q[1] = m /\ q[2] = n
      BY ONLY <3>1
    <3>3. p \in Seq({m, n}) /\ Len(p) = 2 /\ p[1] = m /\ p[2] = n
      BY ONLY <3>1
    <3>4. \A i \in 1..Len(p) : p[i] = q[i]
      BY ONLY <3>2, <3>3
    <3>5. p = q
      BY <3>2, <3>3, <3>4, SeqEqual
    <3>6. QED
      BY <3>1, <3>5
  <2>4. <<>> \o <<n>> = <<n>>
    BY <2>1, ConcatEmptySeq
  <2>5. QED
    BY <2>2, <2>3, <2>4
<1>2. PICK S : S = N2Messages \cup {m, n}
  OBVIOUS
<1>3. n2_queue \in Seq(S) /\ <<m>> \in Seq(S) /\ <<n>> \in Seq(S)
  <2>1. n2_queue \in Seq(N2Messages)
    BY DEF Types, QueueTypes
  <2>2. QED
    BY <1>2, <2>1
<1>4. n2_queue \o <<m>> \o <<n>> = n2_queue \o (<<m>> \o <<n>>)
  BY <1>3, ConcatAssociative
<1>5. QED
  BY <1>1, <1>4

\* N1 takes a message of a connection.
LEMMA N1Talks ==
  ASSUME Held, NEW type \in {"initial", "uplink"}, Takes(n1_queue, type), NEW h, h = Head(n1_queue)
  PROVE  /\ n1_queue # <<>> /\ h.type = type /\ h = n1_queue[1] /\ h = queues[3][1] /\ 1 \in DOMAIN queues[3]
         /\ h.ran = h.amf /\ h.amf \in Ids /\ h.ran \in RanIds /\ h.ran # None /\ h.ran \in AmfIds
         /\ h.tmsi \in Tmsi \cup {None}
         /\ type = "initial" => h.what \in Requests
         /\ type # "initial" => Taken(h.ran)
         /\ Token(h, h.ran) =>
               \A z \in Places : \A i \in DOMAIN queues[z] : Token(queues[z][i], h.ran) => z = 3 /\ i = 1
<1>1. /\ n1_queue # <<>> /\ h \in N1Messages /\ h.type = type /\ N1Message(h)
      /\ h = n1_queue[1] /\ 1 \in DOMAIN n1_queue
  BY N1Head DEF Held
<1>2. h = queues[3][1] /\ 1 \in DOMAIN queues[3]
  BY <1>1, QueuesAre
<1>3. h.ran = h.amf /\ h.amf \in Ids
  BY <1>1 DEF N1Message, Paired
<1>4. h.ran \in RanIds /\ h.ran # None /\ h.ran \in AmfIds
  BY <1>3, IdsAreAmfIds DEF Held, Inv
<1>5. h.tmsi \in Tmsi \cup {None}
  BY <1>1 DEF N1Messages, MessagesOf
<1>6. type = "initial" => h.what \in Requests
  BY <1>1 DEF N1Message
<1>7. type # "initial" => Taken(h.ran)
  BY <1>1, <1>2, <1>4, PlacesAre, HeadTaken
<1>8. Token(h, h.ran) =>
         \A z \in Places : \A i \in DOMAIN queues[z] : Token(queues[z][i], h.ran) => z = 3 /\ i = 1
  BY <1>2, <1>4, PlacesAre DEF Held, Talk, One
<1>9. QED
  BY <1>1, <1>2, <1>3, <1>4, <1>5, <1>6, <1>7, <1>8

\* A UE that deregisters.
LEMMA DeregistrationHeld ==
  ASSUME Held, Inv', ue_initiate_de_registration_handle
  PROVE  Held'
<1>1. PICK h : h = Head(n1_queue)
  OBVIOUS
<1>2. PICK m, n : m = Message("downlink", h.ran, h.amf, "goodbye", h.ue, None)
                  /\ n = Ngap("release command", h.ran, h.amf)
  OBVIOUS
<1>3. /\ Takes(n1_queue, "uplink") /\ h.what = "deregister" /\ n1_queue' = Tail(n1_queue)
      /\ UNCHANGED <<app_queue, sctp, n2, generated, supi2Id, nas, radio>>
      /\ \/ UNCHANGED <<n2_queue, amfueid2nas_context>>
         \/ /\ amfueid2nas_context' = [amfueid2nas_context EXCEPT ![h.amf] = None]
            /\ n2_queue' = n2_queue \o <<m>> \o <<n>>
  BY <1>1, <1>2 DEF ue_initiate_de_registration_handle, N1Keeps, Answer, Without, app
<1>4. /\ n1_queue # <<>> /\ h.type = "uplink" /\ h = n1_queue[1] /\ h = queues[3][1] /\ 1 \in DOMAIN queues[3]
      /\ h.ran = h.amf /\ h.amf \in Ids /\ h.ran \in RanIds /\ h.ran # None /\ h.ran \in AmfIds
      /\ Taken(h.ran)
      /\ Token(h, h.ran) =>
            \A z \in Places : \A i \in DOMAIN queues[z] : Token(queues[z][i], h.ran) => z = 3 /\ i = 1
  BY <1>1, <1>3, N1Talks
<1>5. /\ m.type = "downlink" /\ m.ran = h.ran /\ m.what = "goodbye" /\ m.tmsi = None
      /\ n.type = "release command" /\ n.ran = h.ran /\ n.what = "none" /\ n.tmsi = None
  BY <1>2 DEF Message, Ngap
<1>6. Types /\ Types' /\ \A q \in RanIds : q \in Nat /\ q # None
  BY QueueNumbers DEF Held, Inv
<1>7. PICK ms : \/ ms = <<>> /\ UNCHANGED <<n2_queue, amfueid2nas_context>>
                \/ /\ ms = <<m, n>> /\ n2_queue' = n2_queue \o ms
                   /\ amfueid2nas_context' = [amfueid2nas_context EXCEPT ![h.amf] = None]
  <2>1. CASE UNCHANGED <<n2_queue, amfueid2nas_context>>
    BY <2>1
  <2>2. CASE /\ amfueid2nas_context' = [amfueid2nas_context EXCEPT ![h.amf] = None]
             /\ n2_queue' = n2_queue \o <<m>> \o <<n>>
    <3>1. n2_queue \o <<m>> \o <<n>> = n2_queue \o <<m, n>>
      BY <1>6, Joined
    <3>2. n2_queue' = n2_queue \o <<m, n>>
      BY <2>2, <3>1
    <3>3. QED
      BY <2>2, <3>2
  <2>3. QED
    BY <1>3, <2>1, <2>2
<1>8. \A k \in DOMAIN ms : ms[k] \in {m, n}
  <2>1. CASE ms = <<>>
    BY <2>1
  <2>2. CASE ms = <<m, n>>
    BY ONLY <2>2
  <2>3. QED
    BY <1>7, <2>1, <2>2
<1>9. Flow(queues, queues', 1, 3, 1, ms)
  <2>1. \/ ms = <<>> /\ n2_queue' = n2_queue
        \/ (\E k : ms = <<k>> \/ \E l : ms = <<k, l>>) /\ n2_queue' = n2_queue \o ms
    BY <1>7
  <2>2. Types /\ n1_queue # <<>> /\ n1_queue' = Tail(n1_queue) /\ UNCHANGED <<app_queue, sctp>>
    BY <1>3, <1>4, <1>6
  <2>3. QED
    BY ONLY <2>1, <2>2, N1Flow
<1>10. Taken(h.ran)'
  <2>1. generated \in Nat /\ generated' \in Nat /\ generated' >= generated /\ h.ran \in Nat
    BY <1>3, <1>4, <1>6, IdsAreAmfIds
  <2>2. 1 # 3
    BY ONLY TRUE
  <2>3. QED
    BY <1>4, <1>9, <2>1, <2>2, TakenKept
<1>11. Token(h, h.ran) /\ ~Question(h, h.ran)
  BY <1>3 DEF Token, Talks, Question
<1>12. \A k \in DOMAIN ms : /\ ms[k].type \notin {"initial", "reset"} /\ ms[k].ran = h.ran
                             /\ \A r : ~Question(ms[k], r) /\ ~Token(ms[k], r)
  BY <1>5, <1>8 DEF Question, Token, Talks, Requests
<1>13. \A k \in DOMAIN ms :
          /\ ms[k].type \notin {"initial", "reset"}
          /\ ms[k].ran # None => Taken(ms[k].ran)'
          /\ \A r \in RanIds : Question(ms[k], r) => Question(h, r) \/ ~LostContext(r)'
  <2>1. \A k \in DOMAIN ms : Taken(ms[k].ran)'
    BY <1>10, <1>12 DEF Taken
  <2>2. QED
    BY <1>12, <2>1
<1>14. OneMore(queues, 1, 3, ms)
  BY <1>12 DEF OneMore
<1>15. \A v \in UEs, k \in DOMAIN ms, what \in Whats :
          rrc[v] # None /\ Token(ms[k], rrc[v]) /\ ms[k].what = what => Expects(v, what)
  BY <1>12
<1>16. /\ UNCHANGED <<app_queue, n2, generated, radio>>
       /\ \A v \in UEs : supi2Id'[v] = supi2Id[v] \/ supi2Id'[v].ran = h.ran
       /\ \A c \in Contexts : nas'[c].ran = nas[c].ran \/ nas'[c].ran = h.ran
  BY <1>3
<1>17. \A b \in AmfIds : amfueid2nas_context'[b] = amfueid2nas_context[b]
                          \/ (b = h.ran /\ amfueid2nas_context'[b] = None)
  <2>1. amfueid2nas_context \in [AmfIds -> Contexts \cup {None}]
    BY <1>6 DEF Types, N1Types
  <2>2. QED
    BY <1>4, <1>7, <2>1
<1>18. NotAsked(queues, h.ran)
  <2> SUFFICES ASSUME NEW z \in Places, NEW i \in DOMAIN queues[z], Question(queues[z][i], h.ran)
               PROVE  FALSE
    BY DEF NotAsked
  <2>1. Token(queues[z][i], h.ran)
    BY DEF Question, Token, Talks
  <2>2. z = 3 /\ i = 1
    BY <1>4, <1>11, <2>1
  <2>3. QED
    BY <1>4, <1>11, <2>2
<1>19. \A r \in RanIds : /\ ranid2uecontext[r].known /\ Taken(r) /\ amfueid2nas_context[r] = None =>
                               amfueid2nas_context'[r] = None
                         /\ LostContext(r)' => LostContext(r) \/ NotAsked(queues, r)
  <2> SUFFICES ASSUME NEW r \in RanIds
               PROVE  /\ ranid2uecontext[r].known /\ Taken(r) /\ amfueid2nas_context[r] = None =>
                            amfueid2nas_context'[r] = None
                      /\ LostContext(r)' => LostContext(r) \/ NotAsked(queues, r)
    OBVIOUS
  <2>1. r \in AmfIds /\ r \in Nat
    BY <1>6, IdsAreAmfIds
  <2>2. amfueid2nas_context'[r] = amfueid2nas_context[r] \/ (r = h.ran /\ amfueid2nas_context'[r] = None)
    BY <1>17, <2>1
  <2>3. ASSUME LostContext(r)' PROVE LostContext(r) \/ NotAsked(queues, r)
    <3>1. CASE r = h.ran
      BY <1>18, <3>1
    <3>2. CASE r # h.ran
      <4>1. ranid2uecontext[r].known /\ Taken(r)' /\ amfueid2nas_context[r] = None /\ r <= generated
        BY <1>3, <2>2, <2>3, <3>2 DEF LostContext, Taken, n2, None
      <4>2. ~(n1_queue[1].type = "initial")
        BY <1>4
      <4>3. Taken(r)
        BY <1>6, <1>9, <4>1, <4>2, TakenBefore
      <4>4. QED
        BY <4>1, <4>3 DEF LostContext
    <3>3. QED
      BY <3>1, <3>2
  <2>4. QED
    BY <2>2, <2>3
<1>20. OldIds'
  BY <1>3, OldIdsKept DEF Held, Ids
<1>21. OldIsReleased'
  <2>1. 3 # 4 /\ 1 # 4 /\ 3 # 1
    BY ONLY TRUE
  <2>2. Held /\ Flow(queues, queues', 1, 3, 1, ms)
    BY <1>9
  <2>3. UNCHANGED <<gnb, rrc, request, nas>>
    BY <1>3 DEF radio
  <2>4. QED
    BY ONLY <2>1, <2>2, <2>3, OldsFollow
<1>22. Held /\ Inv' /\ Flow(queues, queues', 1, 3, 1, ms) /\ 1 \in DOMAIN queues[3] /\ queues[3][1] = h
  BY <1>4, <1>9
<1>23. QED
  BY ONLY <1>10, <1>13, <1>14, <1>15, <1>16, <1>19, <1>20, <1>21, <1>22, N1Held

\* A UE that tells who it is.
LEMMA IdentityHeld ==
  ASSUME Held, Inv', identity_response_handle
  PROVE  Held'
<1>1. PICK h : h = Head(n1_queue)
  OBVIOUS
<1>2. PICK known, c : /\ known = (amfueid2nas_context[h.amf] # None)
                      /\ c = IF known THEN amfueid2nas_context[h.amf] ELSE h.amf
  OBVIOUS
<1>3. PICK m, n : /\ m = Message("downlink", h.ran, h.amf, "challenge", h.ue, None)
                  /\ n = [Connected(h.ue, h.ran, h.amf) EXCEPT !.secured = known]
  OBVIOUS
<1>4. /\ Takes(n1_queue, "uplink") /\ h.what = "identity" /\ n1_queue' = Tail(n1_queue)
      /\ UNCHANGED <<app_queue, sctp, n2, generated, radio>>
      /\ amfueid2nas_context' = [amfueid2nas_context EXCEPT ![h.amf] = c]
      /\ nas' = [nas EXCEPT ![c] = n]
      /\ supi2Id' = [supi2Id EXCEPT ![h.ue] = [ran |-> h.ran, amf |-> h.amf]]
      /\ n2_queue' = IF known THEN n2_queue \o <<m>> ELSE n2_queue
  BY <1>1, <1>2, <1>3 DEF identity_response_handle, N1Keeps, Answer, app
<1>5. /\ n1_queue # <<>> /\ h.type = "uplink" /\ h = n1_queue[1] /\ h = queues[3][1] /\ 1 \in DOMAIN queues[3]
      /\ h.ran = h.amf /\ h.amf \in Ids /\ h.ran \in RanIds /\ h.ran # None /\ h.ran \in AmfIds
      /\ Taken(h.ran)
  BY <1>1, <1>4, N1Talks
<1>6. m.type = "downlink" /\ m.ran = h.ran /\ m.what = "challenge" /\ m.tmsi = None
  BY <1>3 DEF Message
<1>7. n.ran = h.ran /\ n.oldRan = None /\ n.oldAmf = None
  BY <1>3 DEF Connected
<1>8. Types /\ Types' /\ \A q \in RanIds : q \in Nat /\ q # None
  BY QueueNumbers DEF Held, Inv
<1>9. PICK ms : \/ ms = <<>> /\ n2_queue' = n2_queue
                \/ ms = <<m>> /\ n2_queue' = n2_queue \o ms
  <2>1. CASE known
    BY <1>4, <2>1
  <2>2. CASE ~known
    BY <1>4, <2>2
  <2>3. QED
    BY <2>1, <2>2
<1>10. \A k \in DOMAIN ms : k = 1 /\ ms[k] = m
  <2>1. CASE ms = <<>>
    BY <2>1
  <2>2. CASE ms = <<m>>
    BY ONLY <2>2
  <2>3. QED
    BY <1>9, <2>1, <2>2
<1>11. Flow(queues, queues', 1, 3, 1, ms)
  <2>1. \/ ms = <<>> /\ n2_queue' = n2_queue
        \/ (\E k : ms = <<k>> \/ \E l : ms = <<k, l>>) /\ n2_queue' = n2_queue \o ms
    BY <1>9
  <2>2. Types /\ n1_queue # <<>> /\ n1_queue' = Tail(n1_queue) /\ UNCHANGED <<app_queue, sctp>>
    BY <1>4, <1>5, <1>8
  <2>3. QED
    BY ONLY <2>1, <2>2, N1Flow
<1>12. Taken(h.ran)'
  <2>1. generated \in Nat /\ generated' \in Nat /\ generated' >= generated /\ h.ran \in Nat
    BY <1>4, <1>5, <1>8, IdsAreAmfIds
  <2>2. 1 # 3
    BY ONLY TRUE
  <2>3. QED
    BY <1>5, <1>11, <2>1, <2>2, TakenKept
<1>13. Token(h, h.ran) /\ Question(h, h.ran)
  BY <1>4 DEF Token, Talks, Question
<1>14. \A k \in DOMAIN ms :
          /\ ms[k].type \notin {"initial", "reset"}
          /\ ms[k].ran # None => Taken(ms[k].ran)'
          /\ \A r \in RanIds : Question(ms[k], r) => Question(h, r) \/ ~LostContext(r)'
  <2>1. \A k \in DOMAIN ms : Taken(ms[k].ran)'
    BY <1>6, <1>10, <1>12 DEF Taken
  <2>2. QED
    BY <1>6, <1>10, <2>1 DEF Question
<1>15. OneMore(queues, 1, 3, ms)
  BY <1>5, <1>6, <1>10, <1>13 DEF OneMore, Token
<1>16. ASSUME NEW v \in UEs, NEW k \in DOMAIN ms, NEW what \in Whats,
              rrc[v] # None, Token(ms[k], rrc[v]), ms[k].what = what
       PROVE  Expects(v, what)
  <2>1. rrc[v] = h.ran /\ what = "challenge"
    BY <1>6, <1>10, <1>16 DEF Token
  <2>2. Token(queues[3][1], rrc[v]) /\ queues[3][1].what = "identity"
    BY <1>4, <1>5, <1>13, <2>1
  <2>3. Expects(v, queues[3][1].what)
    BY <1>5, <1>16, <2>2, PlacesAre, HeadExpects
  <2>4. Expects(v, "identity")
    BY <2>2, <2>3
  <2>5. QED
    BY <2>1, <2>4 DEF Expects, Requests
<1>17. c \in Contexts /\ c # None /\ Contexts = AmfIds
  <2>1. amfueid2nas_context[h.amf] \in Contexts \cup {None}
    BY <1>5, <1>8 DEF Types, N1Types
  <2>2. QED
    BY <1>2, <1>5, <2>1 DEF Contexts
<1>18. /\ \A x \in Contexts : nas'[x] = IF x = c THEN n ELSE nas[x]
       /\ \A b \in AmfIds : amfueid2nas_context'[b] = IF b = h.ran THEN c ELSE amfueid2nas_context[b]
       /\ \A v \in UEs : supi2Id'[v] = supi2Id[v] \/ supi2Id'[v].ran = h.ran
  <2>1. /\ nas \in [Contexts -> NasContexts] /\ amfueid2nas_context \in [AmfIds -> Contexts \cup {None}]
        /\ supi2Id \in [UEs -> [ran : RanIds, amf : 1..generated]]
    BY <1>8 DEF Types, N1Types
  <2>2. QED
    BY <1>4, <1>5, <1>17, <2>1
<1>19. /\ UNCHANGED <<app_queue, n2, generated, radio>>
       /\ \A v \in UEs : supi2Id'[v] = supi2Id[v] \/ supi2Id'[v].ran = h.ran
       /\ \A x \in Contexts : nas'[x].ran = nas[x].ran \/ nas'[x].ran = h.ran
  BY <1>4, <1>7, <1>18
<1>20. \A r \in RanIds : /\ ranid2uecontext[r].known /\ Taken(r) /\ amfueid2nas_context[r] = None =>
                               amfueid2nas_context'[r] = None
                         /\ LostContext(r)' => LostContext(r) \/ NotAsked(queues, r)
  <2> SUFFICES ASSUME NEW r \in RanIds
               PROVE  /\ ranid2uecontext[r].known /\ Taken(r) /\ amfueid2nas_context[r] = None =>
                            amfueid2nas_context'[r] = None
                      /\ LostContext(r)' => LostContext(r) \/ NotAsked(queues, r)
    OBVIOUS
  <2>1. r \in AmfIds /\ r \in Nat
    BY <1>8, IdsAreAmfIds
  <2>2. CASE r = h.ran
    <3>1. ~LostContext(r)
      BY <1>5, <1>13, <2>2, PlacesAre DEF Held, End, AskedHasContext, NotAsked
    <3>2. amfueid2nas_context'[r] # None
      BY <1>17, <1>18, <2>1, <2>2
    <3>3. ~LostContext(r)'
      BY <3>2 DEF LostContext, None
    <3>4. QED
      BY <3>1, <3>3 DEF LostContext
  <2>3. CASE r # h.ran
    <3>1. amfueid2nas_context'[r] = amfueid2nas_context[r]
      BY <1>18, <2>1, <2>3
    <3>2. ASSUME LostContext(r)' PROVE LostContext(r)
      <4>1. ranid2uecontext[r].known /\ Taken(r)' /\ amfueid2nas_context[r] = None /\ r <= generated
        BY <1>4, <3>1, <3>2 DEF LostContext, Taken, n2, None
      <4>2. ~(n1_queue[1].type = "initial")
        BY <1>5
      <4>3. Taken(r)
        BY <1>8, <1>11, <4>1, <4>2, TakenBefore
      <4>4. QED
        BY <4>1, <4>3 DEF LostContext
    <3>3. QED
      BY <3>1, <3>2
  <2>4. QED
    BY <2>2, <2>3
<1>21. OldIds'
  BY <1>4, <1>5, <1>7, <1>18 DEF Held, OldIds, Ids, None
<1>22. OldIsReleased'
  <2>1. 3 # 4 /\ 1 # 4 /\ 3 # 1
    BY ONLY TRUE
  <2>2. Held /\ Flow(queues, queues', 1, 3, 1, ms)
    BY <1>11
  <2>3. UNCHANGED <<gnb, rrc, request>>
    BY <1>4 DEF radio
  <2>4. \A x \in Contexts : nas'[x].oldAmf # None =>
           nas'[x].ran = nas[x].ran /\ nas'[x].oldAmf = nas[x].oldAmf
    BY <1>7, <1>18
  <2>5. QED
    BY ONLY <2>1, <2>2, <2>3, <2>4, OldsFollow
<1>23. Held /\ Inv' /\ Flow(queues, queues', 1, 3, 1, ms) /\ 1 \in DOMAIN queues[3] /\ queues[3][1] = h
  BY <1>5, <1>11
<1>24. QED
  BY ONLY <1>12, <1>14, <1>15, <1>16, <1>19, <1>20, <1>21, <1>22, <1>23, N1Held

\* A release command put before the reply comes before it.
LEMMA ReleasedFirst ==
  ASSUME NEW ms, Flow(queues, queues', 1, 3, 1, ms), NEW s, NEW r, NEW k, NEW m,
         ms = <<k, m>>, Command(k, s), ~Reply(k, r),
         \A z \in {1, 4} : \A i \in DOMAIN queues[z] : ~Reply(queues[z][i], r)
  PROVE  Coming(s, r)'
<1>1. DOMAIN ms = {1, 2} /\ ms[1] = k
  BY ONLY ms = <<k, m>>
<1>2. PICK e : e = Len(queues[1])
  OBVIOUS
<1>3. /\ e \in Nat /\ DOMAIN queues[1] = 1..e /\ e + 1 \in DOMAIN queues'[1] /\ queues'[1][e + 1] = k
      /\ \A i \in DOMAIN queues[1] : i \in DOMAIN queues'[1] /\ queues'[1][i] = queues[1][i]
      /\ \A i \in DOMAIN queues'[1] : i \notin DOMAIN queues[1] => i - e \in {1, 2} /\ queues'[1][i] = ms[i - e]
      /\ DOMAIN queues'[1] \subseteq Nat \ {0} /\ queues'[4] = queues[4]
  <2>1. QueueOf(queues[1])
    BY PlacesAre DEF Flow
  <2>2. /\ \A i \in DOMAIN queues[1] : i \in DOMAIN queues'[1] /\ queues'[1][i] = queues[1][i]
        /\ \A i \in DOMAIN queues'[1] : i \notin DOMAIN queues[1] =>
              i - Len(queues[1]) \in DOMAIN ms /\ queues'[1][i] = ms[i - Len(queues[1])]
        /\ \A l \in DOMAIN ms : Len(queues[1]) + l \in DOMAIN queues'[1] /\ queues'[1][Len(queues[1]) + l] = ms[l]
        /\ DOMAIN queues'[1] \subseteq Nat \ {0}
        /\ \A z \in Places : z \notin {3, 1} => queues'[z] = queues[z]
    BY DEF Flow
  <2>3. 4 \in Places /\ 4 \notin {3, 1}
    BY PlacesAre
  <2>4. QED
    BY <1>1, <1>2, <2>1, <2>2, <2>3 DEF QueueOf
<1>4. ASSUME NEW j \in DOMAIN queues'[1], Reply(queues'[1][j], r) PROVE e + 1 < j
  <2>1. j \notin DOMAIN queues[1]
    BY <1>3, <1>4
  <2>2. j - e \in {1, 2} /\ queues'[1][j] = ms[j - e] /\ j \in Nat
    BY <1>3, <2>1
  <2>3. j - e # 1
    BY <1>1, <1>4, <2>2
  <2>4. QED
    BY <1>3, <2>2, <2>3
<1>5. Ahead(queues'[1], s, r)
  BY <1>3, <1>4 DEF Ahead
<1>6. \A j \in DOMAIN queues'[4] : ~Reply(queues'[4][j], r)
  BY <1>3
<1>7. QED
  BY <1>5, <1>6, QueuesAre DEF Coming, Ahead, Command, Reply

\* What N1 puts for N2 on the first message h of a connection that the context c has now.
FirstPuts(ms, h, c) == \E k, m :
    /\ n2_queue' = n2_queue \o ms
    /\ k = Ngap("release command", nas[c].ran, nas[c].amf)
    /\ m.type \in {"downlink", "setup"} /\ m.ran = h.ran
    /\ m.what \in {"challenge", "accept", "reject", "identify"}
    /\ \/ /\ ms = <<k, m>> /\ ran_ue_id_2_ue_ngap_context(nas[c].ran, nas[c].amf)
       \/ /\ ms = <<m>>
          /\ h.what = "service" /\ h.tmsi \in Contexts =>
                ~ran_ue_id_2_ue_ngap_context(nas[c].ran, nas[c].amf)

\* It does.
LEMMA FirstAnswers ==
  ASSUME Held, nas_signalling_establishment_request_handle, NEW h, h = Head(n1_queue),
         NEW c, c = IF h.tmsi \in Contexts THEN h.tmsi ELSE h.amf
  PROVE  \E ms : FirstPuts(ms, h, c)
<1>1. PICK u : u = IF h.tmsi \in Contexts THEN nas[c].ue ELSE IF h.what = "register" THEN h.ue ELSE None
  OBVIOUS
<1>2. /\ Takes(n1_queue, "initial")
      /\ n2_queue' = n2_queue \o
                CASE h.what = "register" -> Answer("downlink", h.ran, h.amf, "challenge", u, None)
                  [] h.what = "service" /\ h.tmsi \in Contexts ->
                         old_connection(c) \o Answer("setup", h.ran, h.amf, "accept", u, None)
                  [] h.what = "service" /\ ~(h.tmsi \in Contexts) ->
                         Answer("downlink", h.ran, h.amf, "reject", u, None)
                  [] h.what = "update" /\ h.tmsi \in Contexts ->
                         Answer("downlink", h.ran, h.amf, "accept", u, ue_context[h.amf].tmsi)
                  [] h.what = "update" /\ ~(h.tmsi \in Contexts) ->
                         Answer("downlink", h.ran, h.amf, "identify", u, None)
  BY <1>1 DEF nas_signalling_establishment_request_handle
<1>3. h.what \in {"register", "service", "update"}
  BY <1>2, N1Talks DEF Requests
<1>4. PICK k : k = Ngap("release command", nas[c].ran, nas[c].amf)
  OBVIOUS
<1>5. ASSUME NEW m, m.type \in {"downlink", "setup"}, m.ran = h.ran,
             m.what \in {"challenge", "accept", "reject", "identify"},
             n2_queue' = n2_queue \o <<m>>,
             h.what = "service" /\ h.tmsi \in Contexts =>
                ~ran_ue_id_2_ue_ngap_context(nas[c].ran, nas[c].amf)
      PROVE  FirstPuts(<<m>>, h, c)
  BY <1>4, <1>5 DEF FirstPuts
<1>6. CASE h.what = "service" /\ h.tmsi \in Contexts
  <2>1. PICK m : m = Message("setup", h.ran, h.amf, "accept", u, None)
    OBVIOUS
  <2>2. m.type = "setup" /\ m.ran = h.ran /\ m.what = "accept"
    BY <2>1 DEF Message
  <2>3. n2_queue' = n2_queue \o (old_connection(c) \o <<m>>)
    BY <1>2, <1>6, <2>1 DEF Answer
  <2>4. CASE ran_ue_id_2_ue_ngap_context(nas[c].ran, nas[c].amf)
    <3>1. old_connection(c) = <<k>>
      BY <1>4, <2>4 DEF old_connection
    <3>2. <<k>> \o <<m>> = <<k, m>>
      BY Joined DEF Held, Inv
    <3>3. n2_queue' = n2_queue \o <<k, m>>
      BY <2>3, <3>1, <3>2
    <3>4. QED
      BY <1>4, <2>2, <2>4, <3>3 DEF FirstPuts
  <2>5. CASE ~ran_ue_id_2_ue_ngap_context(nas[c].ran, nas[c].amf)
    <3>1. old_connection(c) = <<>>
      BY <2>5 DEF old_connection
    <3>2. <<>> \o <<m>> = <<m>>
      BY Joined DEF Held, Inv
    <3>3. n2_queue' = n2_queue \o <<m>>
      BY <2>3, <3>1, <3>2
    <3>4. QED
      BY <1>5, <2>2, <2>5, <3>3
  <2>6. QED
    BY <2>4, <2>5
<1>7. CASE ~(h.what = "service" /\ h.tmsi \in Contexts)
  <2>1. PICK t, w, x : /\ t \in {"downlink", "setup"} /\ w \in {"challenge", "accept", "reject", "identify"}
                       /\ n2_queue' = n2_queue \o Answer(t, h.ran, h.amf, w, u, x)
    <3>1. CASE h.what = "register"
      BY <1>2, <3>1
    <3>2. CASE h.what = "service"
      BY <1>2, <1>7, <3>2
    <3>3. CASE h.what = "update" /\ h.tmsi \in Contexts
      BY <1>2, <3>3
    <3>4. CASE h.what = "update" /\ h.tmsi \notin Contexts
      BY <1>2, <3>4
    <3>5. QED
      BY <1>3, <3>1, <3>2, <3>3, <3>4
  <2>2. PICK m : m = Message(t, h.ran, h.amf, w, u, x)
    OBVIOUS
  <2>3. m.type = t /\ m.ran = h.ran /\ m.what = w
    BY <2>2 DEF Message
  <2>4. n2_queue' = n2_queue \o <<m>>
    BY <2>1, <2>2 DEF Answer
  <2>5. QED
    BY <1>5, <1>7, <2>1, <2>3, <2>4
<1>8. QED
  BY <1>6, <1>7

\* The first message of a connection: its context follows the UE to it, or is new.
LEMMA FirstNasHeld ==
  ASSUME Held, Inv', nas_signalling_establishment_request_handle
  PROVE  Held'
<1>1. PICK h, c, found : /\ h = Head(n1_queue) /\ found = (h.tmsi \in Contexts)
                         /\ c = IF h.tmsi \in Contexts THEN h.tmsi ELSE h.amf
  OBVIOUS
<1>2. PICK u : u = IF found THEN nas[c].ue ELSE IF h.what = "register" THEN h.ue ELSE None
  OBVIOUS
<1>3. PICK n : n = IF found
                   THEN [nas[c] EXCEPT !.oldRan = nas[c].ran, !.oldAmf = nas[c].amf,
                                       !.ran = h.ran, !.amf = h.amf]
                   ELSE Connected(u, h.ran, h.amf)
  OBVIOUS
<1>4. /\ Takes(n1_queue, "initial") /\ n1_queue' = Tail(n1_queue)
      /\ UNCHANGED <<app_queue, sctp, n2, generated, radio>>
      /\ amfueid2nas_context' = [amfueid2nas_context EXCEPT ![h.amf] = c]
      /\ nas' = [nas EXCEPT ![c] = n]
      /\ supi2Id' = IF u = None THEN supi2Id
                    ELSE [supi2Id EXCEPT ![u] = [ran |-> h.ran, amf |-> h.amf]]
  BY <1>1, <1>2, <1>3 DEF nas_signalling_establishment_request_handle, N1Keeps, app
<1>5. /\ n1_queue # <<>> /\ h.type = "initial" /\ h = n1_queue[1] /\ h = queues[3][1] /\ 1 \in DOMAIN queues[3]
      /\ h.ran = h.amf /\ h.amf \in Ids /\ h.ran \in RanIds /\ h.ran # None /\ h.ran \in AmfIds
      /\ h.what \in Requests
      /\ Token(h, h.ran) =>
            \A z \in Places : \A i \in DOMAIN queues[z] : Token(queues[z][i], h.ran) => z = 3 /\ i = 1
  BY <1>1, <1>4, N1Talks
<1>6. Token(h, h.ran)
  BY <1>5 DEF Token, Talks
<1>7. Types /\ Types' /\ \A q \in RanIds : q \in Nat /\ q # None
  BY QueueNumbers DEF Held, Inv
<1>8. PICK ms, k, m :
         /\ n2_queue' = n2_queue \o ms
         /\ k = Ngap("release command", nas[c].ran, nas[c].amf)
         /\ m.type \in {"downlink", "setup"} /\ m.ran = h.ran
         /\ m.what \in {"challenge", "accept", "reject", "identify"}
         /\ \/ /\ ms = <<k, m>> /\ ran_ue_id_2_ue_ngap_context(nas[c].ran, nas[c].amf)
            \/ /\ ms = <<m>>
               /\ h.what = "service" /\ h.tmsi \in Contexts =>
                     ~ran_ue_id_2_ue_ngap_context(nas[c].ran, nas[c].amf)
  <2>1. /\ Held /\ nas_signalling_establishment_request_handle /\ h = Head(n1_queue)
        /\ c = IF h.tmsi \in Contexts THEN h.tmsi ELSE h.amf
    BY <1>1
  <2>2. PICK ms : FirstPuts(ms, h, c)
    BY ONLY <2>1, FirstAnswers
  <2>3. QED
    BY ONLY <2>2 DEF FirstPuts
<1>9. k.type = "release command" /\ k.ran = nas[c].ran /\ k.what = "none" /\ k.tmsi = None
  BY <1>8 DEF Ngap, Message
<1>10. /\ c \in Contexts /\ c # None /\ Contexts = AmfIds
       /\ nas \in [Contexts -> NasContexts] /\ nas[c] \in NasContexts
       /\ nas[c].ran = nas[c].amf /\ nas[c].amf \in Ids \cup {None}
  <2>1. c \in Contexts /\ Contexts = AmfIds /\ None \notin AmfIds
    BY <1>1, <1>5, <1>7, IdsAreAmfIds
  <2>2. nas \in [Contexts -> NasContexts] /\ OwnNas
    BY <1>7 DEF Types, N1Types, Held, Inv, Own
  <2>3. QED
    BY <2>1, <2>2 DEF OwnNas
<1>11. \A l \in DOMAIN ms : \/ ms[l] = m /\ DOMAIN ms = {1} /\ l = 1
                            \/ ms[l] = m /\ ms[1] = k /\ DOMAIN ms = {1, 2} /\ l = 2
                            \/ ms[l] = k /\ l = 1 /\ ran_ue_id_2_ue_ngap_context(nas[c].ran, nas[c].amf)
  <2>1. CASE ms = <<m>>
    BY ONLY <2>1
  <2>2. CASE ms = <<k, m>> /\ ran_ue_id_2_ue_ngap_context(nas[c].ran, nas[c].amf)
    <3>1. DOMAIN ms = {1, 2} /\ ms[1] = k /\ ms[2] = m
      BY ONLY <2>2
    <3>2. QED
      BY <2>2, <3>1
  <2>3. QED
    BY <1>8, <2>1, <2>2
<1>12. Flow(queues, queues', 1, 3, 1, ms)
  <2>1. \/ ms = <<>> /\ n2_queue' = n2_queue
        \/ (\E x : ms = <<x>> \/ \E y : ms = <<x, y>>) /\ n2_queue' = n2_queue \o ms
    BY <1>8
  <2>2. Types /\ n1_queue # <<>> /\ n1_queue' = Tail(n1_queue) /\ UNCHANGED <<app_queue, sctp>>
    BY <1>4, <1>5, <1>7
  <2>3. QED
    BY ONLY <2>1, <2>2, N1Flow
<1>13. UNCHANGED <<gnb, rrc, guti, request, opened>>
  BY <1>4 DEF radio
<1>14. Taken(h.ran)'
  <2>1. ASSUME NEW i \in DOMAIN n1_queue', n1_queue'[i].type = "initial", n1_queue'[i].ran = h.ran
        PROVE  FALSE
    <3>1. i + 1 \in DOMAIN queues[3] /\ n1_queue'[i] = queues[3][i + 1] /\ i \in Nat \ {0}
      BY <1>12, <2>1, QueuesAre DEF Flow
    <3>2. N1Message(n1_queue[i + 1]) /\ n1_queue'[i] = n1_queue[i + 1]
      BY <3>1, QueuesAre DEF Held, Inv, AllMessages
    <3>3. Token(queues[3][i + 1], h.ran)
      BY <2>1, <3>1, <3>2 DEF N1Message, Token, Talks
    <3>4. i + 1 = 1
      BY <1>5, <1>6, <3>1, <3>3, PlacesAre
    <3>5. QED
      BY <3>1, <3>4
  <2>2. h.ran <= generated
    BY <1>5, <1>7, IdsAreAmfIds DEF Ids
  <2>3. QED
    BY <1>4, <2>1, <2>2 DEF Taken
<1>15. ~Taken(h.ran)
  <2>1. 1 \in DOMAIN n1_queue /\ n1_queue[1].type = "initial" /\ n1_queue[1].ran = h.ran
    BY <1>5, QueuesAre
  <2>2. QED
    BY <2>1 DEF Taken
<1>16. \A l \in DOMAIN ms, r \in RanIds : Token(ms[l], r) => r = h.ran /\ ms[l] = m
  BY <1>8, <1>9, <1>11 DEF Token, Talks, Requests
<1>17. OneMore(queues, 1, 3, ms)
  <2> SUFFICES ASSUME NEW r \in RanIds, NEW l \in DOMAIN ms, Token(ms[l], r)
               PROVE  /\ \A x \in DOMAIN ms : Token(ms[x], r) => x = l
                      /\ 1 = 1 /\ Token(queues[3][1], r)
    BY DEF OneMore
  <2>1. r = h.ran
    BY <1>16
  <2>2. \A x \in DOMAIN ms : Token(ms[x], r) => ms[x] # k
    BY <1>9 DEF Token, Talks, Requests
  <2>3. \A x \in DOMAIN ms : Token(ms[x], r) => x = l
    <3>1. l = (IF DOMAIN ms = {1, 2} THEN 2 ELSE 1) \/ ms[l] = k
      BY <1>11
    <3>2. \A x \in DOMAIN ms : x = (IF DOMAIN ms = {1, 2} THEN 2 ELSE 1) \/ ms[x] = k
      <4> SUFFICES ASSUME NEW x \in DOMAIN ms
                   PROVE  x = (IF DOMAIN ms = {1, 2} THEN 2 ELSE 1) \/ ms[x] = k
        OBVIOUS
      <4>1. {1} # {1, 2}
        OBVIOUS
      <4>2. QED
        BY <1>11, <4>1
    <3>3. QED
      BY <2>2, <3>1, <3>2
  <2>4. QED
    BY <1>5, <1>6, <2>1, <2>3
<1>18. ASSUME NEW v \in UEs, rrc[v] = h.ran PROVE request[v].waits /\ request[v].kind = h.what
  <2>1. Token(queues[3][1], rrc[v]) /\ rrc[v] # None /\ queues[3][1].what = h.what
    BY <1>5, <1>6, <1>18
  <2>2. Expects(v, queues[3][1].what)
    BY <1>5, <2>1, PlacesAre, HeadExpects
  <2>3. Expects(v, h.what)
    BY <2>1, <2>2
  <2>4. QED
    BY <1>5, <2>3 DEF Expects, Requests
<1>19. ASSUME NEW v \in UEs, NEW l \in DOMAIN ms, NEW what \in Whats,
              rrc[v] # None, Token(ms[l], rrc[v]), ms[l].what = what
       PROVE  Expects(v, what)
  <2>1. rrc[v] \in RanIds
    BY <1>7, <1>19 DEF Types, RadioTypes
  <2>2. rrc[v] = h.ran /\ what \in {"challenge", "accept", "reject", "identify"}
    BY <1>8, <1>16, <1>19, <2>1
  <2>3. request[v].waits
    BY <1>18, <2>2
  <2>4. QED
    BY <2>2, <2>3 DEF Expects, Requests
<1>20. /\ \A x \in Contexts : nas'[x] = IF x = c THEN n ELSE nas[x]
       /\ \A b \in AmfIds : amfueid2nas_context'[b] = IF b = h.ran THEN c ELSE amfueid2nas_context[b]
       /\ \A v \in UEs : supi2Id'[v] = supi2Id[v] \/ supi2Id'[v].ran = h.ran
  <2>1. /\ amfueid2nas_context \in [AmfIds -> Contexts \cup {None}]
        /\ supi2Id \in [UEs -> [ran : RanIds, amf : 1..generated]]
    BY <1>7 DEF Types, N1Types
  <2>2. \A x \in Contexts : nas'[x] = IF x = c THEN n ELSE nas[x]
    BY <1>4, <1>10
  <2>3. \A b \in AmfIds : amfueid2nas_context'[b] = IF b = h.ran THEN c ELSE amfueid2nas_context[b]
    BY <1>4, <1>5, <2>1
  <2>4. \A v \in UEs : supi2Id'[v] = supi2Id[v] \/ supi2Id'[v].ran = h.ran
    BY <1>4, <2>1
  <2>5. QED
    BY <2>2, <2>3, <2>4
<1>21. /\ n.ran = h.ran
       /\ found => n.oldRan = nas[c].ran /\ n.oldAmf = nas[c].amf
       /\ ~found => n.oldRan = None /\ n.oldAmf = None
  <2>1. CASE found
    BY <1>3, <1>10, <2>1 DEF NasContexts
  <2>2. CASE ~found
    BY <1>3, <2>2 DEF Connected
  <2>3. QED
    BY <1>1, <2>1, <2>2
<1>22. \A l \in DOMAIN ms :
          /\ ms[l].type \notin {"initial", "reset"}
          /\ ms[l].ran # None => Taken(ms[l].ran)'
          /\ \A r \in RanIds : Question(ms[l], r) => Question(h, r) \/ ~LostContext(r)'
  <2> SUFFICES ASSUME NEW l \in DOMAIN ms
               PROVE  /\ ms[l].type \notin {"initial", "reset"}
                      /\ ms[l].ran # None => Taken(ms[l].ran)'
                      /\ \A r \in RanIds : Question(ms[l], r) => ~LostContext(r)'
    OBVIOUS
  <2>1. CASE ms[l] = m
    <3>1. Taken(ms[l].ran)'
      BY <1>8, <1>14, <2>1 DEF Taken
    <3>2. amfueid2nas_context'[h.ran] # None
      BY <1>5, <1>10, <1>20
    <3>3. \A r \in RanIds : Question(ms[l], r) => ~LostContext(r)'
      BY <1>8, <2>1, <3>2 DEF Question, LostContext, None
    <3>4. QED
      BY <1>8, <2>1, <3>1, <3>3
  <2>2. CASE ms[l] = k /\ ran_ue_id_2_ue_ngap_context(nas[c].ran, nas[c].amf)
    <3>1. nas[c].ran # None /\ nas[c].ran \in Nat
      BY <1>10, <2>2, IdsAreAmfIds, <1>7 DEF ran_ue_id_2_ue_ngap_context, Key
    <3>2. PICK r \in Nat : r = nas[c].ran /\ r = ms[l].ran
      BY <1>9, <2>2, <3>1
    <3>3. Taken(r)
      BY <1>10, <3>1, <3>2 DEF Held, Later, LaterTables
    <3>4. Taken(r)'
      <4>1. generated \in Nat /\ generated' \in Nat /\ generated' >= generated
        BY <1>4, <1>7, IdsAreAmfIds
      <4>2. 1 # 3
        BY ONLY TRUE
      <4>3. QED
        BY <1>12, <3>3, <4>1, <4>2, TakenKept
    <3>5. Taken(ms[l].ran)'
      BY <3>2, <3>4 DEF Taken
    <3>6. \A r2 \in RanIds : ~Question(ms[l], r2)
      BY <1>9, <2>2 DEF Question
    <3>7. QED
      BY <1>9, <2>2, <3>5, <3>6
  <2>3. QED
    BY <1>11, <2>1, <2>2
<1>23. /\ UNCHANGED <<app_queue, n2, generated, radio>>
       /\ \A v \in UEs : supi2Id'[v] = supi2Id[v] \/ supi2Id'[v].ran = h.ran
       /\ \A x \in Contexts : nas'[x].ran = nas[x].ran \/ nas'[x].ran = h.ran
  BY <1>4, <1>20, <1>21
<1>24. \A r \in RanIds : /\ ranid2uecontext[r].known /\ Taken(r) /\ amfueid2nas_context[r] = None =>
                               amfueid2nas_context'[r] = None
                         /\ LostContext(r)' => LostContext(r) \/ NotAsked(queues, r)
  <2> SUFFICES ASSUME NEW r \in RanIds
               PROVE  /\ Taken(r) /\ amfueid2nas_context[r] = None => amfueid2nas_context'[r] = None
                      /\ LostContext(r)' => LostContext(r)
    OBVIOUS
  <2>1. r \in AmfIds /\ r \in Nat
    BY <1>7, IdsAreAmfIds
  <2>2. CASE r = h.ran
    <3>1. amfueid2nas_context'[r] # None
      BY <1>10, <1>20, <2>1, <2>2
    <3>2. ~LostContext(r)'
      BY <3>1 DEF LostContext, None
    <3>3. QED
      BY <1>15, <2>2, <3>2
  <2>3. CASE r # h.ran
    <3>1. amfueid2nas_context'[r] = amfueid2nas_context[r]
      BY <1>20, <2>1, <2>3
    <3>2. ASSUME LostContext(r)' PROVE LostContext(r)
      <4>1. ranid2uecontext[r].known /\ Taken(r)' /\ amfueid2nas_context[r] = None /\ r <= generated
        BY <1>4, <3>1, <3>2 DEF LostContext, Taken, n2, None
      <4>2. n1_queue[1].ran # r
        BY <1>5, <2>3
      <4>3. Taken(r)
        BY <1>7, <1>12, <4>1, <4>2, TakenBefore
      <4>4. QED
        BY <4>1, <4>3 DEF LostContext
    <3>3. QED
      BY <3>1, <3>2
  <2>4. QED
    BY <2>2, <2>3
<1>25. OldIds'
  <2>1. Ids' = Ids /\ OldIds
    BY <1>4 DEF Ids, Held
  <2>2. \A x \in Contexts : /\ nas'[x].oldRan = nas'[x].oldAmf /\ nas'[x].oldAmf \in Ids \cup {None}
                            /\ nas'[x].oldAmf # None => nas'[x].ran # None
    BY <1>5, <1>10, <1>20, <1>21, <2>1 DEF OldIds
  <2>3. QED
    BY <2>1, <2>2 DEF OldIds, None
<1>26. ASSUME NEW v \in UEs, NEW x \in Contexts, rrc[v] # None, request[v].kind = "service",
              nas'[x].ran = rrc[v], nas'[x].oldAmf # None
       PROVE  gnb[nas'[x].oldAmf] = Free \/ (request[v].waits /\ Coming(nas[x].oldAmf, rrc[v])')
  <2>1. PICK s, r : s = nas'[x].oldAmf /\ r = rrc[v]
    OBVIOUS
  <2>2. CASE x = c
    <3>1. found /\ s = nas[c].amf /\ r = h.ran
      BY <1>20, <1>21, <1>26, <2>1, <2>2
    <3>2. s \in Ids /\ s # None /\ nas[c].ran = s
      BY <1>10, <1>26, <2>1, <3>1
    <3>3. request[v].waits /\ h.what = "service"
      BY <1>18, <1>26, <2>1, <3>1
    <3>4. CASE ranid2uecontext[s].known
      <4>1. ran_ue_id_2_ue_ngap_context(nas[c].ran, nas[c].amf)
        BY <3>1, <3>2, <3>4, KeyHolds DEF ran_ue_id_2_ue_ngap_context, Held
      <4>2. ms = <<k, m>>
        BY <1>1, <1>8, <3>1, <3>3, <4>1
      <4>3. Command(k, s) /\ ~Reply(k, r)
        BY <1>9, <3>2 DEF Command, Reply
      <4>4. \A z \in {1, 4} : \A i \in DOMAIN queues[z] : ~Reply(queues[z][i], r)
        <5> SUFFICES ASSUME NEW z \in {1, 4}, NEW i \in DOMAIN queues[z], Reply(queues[z][i], r)
                     PROVE  FALSE
          OBVIOUS
        <5>1. Token(queues[z][i], h.ran)
          BY <3>1 DEF Reply, Token, Talks
        <5>2. z \in Places /\ z # 3
          BY PlacesAre
        <5>3. QED
          BY <1>5, <1>6, <5>1, <5>2
      <4>5. Flow(queues, queues', 1, 3, 1, ms)
        BY <1>12
      <4>6. Coming(s, r)'
        BY ONLY <4>2, <4>3, <4>4, <4>5, ReleasedFirst
      <4>7. nas'[x].oldAmf = s /\ rrc'[v] = r
        BY <1>13, <2>1
      <4>8. Coming(nas[x].oldAmf, rrc[v])'
        BY ONLY <4>6, <4>7 DEF Coming, Ahead, Command, Reply
      <4>9. QED
        BY <3>3, <4>8
    <3>5. CASE ~ranid2uecontext[s].known
      BY <2>1, <3>2, <3>5, ForgottenEnded
    <3>6. QED
      BY <3>4, <3>5
  <2>3. CASE x # c
    <3>1. nas'[x] = nas[x]
      BY <1>20, <2>3
    <3>2. s = nas[x].oldAmf /\ s # None /\ r # None /\ nas[x].ran = r
      BY <1>26, <2>1, <3>1
    <3>3. 3 # 1 /\ 3 # 4 /\ 1 # 4
      BY ONLY TRUE
    <3>4. gnb'[s] = Free \/ (request'[v].waits /\ Coming(s, r)')
      BY <1>12, <1>13, <1>26, <2>1, <3>2, <3>3, OldFollows
    <3>5. nas'[x].oldAmf = s /\ rrc'[v] = r /\ gnb' = gnb /\ request' = request
      BY <1>13, <2>1
    <3>6. Coming(s, r)' => Coming(nas[x].oldAmf, rrc[v])'
      BY ONLY <3>5 DEF Coming, Ahead, Command, Reply
    <3>7. QED
      BY <3>4, <3>5, <3>6
  <2>4. QED
    BY <2>2, <2>3
<1>27. OldIsReleased'
  BY <1>13, <1>26 DEF OldIsReleased, None, Free
<1>28. Held /\ Inv' /\ Flow(queues, queues', 1, 3, 1, ms) /\ 1 \in DOMAIN queues[3] /\ queues[3][1] = h
  BY <1>5, <1>12
<1>29. QED
  BY ONLY <1>14, <1>17, <1>19, <1>22, <1>23, <1>24, <1>25, <1>27, <1>28, N1Held

-----------------------------------------------------------------------------
(* The invariant holds.                                                     *)

\* At first nothing is on its way, and every UE is on its connection.
LEMMA InitHeld == Init => Held
<1> SUFFICES ASSUME Init PROVE Held
  OBVIOUS
<1>1. Inv
  BY InitInv
<1>2. n2_queue = <<>> /\ app_queue = <<>> /\ n1_queue = <<>> /\ sctp = <<>>
  BY DEF Init
<1>3. \A z \in Places : DOMAIN queues[z] = {}
  <2>1. DOMAIN <<>> = {}
    OBVIOUS
  <2>2. QED
    BY <1>2, <2>1, QueuesAre
<1>4. DOMAIN n2_queue = {} /\ DOMAIN app_queue = {} /\ DOMAIN n1_queue = {}
  BY <1>3, QueuesAre
<1>5. /\ UEs = 1..NumUes /\ NumUes \in Nat /\ generated = NumUes /\ opened = NumUes
      /\ UEs \subseteq RanIds /\ RanIds = AmfIds /\ Contexts = AmfIds /\ None \notin RanIds /\ None = 0
      /\ Ids = UEs
  <2>1. MaxAmfId \in Nat /\ NumUes \in Nat /\ NumUes <= MaxAmfId
    OBVIOUS
  <2>2. QED
    BY <2>1 DEF Init, UEs, RanIds, AmfIds, Contexts, None, Ids
<1>6. /\ \A r \in RanIds : ranid2uecontext[r] = IF r \in UEs THEN [known |-> TRUE, amf |-> r, tmsi |-> None] ELSE Unknown
      /\ \A r \in RanIds : gnb[r] = IF r \in UEs THEN [ue |-> r, amf |-> r] ELSE Free
      /\ \A c \in Contexts : nas[c] = IF c \in UEs THEN Connected(c, c, c) ELSE nas_context
  BY DEF Init
<1>7. ASSUME NEW r \in RanIds
      PROVE  /\ r \in UEs => ranid2uecontext[r].known /\ ranid2uecontext[r].amf = r /\ gnb[r].ue = r
             /\ r \notin UEs => ~ranid2uecontext[r].known /\ gnb[r] = Free /\ gnb[r].amf = None
  <2>1. CASE r \in UEs
    <3>1. ranid2uecontext[r] = [known |-> TRUE, amf |-> r, tmsi |-> None] /\ gnb[r] = [ue |-> r, amf |-> r]
      BY <1>6, <2>1
    <3>2. QED
      BY <2>1, <3>1
  <2>2. CASE r \notin UEs
    <3>1. ranid2uecontext[r] = Unknown /\ gnb[r] = Free
      BY <1>6, <2>2
    <3>2. QED
      BY <2>2, <3>1 DEF Unknown, Free
  <2>3. QED
    BY <2>1, <2>2
<1>8. ASSUME NEW c \in Contexts
      PROVE  /\ nas[c].ran = IF c \in UEs THEN c ELSE None
             /\ nas[c].oldRan = None /\ nas[c].oldAmf = None
  <2>1. CASE c \in UEs
    <3>1. nas[c] = Connected(c, c, c)
      BY <1>6, <2>1
    <3>2. QED
      BY <2>1, <3>1 DEF Connected
  <2>2. CASE c \notin UEs
    <3>1. nas[c] = nas_context
      BY <1>6, <2>2
    <3>2. QED
      BY <2>2, <3>1 DEF Connected, nas_context
  <2>3. QED
    BY <2>1, <2>2
<1>9. \A r \in UEs : Taken(r)
  BY <1>4, <1>5 DEF Taken
<1>10. PlainTransfers
  BY <1>4 DEF PlainTransfers
<1>11. OneLink
  <2>1. \A u \in UEs : rrc[u] = u
    BY DEF Init
  <2>2. QED
    BY <1>5, <2>1 DEF OneLink
<1>12. Talk
  BY <1>3 DEF Talk, One, Expected, ExpectedFor
<1>13. Later
  <2>1. \A r \in RanIds : gnb[r].amf # None => r \in UEs
    BY <1>7
  <2>2. \A u \in UEs : supi2Id[u].ran = u
    BY DEF Init
  <2>3. \A c \in Contexts : nas[c].ran # None => c \in UEs /\ nas[c].ran = c
    BY <1>8
  <2>4. LaterTables
    BY <1>9, <2>1, <2>2, <2>3 DEF LaterTables
  <2>5. QED
    BY <1>3, <2>4 DEF Later, LaterIn
<1>14. End
  <2>1. ResetFrees /\ FreeIsReset
    BY <1>4 DEF ResetFrees, FreeIsReset
  <2>2. ForgottenIsFree
    BY <1>7 DEF ForgottenIsFree
  <2>3. KnownByBoth
    <3>1. amfueid2uecontext = UEs
      BY DEF Init
    <3>2. QED
      BY <1>5, <1>7, <3>1 DEF KnownByBoth
  <2>4. EndIsTold
    <3>1. \A r \in RanIds : ranid2uecontext[r].known => r \in UEs
      BY <1>7
    <3>2. \A r \in UEs : gnb[r] # Free
      <4>1. \A r \in UEs : gnb[r].ue = r /\ r # None
        BY <1>5, <1>7
      <4>2. Free.ue = None
        BY DEF Free
      <4>3. QED
        BY <4>1, <4>2
    <3>3. QED
      BY <3>1, <3>2 DEF EndIsTold
  <2>5. AskedHasContext
    BY <1>3 DEF AskedHasContext, NotAsked
  <2>6. QED
    BY <2>1, <2>2, <2>3, <2>4, <2>5 DEF End
<1>15. OldIds /\ OldIsReleased
  BY <1>8 DEF OldIds, OldIsReleased
<1>16. QED
  BY <1>1, <1>10, <1>11, <1>12, <1>13, <1>14, <1>15 DEF Held

\* Every step keeps it.
LEMMA NextHeld == Held /\ [Next]_vars => Held'
<1> SUFFICES ASSUME Held, [Next]_vars PROVE Held'
  OBVIOUS
<1>1. Inv'
  BY NextInv DEF Held
<1>2. CASE UNCHANGED vars
  BY <1>1, <1>2, LoseHeld
<1>3. CASE Environment
  <2>1. CASE \E u \in UEs : Lose(u)
    BY <1>1, <2>1, LoseHeld
  <2>2. ASSUME NEW u \in UEs,
               \/ \E what \in Requests : Open(u, what)
               \/ Deregister(u)
               \/ \E what \in {"paging", "nas", "setup"} : Transfer(u, what)
        PROVE  Held'
    BY <1>1, <2>2, OpenHeld, DeregisterHeld, TransferHeld
  <2>3. ASSUME NEW r \in RanIds, AskForRelease(r) PROVE Held'
    BY <1>1, <2>3, AskHeld
  <2>4. CASE Reset \/ Expire
    BY <1>1, <2>4, ResetHeld, ExpireHeld
  <2>5. QED
    BY <1>3, <2>1, <2>2, <2>3, <2>4 DEF Environment
<1>4. CASE Gnb
  BY <1>1, <1>4, ReleaseStepHeld, DeliverStepHeld, PagedHeld DEF Gnb
<1>5. CASE AMF_N2
  BY <1>1, <1>5, InitialHeld, UplinkHeld, ReleaseHeld, DownlinkHeld, SetupHeld, ReleaseCompleteHeld,
     NgResetHeld DEF AMF_N2
<1>6. CASE AMF_APP
  BY <1>1, <1>6, EstablishmentHeld, TransferRequestHeld DEF AMF_APP
<1>7. CASE AMF_N1
  BY <1>1, <1>7, FirstNasHeld, CompleteHeld, IdentityHeld, DeregistrationHeld, DownlinkTransferHeld,
     TimeoutHeld DEF AMF_N1
<1>8. QED
  BY <1>2, <1>3, <1>4, <1>5, <1>6, <1>7 DEF Next

\* It holds in every behaviour.
THEOREM HeldAlways == Spec => []Held
<1>1. Init => Held
  BY InitHeld
<1>2. Held /\ [Next]_vars => Held'
  BY NextHeld
<1>3. QED
  BY <1>1, <1>2, PTL DEF Spec

\* When the queues are empty, N2 has forgotten what the gNB has not, but for connections
\* of which N1 has lost the context.
LEMMA HeldForgets == Held => EndedConnectionForgotten
<1> SUFFICES ASSUME Held, n2_queue = <<>>, app_queue = <<>>, n1_queue = <<>>, sctp = <<>>,
                    NEW r \in RanIds, ranid2uecontext[r].known, gnb[r] = Free
             PROVE  amfueid2nas_context[ranid2uecontext[r].amf] = None
  BY DEF EndedConnectionForgotten
<1>1. DOMAIN n2_queue = {}
  OBVIOUS
<1>2. Taken(r) /\ amfueid2nas_context[r] = None
  BY <1>1 DEF Held, End, EndIsTold
<1>3. ranid2uecontext[r].amf = r
  BY <1>2 DEF Held, End, KnownByBoth, Taken
<1>4. QED
  BY <1>2, <1>3

\* An accepted UE has no other connection.
LEMMA HeldAccepts == Held => AcceptedOnOneConnection
<1> SUFFICES ASSUME Held, NEW u \in UEs, NEW c \in Contexts,
                    request[u] = [kind |-> "service", waits |-> FALSE],
                    nas[c].ran = rrc[u], nas[c].oldAmf # None,
                    gnb[nas[c].oldRan] = [ue |-> u, amf |-> nas[c].oldAmf]
             PROVE  FALSE
  BY DEF AcceptedOnOneConnection
<1>1. nas[c].oldRan = nas[c].oldAmf /\ rrc[u] # None
  BY DEF Held, OldIds
<1>2. request[u].kind = "service" /\ ~request[u].waits
  OBVIOUS
<1>3. gnb[nas[c].oldAmf] = Free
  BY <1>1, <1>2 DEF Held, OldIsReleased
<1>4. u # None
  BY DEF UEs, None
<1>5. QED
  BY <1>1, <1>3, <1>4 DEF Free

\* EndedConnectionForgotten holds: a connection is known to N2 until the release complete
\* or the reset that ends it has been handled, or its UE has deregistered.
THEOREM EndsAreForgotten == Spec => []EndedConnectionForgotten
BY HeldAlways, HeldForgets, PTL

\* AcceptedOnOneConnection holds: the release of the connection a UE came from stays ahead
\* of every reply to its service request, through the queue of N2 and that of the gNB.
THEOREM AcceptedOnOne == Spec => []AcceptedOnOneConnection
BY HeldAlways, HeldAccepts, PTL
=============================================================================
