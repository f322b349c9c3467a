--------------------------- MODULE AmfConnections ---------------------------
(***************************************************************************)
(* The N2 connections of the AMF's UEs: the tables of its tasks N2, APP and *)
(* N1 while UEs come, are lost and come back, connections are released by   *)
(* the gNB or by the AMF, the gNB resets N2, data waits for an idle UE and  *)
(* reachability timers expire.                                              *)
(*                                                                          *)
(* One gNB, whose two directions of SCTP keep the order and which gives no  *)
(* RAN UE NGAP ID twice.  Authentication and security mode control, of      *)
(* which each step needs the one before, are one challenge and one          *)
(* completion.  A nas_context is named by the AMF UE NGAP ID it was created *)
(* for, and so is the GUTI allocated with it: the AMF finds it by that GUTI *)
(* until the UE deregisters, and the UE does not use it again after that.   *)
(* What only events and statistics read, and PDU sessions, are left out.    *)
(***************************************************************************)
EXTENDS Naturals, Sequences

CONSTANTS
    NumUes,
    MaxAmfId,       \* bounds the connections: each gets new IDs on both sides
    MaxEvents       \* bounds connections, the SMF's requests and resets together

ASSUME BoundsAssumption ==
    /\ {NumUes, MaxAmfId, MaxEvents} \subseteq Nat
    /\ 1 <= NumUes /\ NumUes <= MaxAmfId

None == 0
Zero == MaxAmfId + 1    \* the TMSI of a ue_context that was not given one
UEs == 1..NumUes
AmfIds == 1..MaxAmfId
RanIds == AmfIds
Contexts == AmfIds
Tmsi == AmfIds \cup {Zero}

VARIABLES
    \* the queues of the tasks, and what the AMF has sent to the gNB
    n2_queue, app_queue, n1_queue, sctp,
    \* TASK_AMF_N2
    ranid2uecontext, amfueid2uecontext,
    \* TASK_AMF_APP
    ue_context, generated,
    \* TASK_AMF_N1; supi2Id stands for supi2amfId and supi2ranId
    amfueid2nas_context, supi2Id, nas, timers,
    crashed,
    \* the gNB's connections; the UEs' radio connections, GUTIs and requests
    gnb, rrc, guti, request, opened,
    others

queues == <<n2_queue, app_queue, n1_queue, sctp>>
n2 == <<ranid2uecontext, amfueid2uecontext>>
app == <<ue_context, generated>>
n1 == <<amfueid2nas_context, supi2Id, nas, timers>>
radio == <<gnb, rrc, guti, request, opened>>
vars == <<queues, n2, app, n1, crashed, radio, others>>

Requests == {"register", "service", "update"}
Unknown == [known |-> FALSE, amf |-> None, tmsi |-> None]
Idle == [kind |-> "none", waits |-> FALSE]
Free == [ue |-> None, amf |-> None]

Message(type, ran, amf, what, ue, tmsi) ==
    [type |-> type, ran |-> ran, amf |-> amf, what |-> what, ue |-> ue, tmsi |-> tmsi]
Ngap(type, ran, amf) == Message(type, ran, amf, "none", None, None)

TypeOK ==
    LET Ran == RanIds \cup {None}
        Amf == AmfIds \cup {None}
        Typed(q, types) ==
            \A i \in DOMAIN q : /\ q[i].type \in types
                                /\ q[i].ran \in Ran /\ q[i].amf \in Amf
                                /\ q[i].ue \in UEs \cup {None}
                                /\ q[i].tmsi \in Tmsi \cup {None}
    IN
    /\ Typed(n2_queue, {"initial", "uplink", "release request", "release complete",
                        "reset", "release command", "downlink", "setup", "paging"})
    /\ Typed(app_queue, {"initial", "transfer"})
    /\ Typed(n1_queue, {"initial", "uplink", "transfer", "mobile", "implicit"})
    /\ Typed(sctp, {"release command", "downlink", "setup", "paging"})
    /\ ranid2uecontext \in
          [RanIds -> [known : BOOLEAN, amf : Amf, tmsi : Tmsi \cup {None}]]
    /\ amfueid2uecontext \subseteq 1..generated
    /\ ue_context \in [AmfIds -> [ran : Ran, tmsi : Tmsi]]
    /\ generated \in AmfIds
    /\ amfueid2nas_context \in [AmfIds -> Contexts \cup {None}]
    /\ supi2Id \in [UEs -> [ran : RanIds, amf : 1..generated]]
    /\ nas \in [Contexts -> [ue : UEs \cup {None}, cm : {"CM_IDLE", "CM_CONNECTED"},
                             ran : Ran, amf : Amf, oldRan : Ran, oldAmf : Amf,
                             unreachable : BOOLEAN, secured : BOOLEAN]]
    /\ timers \subseteq {"mobile", "implicit"} \X AmfIds
    /\ crashed \in BOOLEAN
    /\ gnb \in [RanIds -> [ue : UEs \cup {None}, amf : Amf]]
    /\ rrc \in [UEs -> Ran] /\ guti \in [UEs -> Tmsi \cup {None}]
    /\ request \in [UEs -> [kind : Requests \cup {"none"}, waits : BOOLEAN]]
    /\ opened \in AmfIds
    /\ others \in 0..MaxEvents

\* What registration makes of a new context, with security from its challenge on;
\* the constructor's defaults.
Connected(u, r, a) ==
    [ue |-> u, cm |-> "CM_CONNECTED", ran |-> r, amf |-> a,
     oldRan |-> None, oldAmf |-> None, unreachable |-> FALSE, secured |-> u # None]
nas_context == [Connected(None, None, None) EXCEPT !.cm = "CM_IDLE"]

\* Every UE has registered, each on the connection of its number.
Init ==
    /\ n2_queue = <<>> /\ app_queue = <<>> /\ n1_queue = <<>> /\ sctp = <<>>
    /\ ranid2uecontext = [r \in RanIds |->
          IF r \in UEs THEN [known |-> TRUE, amf |-> r, tmsi |-> None] ELSE Unknown]
    /\ amfueid2uecontext = UEs
    /\ ue_context = [a \in AmfIds |-> IF a \in UEs THEN [ran |-> a, tmsi |-> a]
                                                ELSE [ran |-> None, tmsi |-> Zero]]
    /\ generated = NumUes
    /\ amfueid2nas_context = [a \in AmfIds |-> IF a \in UEs THEN a ELSE None]
    /\ supi2Id = [u \in UEs |-> [ran |-> u, amf |-> u]]
    /\ nas = [c \in Contexts |-> IF c \in UEs THEN Connected(c, c, c) ELSE nas_context]
    /\ timers = {} /\ crashed = FALSE
    /\ gnb = [r \in RanIds |-> IF r \in UEs THEN [ue |-> r, amf |-> r] ELSE Free]
    /\ rrc = [u \in UEs |-> u] /\ guti = rrc /\ request = [u \in UEs |-> Idle]
    /\ opened = NumUes /\ others = 0

-----------------------------------------------------------------------------
(* The UEs and the gNB.                                                     *)

MoreEvents == opened + others < MaxEvents

\* A UE without a connection asks for one: for service or for a registration
\* update with its GUTI, or without after having been switched off.
Open(u, what) ==
    /\ rrc[u] = None /\ opened < MaxAmfId /\ MoreEvents
    /\ what # "register" => guti[u] # None
    /\ opened' = opened + 1
    /\ gnb' = [gnb EXCEPT ![opened'] = [ue |-> u, amf |-> None]]
    /\ rrc' = [rrc EXCEPT ![u] = opened']
    /\ guti' = IF what = "register" THEN [guti EXCEPT ![u] = None] ELSE guti
    /\ request' = [request EXCEPT ![u] = [kind |-> what, waits |-> TRUE]]
    /\ n2_queue' = Append(n2_queue,
                       Message("initial", opened', None, what, u, guti'[u]))
    /\ UNCHANGED <<app_queue, n1_queue, sctp, n2, app, n1, crashed, others>>

\* The radio link is lost; the gNB does not know yet.
Lose(u) ==
    /\ rrc[u] # None
    /\ rrc' = [rrc EXCEPT ![u] = None] /\ request' = [request EXCEPT ![u] = Idle]
    /\ UNCHANGED <<queues, n2, app, n1, crashed, gnb, guti, opened, others>>

\* The UE forgets its GUTI and waits for its connection to be released.
Deregister(u) ==
    LET r == rrc[u] IN
    /\ r # None /\ guti[u] # None /\ ~request[u].waits /\ gnb[r].amf # None
    /\ n2_queue' = Append(n2_queue,
                       Message("uplink", r, gnb[r].amf, "deregister", u, guti[u]))
    /\ guti' = [guti EXCEPT ![u] = None]
    /\ UNCHANGED <<app_queue, n1_queue, sctp, n2, app, n1, crashed, gnb, rrc, request,
                   opened, others>>

\* The gNB finds a connection lost or inactive.
AskForRelease(r) ==
    /\ gnb[r] # Free /\ gnb[r].amf # None
    /\ ~\E i \in DOMAIN n2_queue :
          n2_queue[i] = Ngap("release request", r, gnb[r].amf)
    /\ ~\E i \in DOMAIN sctp : sctp[i] = Ngap("release command", r, gnb[r].amf)
    /\ n2_queue' = Append(n2_queue, Ngap("release request", r, gnb[r].amf))
    /\ UNCHANGED <<app_queue, n1_queue, sctp, n2, app, n1, crashed, radio, others>>

Reset ==
    /\ MoreEvents /\ others' = others + 1
    /\ gnb' = [r \in RanIds |-> Free]
    /\ rrc' = [u \in UEs |-> None] /\ request' = [u \in UEs |-> Idle]
    /\ n2_queue' = Append(n2_queue, Ngap("reset", None, None))
    /\ UNCHANGED <<app_queue, n1_queue, sctp, n2, app, n1, crashed, guti, opened>>

\* The gNB takes a message whose IDs are those of a connection; the first one
\* tells it the AMF's.
Matches(m) == gnb[m.ran] # Free /\ gnb[m.ran].amf \in {None, m.amf}

Release ==
    /\ sctp # <<>> /\ Head(sctp).type = "release command" /\ sctp' = Tail(sctp)
    /\ LET m == Head(sctp)
           u == gnb[m.ran].ue
       IN  IF ~Matches(m) THEN UNCHANGED <<n2_queue, gnb, rrc, request>>
           ELSE /\ gnb' = [gnb EXCEPT ![m.ran] = Free]
                /\ IF rrc[u] = m.ran
                   THEN /\ rrc' = [rrc EXCEPT ![u] = None]
                        /\ request' = [request EXCEPT ![u] = Idle]
                   ELSE UNCHANGED <<rrc, request>>
                /\ n2_queue' = Append(n2_queue, Ngap("release complete", m.ran, m.amf))
    /\ UNCHANGED <<app_queue, n1_queue, n2, app, n1, crashed, guti, opened, others>>

\* A UE answers a challenge or a question for its identity, keeps the GUTI of
\* an acceptance and gives up its own when it is rejected.
Deliver ==
    /\ sctp # <<>> /\ Head(sctp).type \in {"downlink", "setup"} /\ sctp' = Tail(sctp)
    /\ LET m == Head(sctp)
           u == gnb[m.ran].ue
           heard == Matches(m) /\ m.ue \in {None, u} /\ rrc[u] = m.ran
           answer == CASE m.what = "challenge" -> "complete"
                       [] m.what = "identify" -> "identity"
                       [] OTHER -> "none"
       IN  /\ gnb' = IF Matches(m) THEN [gnb EXCEPT ![m.ran].amf = m.amf] ELSE gnb
           /\ request' = IF heard /\ m.what \in {"accept", "reject"}
                         THEN [request EXCEPT ![u].waits = FALSE] ELSE request
           /\ guti' = IF heard /\ (m.what = "reject" \/ m.tmsi # None)
                      THEN [guti EXCEPT ![u] = m.tmsi] ELSE guti
           /\ n2_queue' = IF heard /\ answer # "none"
                          THEN Append(n2_queue,
                                   Message("uplink", m.ran, m.amf, answer, u, None))
                          ELSE n2_queue
    /\ UNCHANGED <<app_queue, n1_queue, n2, app, n1, crashed, rrc, opened, others>>

Paged ==
    /\ sctp # <<>> /\ Head(sctp).type = "paging" /\ sctp' = Tail(sctp)
    /\ UNCHANGED <<n2_queue, app_queue, n1_queue, n2, app, n1, crashed, radio, others>>

\* The SMF has something for a UE: downlink data, to be paged for, or a message.
Transfer(u, what) ==
    /\ MoreEvents /\ others' = others + 1
    /\ app_queue' = Append(app_queue, Message("transfer", None, None, what, u, None))
    /\ UNCHANGED <<n2_queue, n1_queue, sctp, n2, app, n1, crashed, radio>>

-----------------------------------------------------------------------------
(* TASK_AMF_N2.                                                             *)

Takes(queue, type) == ~crashed /\ queue # <<>> /\ Head(queue).type = type
Key(r, a) == a # None /\ ue_context[a].ran = r

\* Both tables: a ue_context for the key, and through its gNB the connection.
ran_ue_id_2_ue_ngap_context(r, a) == Key(r, a) /\ ranid2uecontext[r].known

N2Keeps(rest) == UNCHANGED <<rest, n1, crashed, radio, others>>

initial_ue_message ==
    /\ Takes(n2_queue, "initial") /\ n2_queue' = Tail(n2_queue)
    /\ LET m == Head(n2_queue)
           unc == ranid2uecontext[m.ran]
       IN  /\ ranid2uecontext' = [ranid2uecontext EXCEPT ![m.ran] =
                  [known |-> TRUE, amf |-> unc.amf,
                   tmsi |-> IF m.tmsi = None THEN unc.tmsi ELSE m.tmsi]]
           /\ app_queue' = Append(app_queue, m)
    /\ N2Keeps(<<n1_queue, sctp, amfueid2uecontext, app>>)

ul_nas_transport ==
    /\ Takes(n2_queue, "uplink") /\ n2_queue' = Tail(n2_queue)
    /\ n1_queue' = IF ranid2uecontext[Head(n2_queue).ran].known
                   THEN Append(n1_queue, Head(n2_queue)) ELSE n1_queue
    /\ N2Keeps(<<app_queue, sctp, n2, app>>)

\* Answered from the request alone.
ue_context_release_request ==
    /\ Takes(n2_queue, "release request") /\ n2_queue' = Tail(n2_queue)
    /\ LET m == Head(n2_queue)
       IN  sctp' = Append(sctp, Ngap("release command", m.ran, m.amf))
    /\ N2Keeps(<<app_queue, n1_queue, n2, app>>)

ue_context_release_command ==
    /\ Takes(n2_queue, "release command") /\ n2_queue' = Tail(n2_queue)
    /\ LET m == Head(n2_queue)
       IN  sctp' = IF ran_ue_id_2_ue_ngap_context(m.ran, m.amf)
                   THEN Append(sctp, m) ELSE sctp
    /\ N2Keeps(<<app_queue, n1_queue, n2, app>>)

dl_nas_transport ==
    /\ Takes(n2_queue, "downlink") /\ n2_queue' = Tail(n2_queue)
    /\ LET m == Head(n2_queue)
       IN  IF ran_ue_id_2_ue_ngap_context(m.ran, m.amf)
           THEN /\ ranid2uecontext' = [ranid2uecontext EXCEPT ![m.ran].amf = m.amf]
                /\ amfueid2uecontext' = amfueid2uecontext \cup {m.amf}
                /\ sctp' = Append(sctp, m)
           ELSE UNCHANGED <<n2, sctp>>
    /\ N2Keeps(<<app_queue, n1_queue, app>>)

\* Initial Context Setup Request and PDU Session Resource Setup Request.
setup_request ==
    /\ Takes(n2_queue, "setup") /\ n2_queue' = Tail(n2_queue)
    /\ LET m == Head(n2_queue)
       IN  sctp' = IF ran_ue_id_2_ue_ngap_context(m.ran, m.amf)
                   THEN Append(sctp, m) ELSE sctp
    /\ N2Keeps(<<app_queue, n1_queue, n2, app>>)

\* Without a nas_context its mobile reachable flag is read through a null
\* pointer.
paging ==
    /\ Takes(n2_queue, "paging") /\ n2_queue' = Tail(n2_queue)
    /\ LET m == Head(n2_queue)
           c == amfueid2nas_context[m.amf]
       IN  IF ~ran_ue_id_2_ue_ngap_context(m.ran, m.amf) THEN UNCHANGED <<crashed, sctp>>
           ELSE IF c = None THEN crashed' = TRUE /\ UNCHANGED sctp
           ELSE /\ sctp' = IF nas[c].unreachable THEN sctp ELSE Append(sctp, m)
                /\ UNCHANGED crashed
    /\ UNCHANGED <<app_queue, n1_queue, n2, app, n1, radio, others>>

\* The faults of forgetting one table, and of removing the connection the context
\* has now.
remove_first_table_only(r, a) ==
    /\ amfueid2uecontext' = amfueid2uecontext \ {a} /\ UNCHANGED ranid2uecontext

remove_connection_of_context(r, a) ==
    /\ LET c == amfueid2nas_context[a]
       IN  ranid2uecontext' = [ranid2uecontext EXCEPT ![nas[c].ran] = Unknown]
    /\ amfueid2uecontext' = amfueid2uecontext \ {a}

remove_connection(r, a) ==
    /\ ranid2uecontext' = [ranid2uecontext EXCEPT ![r] = Unknown]
    /\ amfueid2uecontext' = amfueid2uecontext \ {a}

\* The fault of not comparing.
IsAny(c, a) == TRUE

IsCurrent(c, a) == nas[c].ue # None /\ supi2Id[nas[c].ue].amf = a

\* A UE whose current connection ended is idle, and from now on the time
\* without a sign of it is counted.
ue_context_release_complete ==
    /\ Takes(n2_queue, "release complete") /\ n2_queue' = Tail(n2_queue)
    /\ LET m == Head(n2_queue)
           c == amfueid2nas_context[m.amf]
       IN  IF ~Key(m.ran, m.amf) \/ m.amf \notin amfueid2uecontext \/ c = None
           THEN UNCHANGED <<n2, nas, timers>>
           ELSE /\ remove_connection(m.ran, m.amf)
                /\ IF IsCurrent(c, m.amf)
                   THEN /\ nas' = [nas EXCEPT ![c].cm = "CM_IDLE",
                                              ![c].unreachable = FALSE]
                        /\ timers' = timers \cup {<<"mobile", m.amf>>}
                   ELSE UNCHANGED <<nas, timers>>
    /\ UNCHANGED <<app_queue, n1_queue, sctp, app, amfueid2nas_context, supi2Id,
                   crashed, radio, others>>

\* Every connection of the gNB goes, with its way to the nas_context.
ng_reset ==
    /\ Takes(n2_queue, "reset") /\ n2_queue' = Tail(n2_queue)
    /\ LET known == {r \in RanIds : ranid2uecontext[r].known}
           gone == {ranid2uecontext[r].amf : r \in known}
       IN  /\ amfueid2nas_context' = [a \in AmfIds |->
                  IF a \in gone THEN None ELSE amfueid2nas_context[a]]
           /\ amfueid2uecontext' = amfueid2uecontext \ gone
           /\ ranid2uecontext' = [r \in RanIds |-> Unknown]
    /\ UNCHANGED <<app_queue, n1_queue, sctp, app, supi2Id, nas, timers, crashed,
                   radio, others>>

-----------------------------------------------------------------------------
(* TASK_AMF_APP.                                                            *)

\* The fault of incrementing twice.
generate_two == generated + 2
generate_amf_ue_ngap_id == generated + 1

nas_signalling_establishment_request ==
    /\ Takes(app_queue, "initial") /\ app_queue' = Tail(app_queue)
    /\ LET m == Head(app_queue)
           a == generate_amf_ue_ngap_id
       IN  /\ generated' = a
           /\ ue_context' = [ue_context EXCEPT ![a].ran = m.ran]
           /\ IF ranid2uecontext[m.ran].known
              THEN /\ ranid2uecontext' = [ranid2uecontext EXCEPT ![m.ran].amf = a]
                   /\ amfueid2uecontext' = amfueid2uecontext \cup {a}
              ELSE UNCHANGED n2
           /\ n1_queue' = Append(n1_queue, [m EXCEPT !.amf = a])
    /\ UNCHANGED <<n2_queue, sctp, n1, crashed, radio, others>>

n1n2_message_transfer_request ==
    /\ Takes(app_queue, "transfer") /\ app_queue' = Tail(app_queue)
    /\ LET m == Head(app_queue)
           id == supi2Id[m.ue]
       IN  IF m.what = "paging"
           THEN /\ n2_queue' = Append(n2_queue, Ngap("paging", id.ran, id.amf))
                /\ UNCHANGED n1_queue
           ELSE /\ n1_queue' = Append(n1_queue, [m EXCEPT !.ran = id.ran, !.amf = id.amf])
                /\ UNCHANGED n2_queue
    /\ UNCHANGED <<sctp, n2, app, n1, crashed, radio, others>>

-----------------------------------------------------------------------------
(* TASK_AMF_N1.                                                             *)

N1Keeps(rest) == UNCHANGED <<rest, app_queue, sctp, n2, crashed, radio, others>>
Answer(type, r, a, what, u, tmsi) == <<Message(type, r, a, what, u, tmsi)>>

\* The fault of taking the state of the context for that of its connection.
old_connection_of_idle(c) ==
    IF nas[c].cm = "CM_IDLE"
    THEN <<Ngap("release command", nas[c].ran, nas[c].amf)>> ELSE <<>>

\* What service_request_handle has released first: the connection the context
\* c had before, if N2 still has it.
old_connection(c) ==
    LET r == nas[c].ran
        a == nas[c].amf
    IN  IF ran_ue_id_2_ue_ngap_context(r, a)
        THEN <<Ngap("release command", r, a)>> ELSE <<>>

\* The first message of a connection.  A context that is found by GUTI follows
\* the UE to it; the others are new, and only a registration names its UE.
nas_signalling_establishment_request_handle ==
    /\ Takes(n1_queue, "initial") /\ n1_queue' = Tail(n1_queue)
    /\ LET m == Head(n1_queue)
           found == m.tmsi \in Contexts
           c == IF found THEN m.tmsi ELSE m.amf
           u == IF found THEN nas[c].ue ELSE IF m.what = "register" THEN m.ue ELSE None
           To(type, what, tmsi) == Answer(type, m.ran, m.amf, what, u, tmsi)
       IN  /\ amfueid2nas_context' = [amfueid2nas_context EXCEPT ![m.amf] = c]
           /\ nas' = [nas EXCEPT ![c] =
                  IF found THEN [@ EXCEPT !.oldRan = nas[c].ran, !.oldAmf = nas[c].amf,
                                          !.ran = m.ran, !.amf = m.amf]
                           ELSE Connected(u, m.ran, m.amf)]
           /\ supi2Id' = IF u = None THEN supi2Id
                         ELSE [supi2Id EXCEPT ![u] = [ran |-> m.ran, amf |-> m.amf]]
           /\ n2_queue' = n2_queue \o
                  CASE m.what = "register" -> To("downlink", "challenge", None)
                    [] m.what = "service" /\ found ->
                           old_connection(c) \o To("setup", "accept", None)
                    [] m.what = "service" /\ ~found -> To("downlink", "reject", None)
                    [] m.what = "update" /\ found ->
                           To("downlink", "accept", ue_context[m.amf].tmsi)
                    [] m.what = "update" /\ ~found -> To("downlink", "identify", None)
    /\ N1Keeps(<<app, timers>>)

\* Registration accepted: the connection is given a GUTI, the context's.
security_mode_complete_handle ==
    /\ Takes(n1_queue, "uplink") /\ Head(n1_queue).what = "complete"
    /\ n1_queue' = Tail(n1_queue)
    /\ LET m == Head(n1_queue)
           c == amfueid2nas_context[m.amf]
       IN  IF c = None THEN UNCHANGED <<n2_queue, ue_context>>
           ELSE /\ ue_context' = [ue_context EXCEPT ![m.amf].tmsi = c]
                /\ n2_queue' = n2_queue \o
                       Answer("setup", m.ran, m.amf, "accept", nas[c].ue, c)
    /\ N1Keeps(<<generated, n1>>)

\* A context whose UE is now known goes on with its registration; one that is
\* gone is made again, and waits.
identity_response_handle ==
    /\ Takes(n1_queue, "uplink") /\ Head(n1_queue).what = "identity"
    /\ n1_queue' = Tail(n1_queue)
    /\ LET m == Head(n1_queue)
           known == amfueid2nas_context[m.amf] # None
           c == IF known THEN amfueid2nas_context[m.amf] ELSE m.amf
       IN  /\ amfueid2nas_context' = [amfueid2nas_context EXCEPT ![m.amf] = c]
           /\ nas' = [nas EXCEPT ![c] =
                  [Connected(m.ue, m.ran, m.amf) EXCEPT !.secured = known]]
           /\ supi2Id' = [supi2Id EXCEPT ![m.ue] = [ran |-> m.ran, amf |-> m.amf]]
           /\ n2_queue' = IF known
                          THEN n2_queue \o Answer("downlink", m.ran, m.amf, "challenge",
                                                  m.ue, None)
                          ELSE n2_queue
    /\ N1Keeps(<<app, timers>>)

\* The fault of removing every way to the context.
Without_context(a) ==
    [b \in AmfIds |-> IF amfueid2nas_context[b] = amfueid2nas_context[a] THEN None
                      ELSE amfueid2nas_context[b]]

Without(a) == [amfueid2nas_context EXCEPT ![a] = None]

\* Only the AMF UE NGAP ID of this connection leads no longer to the context.
ue_initiate_de_registration_handle ==
    /\ Takes(n1_queue, "uplink") /\ Head(n1_queue).what = "deregister"
    /\ n1_queue' = Tail(n1_queue)
    /\ LET m == Head(n1_queue)
           c == amfueid2nas_context[m.amf]
       IN  IF c = None \/ ~Key(nas[c].ran, nas[c].amf)
           THEN UNCHANGED <<n2_queue, amfueid2nas_context>>
           ELSE /\ amfueid2nas_context' = Without(m.amf)
                /\ n2_queue' = n2_queue
                       \o Answer("downlink", m.ran, m.amf, "goodbye", m.ue, None)
                       \o <<Ngap("release command", m.ran, m.amf)>>
    /\ N1Keeps(<<app, supi2Id, nas, timers>>)

downlink_nas_transfer ==
    /\ Takes(n1_queue, "transfer") /\ n1_queue' = Tail(n1_queue)
    /\ LET m == Head(n1_queue)
           c == amfueid2nas_context[m.amf]
           type == IF m.what = "setup" THEN "setup" ELSE "downlink"
       IN  n2_queue' = IF c = None \/ ~nas[c].secured THEN n2_queue
                       ELSE n2_queue \o Answer(type, m.ran, m.amf, "data", m.ue, None)
    /\ N1Keeps(<<app, n1>>)

\* A timer of the ITTI timer task runs out.
Expire ==
    /\ ~crashed
    /\ \E t \in timers :
          /\ timers' = timers \ {t}
          /\ n1_queue' = Append(n1_queue, Ngap(t[1], None, t[2]))
    /\ UNCHANGED <<n2_queue, app_queue, sctp, n2, app, amfueid2nas_context, supi2Id,
                   nas, crashed, radio, others>>

mobile_reachable_timer_timeout ==
    /\ Takes(n1_queue, "mobile") /\ n1_queue' = Tail(n1_queue)
    /\ LET a == Head(n1_queue).amf
           c == amfueid2nas_context[a]
       IN  IF c = None THEN UNCHANGED <<nas, timers>>
           ELSE /\ nas' = [nas EXCEPT ![c].unreachable = TRUE]
                /\ timers' = timers \cup {<<"implicit", a>>}
    /\ N1Keeps(<<n2_queue, app, amfueid2nas_context, supi2Id>>)

\* The test is the wrong way round: nothing happens to a context that is there,
\* and the missing one's fields are read.
implicit_deregistration_timer_timeout ==
    /\ Takes(n1_queue, "implicit") /\ n1_queue' = Tail(n1_queue)
    /\ crashed' = (amfueid2nas_context[Head(n1_queue).amf] = None)
    /\ UNCHANGED <<n2_queue, app_queue, sctp, n2, app, n1, radio, others>>

-----------------------------------------------------------------------------
Environment ==
    /\ ~crashed
    /\ \/ \E u \in UEs : \/ \E what \in Requests : Open(u, what)
                         \/ Lose(u) \/ Deregister(u)
                         \/ \E what \in {"paging", "nas", "setup"} : Transfer(u, what)
       \/ \E r \in RanIds : AskForRelease(r)
       \/ Reset \/ Expire

Gnb == ~crashed /\ (Release \/ Deliver \/ Paged)

AMF_N2 ==
    \/ initial_ue_message \/ ul_nas_transport
    \/ ue_context_release_request \/ ue_context_release_command
    \/ dl_nas_transport \/ setup_request \/ paging
    \/ ue_context_release_complete \/ ng_reset
AMF_APP == nas_signalling_establishment_request \/ n1n2_message_transfer_request
AMF_N1 ==
    \/ nas_signalling_establishment_request_handle
    \/ security_mode_complete_handle \/ identity_response_handle
    \/ ue_initiate_de_registration_handle \/ downlink_nas_transfer
    \/ mobile_reachable_timer_timeout \/ implicit_deregistration_timer_timeout

Next == Environment \/ Gnb \/ AMF_N2 \/ AMF_APP \/ AMF_N1

\* The tasks run, and the gNB reads what it is sent.
Fairness == WF_vars(Gnb) /\ WF_vars(AMF_N2) /\ WF_vars(AMF_APP) /\ WF_vars(AMF_N1)
Spec == Init /\ [][Next]_vars /\ Fairness

-----------------------------------------------------------------------------
\* A UE counts as lost from its last connection only: no release of a connection
\* it has left starts the time without a sign of it while the gNB still has the
\* connection its context now has (the comparison in
\* ue_context_release_complete).
OldReleaseKeepsNew ==
    [][\A a \in AmfIds :
          <<"mobile", a>> \in timers' /\ <<"mobile", a>> \notin timers =>
             LET c == nas[amfueid2nas_context[a]]
             IN  gnb[c.ran].ue = None \/ gnb[c.ran].amf \notin {None, c.amf}]_vars

\* A service request is accepted only once the gNB has given up the connection
\* the UE came from: its release was sent first, and every queue keeps the
\* order.
AcceptedOnOneConnection ==
    \A u \in UEs, c \in Contexts :
       request[u] = [kind |-> "service", waits |-> FALSE] /\ nas[c].ue = u
       /\ nas[c].ran = rrc[u] /\ nas[c].oldAmf # None =>
          gnb[nas[c].oldRan] # [ue |-> u, amf |-> nas[c].oldAmf]

\* The implicit deregistration timeout reads a context only when there is none;
\* there is one whenever it runs out.
ImplicitTimeoutFindsContext ==
    \A a \in AmfIds :
       <<"implicit", a>> \in timers
       \/ (\E i \in DOMAIN n1_queue : n1_queue[i] = Ngap("implicit", None, a)) =>
          amfueid2nas_context[a] # None

\* When everything sent has been handled, N2 has no connection the gNB has not,
\* but for those of UEs that deregistered, whose release complete is ignored.
EndedConnectionForgotten ==
    n2_queue = <<>> /\ app_queue = <<>> /\ n1_queue = <<>> /\ sctp = <<>> =>
       \A r \in RanIds :
          ranid2uecontext[r].known /\ gnb[r] = Free =>
             amfueid2nas_context[ranid2uecontext[r].amf] = None

\* Does not hold: the UE that came back with a service request before its mobile
\* reachable timer ran out is marked unreachable while it is connected.
ConnectedUeIsReachable ==
    \A c \in Contexts :
       LET u == nas[c].ue
       IN  u # None /\ request[u] = [kind |-> "service", waits |-> FALSE]
           /\ rrc[u] = nas[c].ran => ~nas[c].unreachable

\* Does not hold: the GUTI of an accepted registration update has the TMSI of a
\* new ue_context, zero.
GutiIsAllocated == \A u \in UEs : guti[u] # Zero

\* Does not hold: the missing context is only warned of ("No existed nas_context").
NeverCrashes == ~crashed

\* Does not hold: paging looks for the connection that ended when the UE became
\* idle ("Network stops sending paging messages since the mobile reachable timer
\* expires").
IdleUeIsPaged ==
    [][paging =>
          LET c == amfueid2nas_context[Head(n2_queue).amf]
          IN  c # None /\ nas[c].cm = "CM_IDLE" /\ ~nas[c].unreachable
              => sctp' # sctp]_vars

\* Does not hold: nothing is released for a UE whose implicit deregistration timer
\* has run out ("Implicitly de-register UE").
SilentUeIsDeregistered ==
    [][implicit_deregistration_timer_timeout => n2_queue' # n2_queue \/ crashed']_vars

\* Every request of a UE is answered, unless the UE or its gNB goes first.
RequestsAnswered ==
    \A u \in UEs : request[u].waits ~> (~request[u].waits \/ crashed)
=============================================================================
