----------------------------- MODULE N4Sessions -----------------------------
(***************************************************************************)
(* The user plane of PDU sessions: the AMF's view of a session's user plane *)
(* connection (up_cnx_state), the SMF's session procedures and the UPF's    *)
(* sessions, rules and packet tables (simpleswitch), with N4 in between.    *)
(*                                                                          *)
(* A session has one QoS flow, one access network tunnel and one UPF that   *)
(* chooses UL TEIDs; the default rule's precedence is 0.  N4 requests are   *)
(* retransmitted and duplicates answered by the PFCP transport, so here a   *)
(* message is handled at most once, in any order, or lost for good.  Every  *)
(* number a counter gives out (rule ids, UL TEIDs, AN tunnels) is the       *)
(* number of the transaction that it is drawn for: each draws one of a kind.*)
(***************************************************************************)
EXTENDS Integers, SequencesExt

CONSTANTS
    Sessions,         \* each is created at most once; its SEIDs, too
    Addresses,        \* of the UEs
    MaxTransactions,  \* bounds the procedures of a behaviour
    MaxLost,          \* bounds the lost messages
    MaxUpsets         \* bounds the time-outs of the AMF and the lost connections

NoAddress == "no address"
None == 0       \* of ids, TEIDs and tunnels
Core == 0       \* a FAR's destination other than a tunnel
Nowhere == -1   \* where a packet goes that no rule forwards

Transactions == 1..MaxTransactions
Updates == {"establishment", "path switch", "step 1", "step 2", "AN release"}
Kinds == {"create", "delete"} \cup Updates

ASSUME BoundsAssumption ==
    /\ {MaxTransactions, MaxLost, MaxUpsets} \subseteq Nat
    /\ {NoAddress, None} \cap Addresses = {}

VARIABLES
    amf,      \* per session: up_cnx_state, the stored n2sm, the update awaited
    gnb,      \* per session: a set-up asked for, and the tunnel's two ends
    smf,      \* per session: state, address, rule ids, precedence, upCnx_state
    up,       \* the UPF's sessions
    ul_n3_teid2pfcp_pdr,
    ue_ipv4_hbo2pfcp_pdr,
    n4,       \* messages on their way
    trxn,     \* the last transaction
    lost,     \* how many messages were lost
    upsets,   \* how often the AMF gave up or a connection was lost
    clean     \* history: sessions of which the AMF saw every answer, and the
              \* SMF every release of the access network

tables == <<ul_n3_teid2pfcp_pdr, ue_ipv4_hbo2pfcp_pdr>>
upf == <<up, tables>>
vars == <<amf, gnb, smf, upf, n4, trxn, lost, upsets, clean>>

NoRules == [far_ul |-> None, far_dl |-> None, pdr_ul |-> None, pdr_dl |-> None,
            ul_fteid |-> None]
NoSession == [known |-> FALSE, pdrs |-> <<>>, fars |-> <<>>]
NoTunnel == [asked |-> FALSE, ul |-> None, dl |-> None]

\* A PDR's key is the UL TEID or the UE's address; a PDR to create with a key
\* None is one whose TEID the UPF chooses.
Pdr(s, id, prec, far, iface, key) ==
    [seid |-> s, id |-> id, prec |-> prec, far |-> far, iface |-> iface, key |-> key]

Id == {None} \cup Transactions
Fars == [id : Transactions, to : Id]
Pdrs == [seid : Sessions, id : Transactions, prec : Nat, far : Transactions,
         iface : {"access", "core"}, key : Transactions \cup Addresses]

TypeOK ==
    /\ amf \in [Sessions -> [cnx : {"ACTIVATED", "DEACTIVATED"}, n2sm : Id,
                            awaits : Updates \cup {"nothing"}, trxn : Id]]
    /\ gnb \in [Sessions -> [asked : BOOLEAN, ul : Id, dl : Id]]
    /\ smf \in [Sessions ->
          [status : {"none", "creating", "up", "releasing", "released"},
           address : Addresses \cup {NoAddress},
           rules : [far_ul : Id, far_dl : Id, pdr_ul : Id, pdr_dl : Id, ul_fteid : Id],
           precedence : Nat, cnx : {"ACTIVATED", "ACTIVATING", "DEACTIVATED"}]]
    /\ up \in [Sessions -> [known : BOOLEAN, pdrs : Seq(Pdrs), fars : Seq(Fars)]]
    /\ ul_n3_teid2pfcp_pdr \in [Transactions -> Seq(Pdrs)]
    /\ ue_ipv4_hbo2pfcp_pdr \in [Addresses -> Seq(Pdrs)]
    /\ \A m \in n4 : m.dir \in {"request", "response"} /\ m.kind \in Kinds
                     /\ m.s \in Sessions /\ m.trxn \in 1..trxn
    /\ trxn \in Id /\ lost \in 0..MaxLost /\ upsets \in 0..MaxUpsets
    /\ clean \subseteq Sessions

Init ==
    /\ amf = [s \in Sessions |-> [cnx |-> "DEACTIVATED", n2sm |-> None,
                              awaits |-> "nothing", trxn |-> None]]
    /\ gnb = [s \in Sessions |-> NoTunnel]
    /\ smf = [s \in Sessions |->
          [status |-> "none", address |-> NoAddress, rules |-> NoRules,
           precedence |-> 0, cnx |-> "DEACTIVATED"]]
    /\ up = [s \in Sessions |-> NoSession]
    /\ ul_n3_teid2pfcp_pdr = [t \in Transactions |-> <<>>]
    /\ ue_ipv4_hbo2pfcp_pdr = [a \in Addresses |-> <<>>]
    /\ n4 = {} /\ trxn = 0 /\ lost = 0 /\ upsets = 0 /\ clean = Sessions

-----------------------------------------------------------------------------
(* The UPF's rules.                                                         *)

Find(rules, id) == SelectInSeq(rules, LAMBDA r : r.id = id)

\* The first that is not there fails the request; None is an IE that is not given.
RemoveRule(acc, id) ==
    IF id = None \/ ~acc.ok THEN acc
    ELSE IF Find(acc.rules, id) = 0 THEN [acc EXCEPT !.ok = FALSE]
    ELSE [acc EXCEPT !.rules = RemoveAt(@, Find(@, id))]

\* One after the other.
RemoveRules(rules, ids) ==
    RemoveRule(RemoveRule([rules |-> rules, ok |-> TRUE], ids[1]), ids[2])

\* The fault of comparing the wrong way round.
InsertReversed(list, pdr) ==
    LET i == SelectInSeq(list, LAMBDA r : r.prec > pdr.prec)
    IN  IF list = <<>> THEN <<pdr>> ELSE IF i = 0 THEN list ELSE InsertAt(list, i, pdr)

\* Before the first of a lower precedence; where there is none, not at all.
InsertPdr(list, pdr) ==
    LET i == SelectInSeq(list, LAMBDA r : r.prec < pdr.prec)
    IN  IF list = <<>> THEN <<pdr>> ELSE IF i = 0 THEN list ELSE InsertAt(list, i, pdr)

add_pfcp_pdr(pdr) ==
    IF pdr.iface = "access"
    THEN /\ ul_n3_teid2pfcp_pdr' = [ul_n3_teid2pfcp_pdr EXCEPT ![pdr.key] = InsertPdr(@, pdr)]
         /\ UNCHANGED ue_ipv4_hbo2pfcp_pdr
    ELSE /\ ue_ipv4_hbo2pfcp_pdr' = [ue_ipv4_hbo2pfcp_pdr EXCEPT ![pdr.key] = InsertPdr(@, pdr)]
         /\ UNCHANGED ul_n3_teid2pfcp_pdr

\* Every table entry of a PDR the session still has goes, whole.
remove_pdrs(pdrs) ==
    LET Without(table, iface) ==
            [key \in DOMAIN table |->
                IF \E i \in DOMAIN pdrs : pdrs[i].iface = iface /\ pdrs[i].key = key
                THEN <<>> ELSE table[key]]
    IN  /\ ul_n3_teid2pfcp_pdr' = Without(ul_n3_teid2pfcp_pdr, "access")
        /\ ue_ipv4_hbo2pfcp_pdr' = Without(ue_ipv4_hbo2pfcp_pdr, "core")

\* Where a packet goes that meets these PDRs: the first decides.
LookUp(list) ==
    LET pdr == list[1]
        fars == up[pdr.seid].fars
        i == Find(fars, pdr.far)
    IN  IF list = <<>> \/ ~up[pdr.seid].known \/ i = 0 THEN Nowhere ELSE fars[i].to

Downlink(a) == LookUp(ue_ipv4_hbo2pfcp_pdr[a])
Uplink(teid) == LookUp(ul_n3_teid2pfcp_pdr[teid])

-----------------------------------------------------------------------------
(* The UPF's handlers.                                                      *)

Request(m, kinds) == m \in n4 /\ m.dir = "request" /\ m.kind \in kinds
Response(m, kinds) == m \in n4 /\ m.dir = "response" /\ m.kind \in kinds

\* The fault of leaving the SEID of a deletion's answer 0.
ReplyWithoutSeid(m, ok, teid) ==
    n4' = (n4 \ {m}) \cup (IF m.kind = "delete" THEN {} ELSE
              {[dir |-> "response", kind |-> m.kind, s |-> m.s,
                trxn |-> m.trxn, ok |-> ok, teid |-> teid]})

Reply(m, ok, teid) ==
    n4' = (n4 \ {m}) \cup {[dir |-> "response", kind |-> m.kind, s |-> m.s,
                            trxn |-> m.trxn, ok |-> ok, teid |-> teid]}

\* An establishment, or a modification that creates a FAR and a PDR for it.
CreateRules(m) ==
    LET pdr == [m.ies.pdr EXCEPT !.key = IF @ = None THEN m.trxn ELSE @]
    IN  /\ Request(m, Kinds) /\ m.ies.op = "create"
        /\ m.kind = "create" \/ up[m.s].known
        /\ up' = [up EXCEPT ![m.s] =
              [known |-> TRUE, pdrs |-> Append(@.pdrs, pdr), fars |-> Append(@.fars, m.ies.far)]]
        /\ add_pfcp_pdr(pdr)
        /\ Reply(m, TRUE, IF pdr.iface = "access" THEN pdr.key ELSE None)
        /\ UNCHANGED <<amf, gnb, smf, trxn, lost, upsets, clean>>

\* PDRs stay in the tables.
DropRules(m) ==
    LET pdrs == RemoveRules(up[m.s].pdrs, m.ies.pdrs)
        fars == RemoveRules(up[m.s].fars, IF pdrs.ok THEN m.ies.fars ELSE <<None, None>>)
    IN  /\ Request(m, Kinds) /\ m.ies.op = "remove" /\ up[m.s].known
        /\ up' = [up EXCEPT ![m.s] = [@ EXCEPT !.pdrs = pdrs.rules, !.fars = fars.rules]]
        /\ Reply(m, pdrs.ok /\ fars.ok, None)
        /\ UNCHANGED <<amf, gnb, smf, tables, trxn, lost, upsets, clean>>

\* The PDR is one object in the session and in the table, where it keeps its
\* place.  That it is not there is no failure, that the FAR is not, is one.
UpdateRules(m) ==
    LET u == up[m.s]
        i == Find(u.pdrs, m.ies.pdr)
        j == Find(u.fars, m.ies.far.id)
        Updated(pdr) == IF i # 0 /\ pdr = u.pdrs[i] THEN [pdr EXCEPT !.prec = m.ies.prec] ELSE pdr
    IN  /\ Request(m, Kinds) /\ m.ies.op = "update" /\ u.known
        /\ up' = [up EXCEPT ![m.s] =
              [u EXCEPT !.pdrs = IF i = 0 THEN @ ELSE [@ EXCEPT ![i] = Updated(u.pdrs[i])],
                        !.fars = IF j = 0 THEN @ ELSE [@ EXCEPT ![j] = m.ies.far]]]
        /\ ue_ipv4_hbo2pfcp_pdr' = [a \in Addresses |->
              [k \in DOMAIN ue_ipv4_hbo2pfcp_pdr[a] |-> Updated(ue_ipv4_hbo2pfcp_pdr[a][k])]]
        /\ Reply(m, j # 0, None)
        /\ UNCHANGED <<amf, gnb, smf, ul_n3_teid2pfcp_pdr, trxn, lost, upsets, clean>>

DeleteSession(m) ==
    /\ Request(m, {"delete"}) /\ up[m.s].known
    /\ remove_pdrs(up[m.s].pdrs)
    /\ up' = [up EXCEPT ![m.s] = NoSession]
    /\ Reply(m, TRUE, None)
    /\ UNCHANGED <<amf, gnb, smf, trxn, lost, upsets, clean>>

\* SESSION_CONTEXT_NOT_FOUND goes out with SEID 0, and the SMF drops it.
ContextNotFound(m) ==
    /\ Request(m, Kinds \ {"create"}) /\ ~up[m.s].known
    /\ n4' = n4 \ {m}
    /\ UNCHANGED <<amf, gnb, smf, upf, trxn, lost, upsets, clean>>

-----------------------------------------------------------------------------
(* The SMF's procedures, with the requests of the AMF and the access        *)
(* network that start them.                                                 *)

Send(s, kind, ies) ==
    /\ trxn < MaxTransactions /\ trxn' = trxn + 1
    /\ n4' = n4 \cup {[dir |-> "request", kind |-> kind, s |-> s, trxn |-> trxn', ies |-> ies]}

\* The faults of giving no id to a new rule, and another to an old one.
GenerateNothing(id) == id
GenerateAgain(id) == trxn + 1

\* generate_far_id and generate_pdr_id, unless the flow has an id already.
Generate(id) == IF id = None THEN trxn + 1 ELSE id

\* A FAR and a PDR that uses it; both as they will be in the UPF.
pfcp_create(s, rules, prec, iface, key, to) ==
    LET far == IF iface = "access" THEN rules.far_ul ELSE rules.far_dl
        pdr == IF iface = "access" THEN rules.pdr_ul ELSE rules.pdr_dl
    IN  [op |-> "create", far |-> [id |-> far, to |-> to],
         pdr |-> Pdr(s, pdr, prec, far, iface, key)]

Awaits(s, kind) ==
    amf' = [amf EXCEPT ![s] = [@ EXCEPT !.awaits = kind, !.trxn = trxn + 1]]

Ready(s) == smf[s].status = "up" /\ amf[s].awaits = "nothing"

CreateSmContext(s) ==
    LET rules == [NoRules EXCEPT !.far_ul = trxn + 1, !.pdr_ul = trxn + 1]
    IN  /\ smf[s].status = "none"
        /\ \E a \in Addresses \ {smf[r].address : r \in Sessions} :
              smf' = [smf EXCEPT ![s] =
                        [@ EXCEPT !.status = "creating", !.address = a, !.rules = rules]]
        /\ Send(s, "create", pfcp_create(s, rules, smf[s].precedence, "access", None, Core))
        /\ UNCHANGED <<amf, gnb, upf, lost, upsets, clean>>

\* The AMF stores the N2 SM information and asks the gNB for the set-up.
CreationAnswer(m) ==
    /\ Response(m, {"create"})
    /\ smf' = [smf EXCEPT ![m.s] = [@ EXCEPT !.status = "up", !.rules.ul_fteid = m.teid]]
    /\ amf' = [amf EXCEPT ![m.s].n2sm = m.teid]
    /\ gnb' = [gnb EXCEPT ![m.s] = [NoTunnel EXCEPT !.asked = TRUE, !.ul = m.teid]]
    /\ n4' = n4 \ {m}
    /\ UNCHANGED <<upf, trxn, lost, upsets, clean>>

\* The UPF is told the access network's tunnel.
ForwardDownlink(s, kind) ==
    LET old == smf[s].rules
        new == [old EXCEPT !.far_dl = Generate(@), !.pdr_dl = Generate(@)]
        prec == smf[s].precedence
    IN  /\ smf' = [smf EXCEPT ![s].rules = new]
        /\ Send(s, kind,
              IF kind # "step 2" /\ old.far_dl # None
              THEN [op |-> "update", far |-> [id |-> old.far_dl, to |-> trxn + 1],
                    pdr |-> old.pdr_dl, prec |-> prec]
              ELSE pfcp_create(s, new, prec, "core", smf[s].address, trxn + 1))
        /\ gnb' = [gnb EXCEPT ![s] = [@ EXCEPT !.asked = FALSE, !.dl = trxn + 1]]
        /\ Awaits(s, kind)
        /\ UNCHANGED <<upf, lost, upsets, clean>>

\* PDU_RES_SETUP_RSP
ResourceSetupResponse(s) ==
    /\ Ready(s) /\ gnb[s].asked
    /\ ForwardDownlink(s, IF smf[s].cnx = "ACTIVATING" THEN "step 2" ELSE "establishment")

PathSwitchRequest(s) ==
    /\ Ready(s) /\ gnb[s].dl # None
    /\ ForwardDownlink(s, "path switch")

\* UE context release complete, with the session in its list.
ReleaseAn(s) ==
    LET rules == smf[s].rules
    IN  /\ Ready(s) /\ gnb[s].dl # None
        /\ gnb' = [gnb EXCEPT ![s] = NoTunnel]
        /\ Send(s, "AN release", [op |-> "remove",
              pdrs |-> <<rules.pdr_dl, rules.pdr_ul>>,
              fars |-> <<rules.far_dl, rules.far_ul>>])
        /\ smf' = [smf EXCEPT ![s] = [@ EXCEPT !.rules = NoRules, !.cnx = "DEACTIVATED"]]
        /\ Awaits(s, "AN release")
        /\ UNCHANGED <<upf, lost, upsets, clean>>

Upset(s) == upsets < MaxUpsets /\ upsets' = upsets + 1 /\ clean' = clean \ {s}

\* The same without the session in its list.
LoseAn(s) ==
    /\ gnb[s] # NoTunnel
    /\ gnb' = [gnb EXCEPT ![s] = NoTunnel]
    /\ Upset(s)
    /\ UNCHANGED <<amf, smf, upf, n4, trxn, lost>>

\* New UL rules, preferred to the old ones.
ActivateUserPlane(s) ==
    LET rules == [smf[s].rules EXCEPT !.far_ul = Generate(@), !.pdr_ul = trxn + 1]
        prec == smf[s].precedence + 1
    IN  /\ Ready(s) /\ gnb[s] = NoTunnel /\ amf[s].cnx = "DEACTIVATED"
        /\ smf' = [smf EXCEPT ![s] =
              [@ EXCEPT !.rules = rules, !.precedence = prec, !.cnx = "ACTIVATING"]]
        /\ Send(s, "step 1", pfcp_create(s, rules, prec, "access", rules.ul_fteid, Core))
        /\ Awaits(s, "step 1")
        /\ UNCHANGED <<gnb, upf, lost, upsets, clean>>

SetUpAgain(s) == gnb' = [gnb EXCEPT ![s] = [NoTunnel EXCEPT !.asked = TRUE, !.ul = amf[s].n2sm]]

\* A service request for a session that the AMF takes for active.
ServiceRequest(s) ==
    /\ Ready(s) /\ gnb[s] = NoTunnel /\ amf[s].cnx # "DEACTIVATED"
    /\ SetUpAgain(s)
    /\ UNCHANGED <<amf, smf, upf, n4, trxn, lost, upsets, clean>>

\* What the AMF makes of an answer it still waits for.
Answered(m) ==
    LET cnx == IF ~m.ok \/ m.kind = "path switch" THEN amf[m.s].cnx
               ELSE IF m.kind = "AN release" THEN "DEACTIVATED" ELSE "ACTIVATED"
        n2sm == IF m.kind = "step 1" THEN m.teid ELSE amf[m.s].n2sm
    IN  /\ amf' = [amf EXCEPT ![m.s] =
              [cnx |-> cnx, n2sm |-> n2sm, awaits |-> "nothing", trxn |-> None]]
        /\ gnb' = IF m.kind # "step 1" THEN gnb
                  ELSE [gnb EXCEPT ![m.s] = [NoTunnel EXCEPT !.asked = TRUE, !.ul = m.teid]]
        /\ clean' = IF m.ok THEN clean ELSE clean \ {m.s}

UpdateAnswer(m) ==
    /\ Response(m, Updates)
    /\ smf' = [smf EXCEPT ![m.s].cnx =
          IF m.kind = "AN release" THEN "DEACTIVATED"
          ELSE IF m.ok /\ m.kind = "establishment" THEN "ACTIVATED"
          ELSE IF m.ok /\ m.kind = "step 1" THEN "ACTIVATING" ELSE @]
    /\ IF amf[m.s].trxn = m.trxn THEN Answered(m) ELSE UNCHANGED <<amf, gnb, clean>>
    /\ n4' = n4 \ {m}
    /\ UNCHANGED <<upf, trxn, lost, upsets>>

\* Time is up.  A service request goes on with what the AMF has stored.
GiveUp(s) ==
    /\ amf[s].awaits # "nothing"
    /\ amf' = [amf EXCEPT ![s] = [@ EXCEPT !.awaits = "nothing", !.trxn = None]]
    /\ IF amf[s].awaits = "step 1" THEN SetUpAgain(s) ELSE UNCHANGED gnb
    /\ Upset(s)
    /\ UNCHANGED <<smf, upf, n4, trxn, lost>>

\* The fault of freeing the address before the UPF has answered.
ReleaseAtOnce(s) ==
    /\ Ready(s)
    /\ smf' = [smf EXCEPT ![s] = [@ EXCEPT !.status = "releasing", !.address = NoAddress]]
    /\ gnb' = [gnb EXCEPT ![s] = NoTunnel]
    /\ Send(s, "delete", [op |-> "delete"])
    /\ UNCHANGED <<amf, upf, lost, upsets, clean>>

ReleaseSmContext(s) ==
    /\ Ready(s)
    /\ smf' = [smf EXCEPT ![s].status = "releasing"]
    /\ gnb' = [gnb EXCEPT ![s] = NoTunnel]
    /\ Send(s, "delete", [op |-> "delete"])
    /\ UNCHANGED <<amf, upf, lost, upsets, clean>>

\* Only now may another session have the address.
DeletionAnswer(m) ==
    /\ Response(m, {"delete"})
    /\ smf' = [smf EXCEPT ![m.s] = [@ EXCEPT !.status = "released", !.address = NoAddress]]
    /\ n4' = n4 \ {m}
    /\ UNCHANGED <<amf, gnb, upf, trxn, lost, upsets, clean>>

Lose(m) ==
    /\ m \in n4 /\ lost < MaxLost
    /\ n4' = n4 \ {m} /\ lost' = lost + 1 /\ clean' = clean \ {m.s}
    /\ UNCHANGED <<amf, gnb, smf, upf, trxn, upsets>>

Receive(m) ==
    \/ CreateRules(m) \/ DropRules(m) \/ UpdateRules(m) \/ DeleteSession(m)
    \/ ContextNotFound(m) \/ CreationAnswer(m) \/ UpdateAnswer(m) \/ DeletionAnswer(m)

Next ==
    \/ \E m \in n4 : Receive(m) \/ Lose(m)
    \/ \E s \in Sessions :
          \/ CreateSmContext(s) \/ ResourceSetupResponse(s) \/ PathSwitchRequest(s)
          \/ ReleaseAn(s) \/ LoseAn(s) \/ ActivateUserPlane(s) \/ ServiceRequest(s)
          \/ GiveUp(s) \/ ReleaseSmContext(s)

\* Both ends take their messages in the order of arrival.
Fairness == \A s \in Sessions :
    WF_vars(\E m \in n4 : m.s = s /\ m.kind = "delete" /\ Receive(m))

Spec == Init /\ [][Next]_vars /\ Fairness

-----------------------------------------------------------------------------

\* What the UPF forwards to an address goes by the rules of the session that
\* has the address, whatever sessions had it before and whichever of their
\* rules are still in the table.
NoForeignDelivery == \A a \in Addresses :
    Downlink(a) # Nowhere => smf[ue_ipv4_hbo2pfcp_pdr[a][1].seid].address = a

Alone(s) == \A i \in DOMAIN ue_ipv4_hbo2pfcp_pdr[smf[s].address] :
    ue_ipv4_hbo2pfcp_pdr[smf[s].address][i].seid = s

\* The AMF takes the session for active and nothing is under way.
Active(s) == Ready(s) /\ amf[s].cnx = "ACTIVATED" /\ gnb[s].dl # None

Served(s) == /\ Downlink(smf[s].address) = gnb[s].dl
             /\ Uplink(gnb[s].ul) = Core

\* However often a session was idle and handed over, once it is active its
\* packets reach the gNB's present tunnel and what the gNB sends goes on to
\* the core, unless another session left PDRs at the address; while it is idle
\* they go nowhere, in either direction, neither by its last rules nor by older
\* ones that are still in the tables.
ServedExactlyWhenActive == \A s \in clean :
    /\ Active(s) /\ Alone(s) => Served(s)
    /\ Ready(s) /\ amf[s].cnx = "DEACTIVATED" /\ gnb[s] = NoTunnel
       => /\ Downlink(smf[s].address) = Nowhere
          /\ \A t \in Transactions :
                (\E i \in DOMAIN ul_n3_teid2pfcp_pdr[t] : ul_n3_teid2pfcp_pdr[t][i].seid = s)
                => Uplink(t) = Nowhere

\* Its first part without the last condition, as the SMF means it.
ServedWhateverCameBefore == \A s \in Sessions : Active(s) /\ s \in clean => Served(s)

\* Does not hold: the SMF takes an active session for active ("if the UP connection
\* of the PDU Session is active", smf_context.cpp); after a service request it stays
\* ACTIVATING.
ActivationIsNoticed == \A s \in clean : Active(s) => smf[s].cnx = "ACTIVATED"

\* When nothing is on its way, the UPF's session has the rules of which the
\* SMF has the ids, and no other.
RulesAgree == \A s \in clean :
    Ready(s) /\ (\A m \in n4 : m.s # s)
    => LET Ids(rules) == {rules[i].id : i \in DOMAIN rules}
       IN  /\ Ids(up[s].fars) = {smf[s].rules.far_ul, smf[s].rules.far_dl} \ {None}
           /\ Ids(up[s].pdrs) = {smf[s].rules.pdr_ul, smf[s].rules.pdr_dl} \ {None}

\* The address of a session that is released is free in the end, unless a
\* message is lost.
ReleasedIsFreed == \A s \in Sessions :
    smf[s].status = "releasing" ~> smf[s].status = "released" \/ lost > 0
=============================================================================
