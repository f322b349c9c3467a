-------------------------- MODULE N4SessionsProofs --------------------------
(***************************************************************************)
(* Proofs about N4Sessions, for any sessions, addresses and bounds: types;  *)
(* that what the UPF forwards to an address goes by the rules of the session*)
(* that has the address; and, of the sessions of which nothing went wrong,  *)
(* that the UPF has just the rules of which the SMF has the ids, and that   *)
(* packets reach their destination while a session is active and none while *)
(* it is idle.                                                              *)
(***************************************************************************)
EXTENDS N4Sessions, SequenceTheorems, WellFoundedInduction, TLAPS

USE BoundsAssumption

-----------------------------------------------------------------------------
(* What the messages on their way carry.                                    *)

AccessPdrs == [seid : Sessions, id : Transactions, prec : Nat, far : Transactions,
               iface : {"access"}, key : Id]
CorePdrs == [seid : Sessions, id : Transactions, prec : Nat, far : Transactions,
             iface : {"core"}, key : Addresses]

Creations == [op : {"create"}, far : Fars, pdr : AccessPdrs \cup CorePdrs]
Alterations == [op : {"update"}, far : Fars, pdr : Id, prec : Nat]
Removals == [op : {"remove"}, pdrs : Id \X Id, fars : Id \X Id]
Deletions == [op : {"delete"}]
Ies == Creations \cup Alterations \cup Removals \cup Deletions

Requests == [dir : {"request"}, kind : Kinds, s : Sessions, trxn : Transactions, ies : Ies]
Responses == [dir : {"response"}, kind : Kinds, s : Sessions, trxn : Transactions,
              ok : BOOLEAN, teid : Id]

Messages == n4 \subseteq Requests \cup Responses

(* The life of a session.                                                   *)

\* The UPF's table has a PDR of s for packets to a.
HasEntry(a, s) ==
    \E k \in DOMAIN ue_ipv4_hbo2pfcp_pdr[a] : ue_ipv4_hbo2pfcp_pdr[a][k].seid = s

NoEntry(s) == \A a \in Addresses : ~HasEntry(a, s)

Alive == {"creating", "up", "releasing"}

Unborn == \A s \in Sessions : smf[s].status = "none" =>
    ~up[s].known /\ NoEntry(s) /\ \A m \in n4 : m.s # s

\* There is one establishment, and until it arrives the UPF knows nothing.
Creating == \A m \in n4 : m.kind = "create" =>
    /\ smf[m.s].status = "creating"
    /\ m.dir = "request" => /\ ~up[m.s].known /\ NoEntry(m.s)
                            /\ m.ies.op = "create" /\ m.ies.pdr.iface = "access"
    /\ \A o \in n4 : o.kind = "create" /\ o.s = m.s => o = m

Updating == \A m \in n4 : m.kind \in Updates =>
    smf[m.s].status \in {"up", "releasing", "released"}

\* Once the deletion is answered, the UPF knows nothing.
Deleting == \A m \in n4 : m.kind = "delete" =>
    /\ smf[m.s].status \in {"releasing", "released"}
    /\ m.dir = "request" => m.ies.op = "delete"
    /\ m.dir = "response" => ~up[m.s].known

\* Rules on their way to the UPF are for the address that the session has.
OwnPdr == \A m \in n4 : m.dir = "request" /\ m.ies.op = "create" =>
    /\ m.ies.pdr.seid = m.s
    /\ m.ies.pdr.iface = "core" /\ smf[m.s].status \in Alive
       => m.ies.pdr.key = smf[m.s].address

KnownAlive == \A s \in Sessions : up[s].known => smf[s].status \in Alive

Addressed == \A s \in Sessions : smf[s].status \in Alive => smf[s].address \in Addresses

\* While the UPF knows a session, all its downlink PDRs are at its address.
OwnEntries == \A a \in Addresses, s \in Sessions :
    up[s].known /\ HasEntry(a, s) => smf[s].address = a

Life == /\ Unborn /\ Creating /\ Updating /\ Deleting
        /\ OwnPdr /\ KnownAlive /\ Addressed /\ OwnEntries

Inv == TypeOK /\ Messages /\ Life

-----------------------------------------------------------------------------
(* Sequences of rules.                                                      *)

\* A set of numbers that is not empty has a least one.
LEMMA LeastExists ==
  ASSUME NEW S \in SUBSET Nat, S # {}
  PROVE  \E i \in S : \A j \in S : i <= j
<1>1. PICK i \in S : \A j \in S : ~(<<j, i>> \in OpToRel(<, Nat))
  BY NatLessThanWellFounded, WFMin
<1>2. \A j \in S : ~(j < i)
  BY <1>1 DEF OpToRel
<1>3. QED
  BY <1>2

\* The place of the first rule with an id is in the sequence, or 0.
LEMMA FindIsPlace ==
  ASSUME NEW S, NEW rules \in Seq(S), NEW id
  PROVE  Find(rules, id) \in {0} \cup DOMAIN rules
<1> DEFINE I == {i \in 1..Len(rules) : rules[i].id = id}
<1>1. Find(rules, id) = IF I # {} THEN Min(I) ELSE 0
  BY DEF Find, SelectInSeq
<1>2. I # {} => Min(I) \in I
  <2> SUFFICES ASSUME I # {} PROVE Min(I) \in I
    OBVIOUS
  <2>1. I \in SUBSET Nat
    OBVIOUS
  <2>2. \E i \in I : \A j \in I : i <= j
    BY <2>1, LeastExists
  <2>3. QED
    BY <2>2 DEF Min
<1>3. QED
  BY <1>1, <1>2

\* What removing an element leaves.
LEMMA RemoveAtKeeps ==
  ASSUME NEW S, NEW q \in Seq(S), NEW i \in DOMAIN q
  PROVE  RemoveAt(q, i) \in Seq(S)
<1>1. i \in Nat \ {0} /\ Len(q) \in Nat /\ i <= Len(q)
  OBVIOUS
<1>2. SubSeq(q, 1, i - 1) \in Seq(S)
  <2>1. \A j \in 1..(i - 1) : q[j] \in S
    BY <1>1
  <2>2. 1 \in Int /\ i - 1 \in Int
    BY <1>1
  <2>3. QED
    BY <2>1, <2>2, SubSeqProperties
<1>3. SubSeq(q, i + 1, Len(q)) \in Seq(S)
  <2>1. \A j \in (i + 1)..Len(q) : q[j] \in S
    BY <1>1
  <2>2. i + 1 \in Int /\ Len(q) \in Int
    BY <1>1
  <2>3. QED
    BY <2>1, <2>2, SubSeqProperties
<1>4. QED
  BY <1>2, <1>3, ConcatProperties DEF RemoveAt

\* Removing the rules with two ids leaves some of them.
LEMMA RemoveRulesKeeps ==
  ASSUME NEW S, NEW rules \in Seq(S), NEW ids
  PROVE  /\ RemoveRules(rules, ids).rules \in Seq(S)
         /\ RemoveRules(rules, ids).ok \in BOOLEAN
<1> DEFINE Acc == [rules : Seq(S), ok : BOOLEAN]
<1>1. ASSUME NEW acc \in Acc, NEW id PROVE RemoveRule(acc, id) \in Acc
  <2>1. CASE id = None \/ ~acc.ok \/ Find(acc.rules, id) = 0
    BY <2>1 DEF RemoveRule
  <2>2. CASE id # None /\ acc.ok /\ Find(acc.rules, id) # 0
    <3>1. acc.rules \in Seq(S)
      OBVIOUS
    <3>2. Find(acc.rules, id) \in DOMAIN acc.rules
      BY <2>2, <3>1, FindIsPlace
    <3>3. RemoveAt(acc.rules, Find(acc.rules, id)) \in Seq(S)
      BY <3>1, <3>2, RemoveAtKeeps
    <3>4. RemoveRule(acc, id) = [acc EXCEPT !.rules = RemoveAt(acc.rules, Find(acc.rules, id))]
      BY <2>2 DEF RemoveRule
    <3>5. QED
      BY <3>3, <3>4
  <2>3. QED
    BY <2>1, <2>2
<1>2. [rules |-> rules, ok |-> TRUE] \in Acc
  OBVIOUS
<1>3. RemoveRule([rules |-> rules, ok |-> TRUE], ids[1]) \in Acc
  BY <1>1, <1>2
<1>4. RemoveRules(rules, ids) \in Acc
  BY <1>1, <1>3 DEF RemoveRules
<1>5. QED
  BY <1>4

\* A list after an insertion has what it had and the new PDR, or less.
LEMMA InsertPdrKeeps ==
  ASSUME NEW S, NEW list \in Seq(S), NEW pdr \in S
  PROVE  /\ InsertPdr(list, pdr) \in Seq(S)
         /\ \A k \in DOMAIN InsertPdr(list, pdr) :
              \/ InsertPdr(list, pdr)[k] = pdr
              \/ \E j \in DOMAIN list : InsertPdr(list, pdr)[k] = list[j]
<1> DEFINE I == {j \in 1..Len(list) : list[j].prec < pdr.prec}
<1>1. PICK i : i = IF I # {} THEN Min(I) ELSE 0
  OBVIOUS
<1>2. i \in {0} \cup DOMAIN list
  <2>1. CASE I # {}
    <3>1. I \in SUBSET Nat
      OBVIOUS
    <3>2. \E m \in I : \A j \in I : m <= j
      BY <2>1, <3>1, LeastExists
    <3>3. QED
      BY <1>1, <2>1, <3>2 DEF Min
  <2>2. QED
    BY <1>1, <2>1
<1>3. InsertPdr(list, pdr) =
        IF list = <<>> THEN <<pdr>> ELSE IF i = 0 THEN list ELSE InsertAt(list, i, pdr)
  BY <1>1 DEF InsertPdr, SelectInSeq
<1>4. CASE list = <<>> \/ i = 0
  BY <1>3, <1>4
<1>5. CASE list # <<>> /\ i # 0
  <2> DEFINE p == SubSeq(list, 1, i - 1)
             r == SubSeq(list, i, Len(list))
             T == {list[j] : j \in DOMAIN list} \cup {pdr}
  <2>1. i \in Nat \ {0} /\ Len(list) \in Nat /\ i <= Len(list) /\ i \in Int /\ Len(list) \in Int
        /\ i - 1 \in Int /\ 1 \in Int
    BY <1>2, <1>5
  <2>2. p \in Seq(T)
    <3>1. \A j \in 1..(i - 1) : list[j] \in T
      BY <2>1
    <3>2. QED
      BY <2>1, <3>1, SubSeqProperties
  <2>3. r \in Seq(T)
    <3>1. \A j \in i..Len(list) : list[j] \in T
      BY <2>1
    <3>2. QED
      BY <2>1, <3>1, SubSeqProperties
  <2>4. <<pdr>> \in Seq(T)
    OBVIOUS
  <2>5. InsertPdr(list, pdr) = p \o <<pdr>> \o r
    BY <1>3, <1>5 DEF InsertAt
  <2> HIDE DEF p, r, T
  <2>6. p \o <<pdr>> \in Seq(T)
    BY <2>2, <2>4, ConcatProperties
  <2>7. InsertPdr(list, pdr) \in Seq(T)
    BY <2>3, <2>5, <2>6, ConcatProperties
  <2>8. T \subseteq S
    BY DEF T
  <2>9. \A k \in DOMAIN InsertPdr(list, pdr) : InsertPdr(list, pdr)[k] \in T
    BY <2>7
  <2>10. InsertPdr(list, pdr) \in Seq(S)
    BY <2>7, <2>8
  <2>11. QED
    BY <2>9, <2>10 DEF T
<1>6. QED
  BY <1>4, <1>5

-----------------------------------------------------------------------------
(* What the UPF's handlers do.                                              *)

Rules == [far_ul : Id, far_dl : Id, pdr_ul : Id, pdr_dl : Id, ul_fteid : Id]
AmfContexts == [cnx : {"ACTIVATED", "DEACTIVATED"}, n2sm : Id,
                awaits : Updates \cup {"nothing"}, trxn : Id]
Tunnels == [asked : BOOLEAN, ul : Id, dl : Id]
SmfContexts == [status : {"none", "creating", "up", "releasing", "released"},
                address : Addresses \cup {NoAddress}, rules : Rules,
                precedence : Nat, cnx : {"ACTIVATED", "ACTIVATING", "DEACTIVATED"}]
UpfSessions == [known : BOOLEAN, pdrs : Seq(Pdrs), fars : Seq(Fars)]

\* The types of what the UPF's handlers change.
UpfTypes == /\ up \in [Sessions -> UpfSessions]
            /\ ul_n3_teid2pfcp_pdr \in [Transactions -> Seq(Pdrs)]
            /\ ue_ipv4_hbo2pfcp_pdr \in [Addresses -> Seq(Pdrs)]

\* The request m was taken and answered.
AnswerTo(m) == \E r \in Responses :
    /\ r.kind = m.kind /\ r.s = m.s /\ r.trxn = m.trxn
    /\ n4' = (n4 \ {m}) \cup {r}

\* No session has a downlink PDR where it had none.
NothingEnters == \A a \in Addresses, s \in Sessions : HasEntry(a, s)' => HasEntry(a, s)

\* The UPF learns of no session and forgets none.
KnownStays == \A s \in Sessions : up'[s].known = up[s].known

\* A message on its way is what it is.
LEMMA MessageTypes ==
  ASSUME TypeOK, Messages, NEW m \in n4
  PROVE  /\ m \in Requests \cup Responses
         /\ m.kind \in Kinds /\ m.s \in Sessions /\ m.trxn \in Transactions
         /\ m.dir = "request" => m \in Requests /\ m.ies \in Ies
         /\ m.dir = "response" => m \in Responses /\ m.ok \in BOOLEAN /\ m.teid \in Id
BY DEF TypeOK, Messages, Requests, Responses

\* Reply takes the request and answers it.
LEMMA ReplyStep ==
  ASSUME TypeOK, Messages, NEW m \in n4, NEW ok \in BOOLEAN, NEW teid \in Id, Reply(m, ok, teid)
  PROVE  AnswerTo(m)
<1>1. PICK r : r = [dir |-> "response", kind |-> m.kind, s |-> m.s, trxn |-> m.trxn,
                    ok |-> ok, teid |-> teid]
  OBVIOUS
<1>2. r \in Responses /\ r.kind = m.kind /\ r.s = m.s /\ r.trxn = m.trxn
  BY <1>1, MessageTypes DEF Responses
<1>3. n4' = (n4 \ {m}) \cup {r}
  BY <1>1 DEF Reply
<1>4. QED
  BY <1>2, <1>3 DEF AnswerTo

\* An establishment or a new rule.
LEMMA CreateRulesStep ==
  ASSUME TypeOK, Messages, NEW m \in n4, CreateRules(m)
  PROVE  /\ UpfTypes' /\ AnswerTo(m)
         /\ m.dir = "request" /\ m.ies.op = "create"
         /\ m.kind = "create" \/ up[m.s].known
         /\ \A s \in Sessions : up'[s].known = (s = m.s \/ up[s].known)
         /\ \A a \in Addresses, s \in Sessions : HasEntry(a, s)' =>
              \/ HasEntry(a, s)
              \/ m.ies.pdr.iface = "core" /\ a = m.ies.pdr.key /\ s = m.ies.pdr.seid
         /\ UNCHANGED <<amf, gnb, smf, trxn, lost, upsets, clean>>
<1>1. /\ m.dir = "request" /\ m.ies.op = "create" /\ m \in Requests
      /\ m.kind = "create" \/ up[m.s].known
      /\ UNCHANGED <<amf, gnb, smf, trxn, lost, upsets, clean>>
  BY MessageTypes DEF CreateRules, Request
<1>2. m.ies \in Creations /\ m.s \in Sessions /\ m.trxn \in Transactions
  BY <1>1, MessageTypes DEF Ies, Creations, Alterations, Removals, Deletions
<1>3. PICK pdr : pdr = [m.ies.pdr EXCEPT !.key = IF @ = None THEN m.trxn ELSE @]
  OBVIOUS
<1>4. /\ pdr \in Pdrs /\ pdr.iface = m.ies.pdr.iface /\ pdr.seid = m.ies.pdr.seid
      /\ pdr.iface = "access" => pdr.key \in Transactions
      /\ pdr.iface = "core" => pdr.key = m.ies.pdr.key /\ pdr.key \in Addresses
      /\ pdr.iface \in {"access", "core"}
  <2>1. CASE m.ies.pdr \in AccessPdrs
    <3>1. m.ies.pdr.key \in Id
      BY <2>1 DEF AccessPdrs
    <3>2. (IF m.ies.pdr.key = None THEN m.trxn ELSE m.ies.pdr.key) \in Transactions
      BY <1>2, <3>1 DEF Id
    <3>3. QED
      BY <1>3, <2>1, <3>2 DEF AccessPdrs, Pdrs
  <2>2. CASE m.ies.pdr \in CorePdrs
    <3>1. m.ies.pdr.key \in Addresses /\ m.ies.pdr.key # None
      BY <2>2 DEF CorePdrs
    <3>2. QED
      BY <1>3, <2>2, <3>1 DEF CorePdrs, Pdrs
  <2>3. QED
    BY <1>2, <2>1, <2>2 DEF Creations
<1>5. up' = [up EXCEPT ![m.s] =
          [known |-> TRUE, pdrs |-> Append(up[m.s].pdrs, pdr), fars |-> Append(up[m.s].fars, m.ies.far)]]
  BY <1>3 DEF CreateRules
<1>6. add_pfcp_pdr(pdr)
  BY <1>3 DEF CreateRules
<1>7. AnswerTo(m)
  <2>1. Reply(m, TRUE, IF pdr.iface = "access" THEN pdr.key ELSE None)
    BY <1>3 DEF CreateRules
  <2>2. (IF pdr.iface = "access" THEN pdr.key ELSE None) \in Id
    BY <1>4 DEF Id
  <2>3. QED
    BY <2>1, <2>2, ReplyStep
<1>8. up' \in [Sessions -> UpfSessions] /\ \A s \in Sessions : up'[s].known = (s = m.s \/ up[s].known)
  <2>1. up \in [Sessions -> UpfSessions]
    BY DEF TypeOK, UpfSessions
  <2>2. up[m.s].pdrs \in Seq(Pdrs) /\ up[m.s].fars \in Seq(Fars) /\ m.ies.far \in Fars
    BY <1>2, <2>1 DEF UpfSessions, Creations
  <2>3. [known |-> TRUE, pdrs |-> Append(up[m.s].pdrs, pdr), fars |-> Append(up[m.s].fars, m.ies.far)]
        \in UpfSessions
    BY <1>4, <2>2 DEF UpfSessions
  <2>4. \A s \in Sessions : up[s].known \in BOOLEAN
    BY <2>1 DEF UpfSessions
  <2>5. QED
    BY <1>2, <1>5, <2>1, <2>3, <2>4
<1>9. CASE pdr.iface = "access"
  <2>1. /\ ul_n3_teid2pfcp_pdr' =
             [ul_n3_teid2pfcp_pdr EXCEPT ![pdr.key] = InsertPdr(ul_n3_teid2pfcp_pdr[pdr.key], pdr)]
        /\ ue_ipv4_hbo2pfcp_pdr' = ue_ipv4_hbo2pfcp_pdr
    BY <1>6, <1>9 DEF add_pfcp_pdr
  <2>2. InsertPdr(ul_n3_teid2pfcp_pdr[pdr.key], pdr) \in Seq(Pdrs)
    BY <1>4, <1>9, InsertPdrKeeps DEF TypeOK
  <2>3. UpfTypes'
    BY <1>8, <2>1, <2>2 DEF TypeOK, UpfTypes
  <2>4. \A a \in Addresses, s \in Sessions : HasEntry(a, s)' => HasEntry(a, s)
    BY <2>1 DEF HasEntry
  <2>5. QED
    BY <1>1, <1>7, <1>8, <2>3, <2>4
<1>10. CASE pdr.iface = "core"
  <2>1. /\ ue_ipv4_hbo2pfcp_pdr' =
             [ue_ipv4_hbo2pfcp_pdr EXCEPT ![pdr.key] = InsertPdr(ue_ipv4_hbo2pfcp_pdr[pdr.key], pdr)]
        /\ ul_n3_teid2pfcp_pdr' = ul_n3_teid2pfcp_pdr
    BY <1>6, <1>10 DEF add_pfcp_pdr
  <2>2. pdr.key \in Addresses /\ ue_ipv4_hbo2pfcp_pdr \in [Addresses -> Seq(Pdrs)]
        /\ ue_ipv4_hbo2pfcp_pdr[pdr.key] \in Seq(Pdrs)
    BY <1>4, <1>10 DEF TypeOK
  <2>3. PICK list : list = InsertPdr(ue_ipv4_hbo2pfcp_pdr[pdr.key], pdr)
    OBVIOUS
  <2>4. /\ list \in Seq(Pdrs)
        /\ \A k \in DOMAIN list : list[k] = pdr
             \/ \E j \in DOMAIN ue_ipv4_hbo2pfcp_pdr[pdr.key] : list[k] = ue_ipv4_hbo2pfcp_pdr[pdr.key][j]
    BY <1>4, <2>2, <2>3, InsertPdrKeeps
  <2>5. \A a \in Addresses : ue_ipv4_hbo2pfcp_pdr'[a] =
          IF a = pdr.key THEN list ELSE ue_ipv4_hbo2pfcp_pdr[a]
    BY <2>1, <2>2, <2>3
  <2>6. UpfTypes'
    BY <1>8, <2>1, <2>2, <2>3, <2>4 DEF TypeOK, UpfTypes
  <2>7. \A a \in Addresses, s \in Sessions : HasEntry(a, s)' =>
          HasEntry(a, s) \/ (a = pdr.key /\ s = pdr.seid)
    <3> SUFFICES ASSUME NEW a \in Addresses, NEW s \in Sessions, HasEntry(a, s)'
                 PROVE  HasEntry(a, s) \/ (a = pdr.key /\ s = pdr.seid)
      OBVIOUS
    <3>1. CASE a # pdr.key
      <4>1. ue_ipv4_hbo2pfcp_pdr'[a] = ue_ipv4_hbo2pfcp_pdr[a]
        BY <2>5, <3>1
      <4>2. QED
        BY <4>1 DEF HasEntry
    <3>2. CASE a = pdr.key
      <4>1. ue_ipv4_hbo2pfcp_pdr'[a] = list
        BY <2>5, <3>2
      <4>2. PICK k \in DOMAIN list : list[k].seid = s
        BY <4>1 DEF HasEntry
      <4>3. QED
        BY <2>4, <3>2, <4>2 DEF HasEntry
    <3>3. QED
      BY <3>1, <3>2
  <2>8. QED
    BY <1>1, <1>4, <1>7, <1>8, <1>10, <2>6, <2>7
<1>11. QED
  BY <1>4, <1>9, <1>10

\* Rules that go leave the tables as they are.
LEMMA DropRulesStep ==
  ASSUME TypeOK, Messages, NEW m \in n4, DropRules(m)
  PROVE  /\ UpfTypes' /\ AnswerTo(m) /\ m.dir = "request" /\ m.ies.op = "remove"
         /\ KnownStays /\ NothingEnters /\ up[m.s].known
         /\ UNCHANGED <<amf, gnb, smf, trxn, lost, upsets, clean>>
<1>1. /\ m.dir = "request" /\ m.ies.op = "remove" /\ up[m.s].known
      /\ UNCHANGED <<amf, gnb, smf, ul_n3_teid2pfcp_pdr, ue_ipv4_hbo2pfcp_pdr, trxn, lost, upsets, clean>>
  BY DEF DropRules, Request, tables
<1>2. up \in [Sessions -> UpfSessions] /\ m.s \in Sessions
  BY MessageTypes DEF TypeOK, UpfSessions
<1>3. PICK pdrs : pdrs = RemoveRules(up[m.s].pdrs, m.ies.pdrs)
  OBVIOUS
<1>4. PICK fars : fars = RemoveRules(up[m.s].fars, IF pdrs.ok THEN m.ies.fars ELSE <<None, None>>)
  OBVIOUS
<1>5. /\ up' = [up EXCEPT ![m.s] = [up[m.s] EXCEPT !.pdrs = pdrs.rules, !.fars = fars.rules]]
      /\ Reply(m, pdrs.ok /\ fars.ok, None)
  BY <1>3, <1>4 DEF DropRules
<1>6. /\ pdrs.rules \in Seq(Pdrs) /\ fars.rules \in Seq(Fars)
      /\ (pdrs.ok /\ fars.ok) \in BOOLEAN
  <2>1. up[m.s].pdrs \in Seq(Pdrs) /\ up[m.s].fars \in Seq(Fars)
    BY <1>2 DEF UpfSessions
  <2>2. pdrs.rules \in Seq(Pdrs) /\ fars.rules \in Seq(Fars)
    BY <1>3, <1>4, <2>1, RemoveRulesKeeps
  <2>3. QED
    BY <2>2
<1>7. AnswerTo(m)
  <2>1. None \in Id
    BY DEF Id
  <2>2. QED
    BY <1>5, <1>6, <2>1, ReplyStep
<1>8. up' \in [Sessions -> UpfSessions] /\ KnownStays
  <2>1. PICK new : new = [up[m.s] EXCEPT !.pdrs = pdrs.rules, !.fars = fars.rules]
    OBVIOUS
  <2>2. new \in UpfSessions /\ new.known = up[m.s].known
    BY <1>2, <1>6, <2>1 DEF UpfSessions
  <2>3. up' = [up EXCEPT ![m.s] = new]
    BY <1>5, <2>1
  <2>4. QED
    BY <1>2, <2>2, <2>3 DEF KnownStays
<1>9. UpfTypes' /\ NothingEnters
  BY <1>1, <1>8 DEF UpfTypes, TypeOK, NothingEnters, HasEntry
<1>10. QED
  BY <1>1, <1>7, <1>8, <1>9

\* An update gives PDRs another precedence and nothing else.
LEMMA UpdateRulesStep ==
  ASSUME TypeOK, Messages, NEW m \in n4, UpdateRules(m)
  PROVE  /\ UpfTypes' /\ AnswerTo(m) /\ m.dir = "request" /\ m.ies.op = "update"
         /\ KnownStays /\ NothingEnters /\ up[m.s].known
         /\ UNCHANGED <<amf, gnb, smf, trxn, lost, upsets, clean>>
<1>1. /\ m.dir = "request" /\ m.ies.op = "update" /\ up[m.s].known
      /\ UNCHANGED <<amf, gnb, smf, ul_n3_teid2pfcp_pdr, trxn, lost, upsets, clean>>
  BY DEF UpdateRules, Request
<1>2. up \in [Sessions -> UpfSessions] /\ m.s \in Sessions /\ up[m.s] \in UpfSessions
  BY MessageTypes DEF TypeOK, UpfSessions
<1>3. m.ies \in Alterations
  BY <1>1, MessageTypes DEF Ies, Creations, Alterations, Removals, Deletions
<1>4. PICK i, j : i = Find(up[m.s].pdrs, m.ies.pdr) /\ j = Find(up[m.s].fars, m.ies.far.id)
  OBVIOUS
<1> DEFINE Updated(pdr) == IF i # 0 /\ pdr = up[m.s].pdrs[i] THEN [pdr EXCEPT !.prec = m.ies.prec] ELSE pdr
<1>5. PICK new : new = [up[m.s] EXCEPT
          !.pdrs = IF i = 0 THEN up[m.s].pdrs ELSE [up[m.s].pdrs EXCEPT ![i] = Updated(up[m.s].pdrs[i])],
          !.fars = IF j = 0 THEN up[m.s].fars ELSE [up[m.s].fars EXCEPT ![j] = m.ies.far]]
  OBVIOUS
<1>6. /\ up' = [up EXCEPT ![m.s] = new]
      /\ Reply(m, j # 0, None)
  <2>2. Reply(m, j # 0, None)
    BY <1>4 DEF UpdateRules
  <2>3. up' = [up EXCEPT ![m.s] = [up[m.s] EXCEPT
          !.pdrs = IF i = 0 THEN up[m.s].pdrs ELSE [up[m.s].pdrs EXCEPT ![i] = Updated(up[m.s].pdrs[i])],
          !.fars = IF j = 0 THEN up[m.s].fars ELSE [up[m.s].fars EXCEPT ![j] = m.ies.far]]]
    BY <1>4 DEF UpdateRules
  <2>4. up' = [up EXCEPT ![m.s] = new]
    BY <1>5, <2>3
  <2>5. QED
    BY <2>2, <2>4
<1>7. \A a \in Addresses : ue_ipv4_hbo2pfcp_pdr'[a] =
          [k \in DOMAIN ue_ipv4_hbo2pfcp_pdr[a] |-> Updated(ue_ipv4_hbo2pfcp_pdr[a][k])]
  BY <1>4 DEF UpdateRules
<1>8. DOMAIN ue_ipv4_hbo2pfcp_pdr' = Addresses /\ ue_ipv4_hbo2pfcp_pdr' = [a \in Addresses |-> ue_ipv4_hbo2pfcp_pdr'[a]]
  BY <1>4 DEF UpdateRules
<1>9. \A pdr \in Pdrs : Updated(pdr) \in Pdrs /\ Updated(pdr).seid = pdr.seid
  BY <1>3 DEF Pdrs, Alterations
<1>10. AnswerTo(m)
  <2>1. None \in Id /\ (j # 0) \in BOOLEAN
    BY DEF Id
  <2>2. QED
    BY <1>6, <2>1, ReplyStep
<1>11. new \in UpfSessions /\ new.known = up[m.s].known
  <2>1. up[m.s].pdrs \in Seq(Pdrs) /\ up[m.s].fars \in Seq(Fars) /\ up[m.s].known \in BOOLEAN
    BY <1>2 DEF UpfSessions
  <2>2. i \in {0} \cup DOMAIN up[m.s].pdrs /\ j \in {0} \cup DOMAIN up[m.s].fars
    BY <1>4, <2>1, FindIsPlace
  <2>3. PICK pdrs : pdrs = IF i = 0 THEN up[m.s].pdrs
                           ELSE [up[m.s].pdrs EXCEPT ![i] = Updated(up[m.s].pdrs[i])]
    OBVIOUS
  <2>4. pdrs \in Seq(Pdrs)
    <3>1. CASE i = 0
      BY <2>1, <2>3, <3>1
    <3>2. CASE i # 0
      <4>1. up[m.s].pdrs[i] \in Pdrs
        BY <2>1, <2>2, <3>2
      <4>2. PICK pdr : pdr = Updated(up[m.s].pdrs[i])
        OBVIOUS
      <4>3. pdr \in Pdrs
        BY <1>9, <4>1, <4>2
      <4>4. pdrs = [up[m.s].pdrs EXCEPT ![i] = pdr]
        BY <2>3, <3>2, <4>2
      <4>5. i \in 1..Len(up[m.s].pdrs)
        BY <2>1, <2>2, <3>2
      <4>6. QED
        BY <2>1, <4>3, <4>4, <4>5, ExceptSeq
    <3>3. QED
      BY <3>1, <3>2
  <2>5. PICK fars : fars = IF j = 0 THEN up[m.s].fars ELSE [up[m.s].fars EXCEPT ![j] = m.ies.far]
    OBVIOUS
  <2>6. fars \in Seq(Fars)
    <3>1. m.ies.far \in Fars
      BY <1>3 DEF Alterations
    <3>2. j # 0 => j \in 1..Len(up[m.s].fars)
      BY <2>1, <2>2
    <3>3. QED
      BY <2>1, <2>5, <3>1, <3>2, ExceptSeq
  <2>7. new = [up[m.s] EXCEPT !.pdrs = pdrs, !.fars = fars]
    BY <1>5, <2>3, <2>5
  <2>8. QED
    BY <1>2, <2>4, <2>6, <2>7 DEF UpfSessions
<1>12. up' \in [Sessions -> UpfSessions] /\ KnownStays
  BY <1>2, <1>6, <1>11 DEF KnownStays
<1>13. \A a \in Addresses : ue_ipv4_hbo2pfcp_pdr[a] \in Seq(Pdrs)
  BY DEF TypeOK
<1> HIDE DEF Updated
<1>14. ASSUME NEW a \in Addresses
       PROVE  /\ ue_ipv4_hbo2pfcp_pdr'[a] \in Seq(Pdrs)
              /\ \A s \in Sessions : HasEntry(a, s)' => HasEntry(a, s)
  <2>1. PICK old : old = ue_ipv4_hbo2pfcp_pdr[a]
    OBVIOUS
  <2>2. old \in Seq(Pdrs) /\ DOMAIN old = 1..Len(old) /\ Len(old) \in Nat
    BY <1>13, <2>1
  <2>3. ue_ipv4_hbo2pfcp_pdr'[a] = [k \in 1..Len(old) |-> Updated(old[k])]
    BY <1>7, <2>1, <2>2
  <2>4. \A k \in 1..Len(old) : Updated(old[k]) \in Pdrs /\ Updated(old[k]).seid = old[k].seid
    BY <1>9, <2>2
  <2>5. QED
    BY <2>1, <2>2, <2>3, <2>4 DEF HasEntry
<1>15. UpfTypes'
  <2>1. ul_n3_teid2pfcp_pdr' \in [Transactions -> Seq(Pdrs)]
    BY <1>1 DEF TypeOK
  <2>2. ue_ipv4_hbo2pfcp_pdr' \in [Addresses -> Seq(Pdrs)]
    BY <1>8, <1>14
  <2>3. QED
    BY <1>12, <2>1, <2>2 DEF UpfTypes
<1>16. QED
  BY <1>1, <1>10, <1>12, <1>14, <1>15 DEF NothingEnters

\* A deletion forgets the session.
LEMMA DeleteSessionStep ==
  ASSUME TypeOK, Messages, NEW m \in n4, DeleteSession(m)
  PROVE  /\ UpfTypes' /\ AnswerTo(m) /\ m.dir = "request" /\ m.kind = "delete"
         /\ \A s \in Sessions : up'[s].known = (s # m.s /\ up[s].known)
         /\ NothingEnters /\ up[m.s].known
         /\ UNCHANGED <<amf, gnb, smf, trxn, lost, upsets, clean>>
<1>1. /\ m.dir = "request" /\ m.kind = "delete" /\ up[m.s].known
      /\ remove_pdrs(up[m.s].pdrs)
      /\ up' = [up EXCEPT ![m.s] = NoSession]
      /\ Reply(m, TRUE, None)
      /\ UNCHANGED <<amf, gnb, smf, trxn, lost, upsets, clean>>
  BY DEF DeleteSession, Request
<1>2. up \in [Sessions -> UpfSessions] /\ m.s \in Sessions /\ \A s \in Sessions : up[s].known \in BOOLEAN
  BY MessageTypes DEF TypeOK, UpfSessions
<1>3. NoSession \in UpfSessions /\ ~NoSession.known
  BY DEF NoSession, UpfSessions
<1>4. AnswerTo(m)
  <2>1. None \in Id
    BY DEF Id
  <2>2. QED
    BY <1>1, <2>1, ReplyStep
<1>5. PICK pdrs : pdrs = up[m.s].pdrs
  OBVIOUS
<1> DEFINE Gone(key, iface) == \E i \in DOMAIN pdrs : pdrs[i].iface = iface /\ pdrs[i].key = key
<1>6. /\ ul_n3_teid2pfcp_pdr' = [t \in DOMAIN ul_n3_teid2pfcp_pdr |->
             IF Gone(t, "access") THEN <<>> ELSE ul_n3_teid2pfcp_pdr[t]]
      /\ ue_ipv4_hbo2pfcp_pdr' = [a \in DOMAIN ue_ipv4_hbo2pfcp_pdr |->
             IF Gone(a, "core") THEN <<>> ELSE ue_ipv4_hbo2pfcp_pdr[a]]
  BY <1>1, <1>5 DEF remove_pdrs
<1> HIDE DEF Gone
<1>7. /\ ul_n3_teid2pfcp_pdr' \in [Transactions -> Seq(Pdrs)]
      /\ ue_ipv4_hbo2pfcp_pdr' \in [Addresses -> Seq(Pdrs)]
  BY <1>6 DEF TypeOK
<1>8. \A a \in Addresses : ue_ipv4_hbo2pfcp_pdr'[a] \in {<<>>, ue_ipv4_hbo2pfcp_pdr[a]}
  BY <1>6 DEF TypeOK
<1>9. NothingEnters
  <2> SUFFICES ASSUME NEW a \in Addresses, NEW s \in Sessions, HasEntry(a, s)'
               PROVE  HasEntry(a, s)
    BY DEF NothingEnters
  <2>1. ue_ipv4_hbo2pfcp_pdr'[a] # <<>>
    BY DEF HasEntry
  <2>2. QED
    BY <1>8, <2>1 DEF HasEntry
<1>10. up' \in [Sessions -> UpfSessions] /\ \A s \in Sessions : up'[s].known = (s # m.s /\ up[s].known)
  <2>1. \A s \in Sessions : up'[s] = IF s = m.s THEN NoSession ELSE up[s]
    BY <1>1, <1>2
  <2>2. up' \in [Sessions -> UpfSessions]
    BY <1>1, <1>2, <1>3
  <2>3. ASSUME NEW s \in Sessions PROVE up'[s].known = (s # m.s /\ up[s].known)
    <3>1. CASE s = m.s
      <4>1. up'[s] = NoSession
        BY <2>1, <3>1
      <4>2. up'[s].known = FALSE
        BY <4>1 DEF NoSession
      <4>3. QED
        BY <3>1, <4>2
    <3>2. CASE s # m.s
      <4>1. up'[s].known = up[s].known /\ up[s].known \in BOOLEAN
        BY <1>2, <2>1, <3>2
      <4>2. QED
        BY <3>2, <4>1
    <3>3. QED
      BY <3>1, <3>2
  <2>4. QED
    BY <2>2, <2>3
<1>11. QED
  BY <1>1, <1>4, <1>7, <1>9, <1>10 DEF UpfTypes

-----------------------------------------------------------------------------
(* What the SMF's procedures do, and the AMF and the access network.        *)

\* The types of what they change.
ControlTypes == /\ amf \in [Sessions -> AmfContexts] /\ gnb \in [Sessions -> Tunnels]
                /\ smf \in [Sessions -> SmfContexts]
                /\ trxn \in Id /\ lost \in 0..MaxLost /\ upsets \in 0..MaxUpsets
                /\ clean \subseteq Sessions

\* No session's status or address changes.
StatusStays == \A s \in Sessions :
    smf'[s].status = smf[s].status /\ smf'[s].address = smf[s].address

\* Only the session s gets a status, and an address that is a or what it was.
Becomes(s, status, a) == \A r \in Sessions :
    /\ smf'[r].status = IF r = s THEN status ELSE smf[r].status
    /\ smf'[r].address = IF r = s THEN a ELSE smf[r].address

\* TypeOK is made of the types of the two halves and the messages.
LEMMA TypesTogether ==
  ASSUME UpfTypes, ControlTypes, Messages, \A m \in n4 : m.trxn \in 1..trxn
  PROVE  TypeOK
<1>1. \A m \in n4 : m.dir \in {"request", "response"} /\ m.kind \in Kinds /\ m.s \in Sessions
  BY DEF Messages, Requests, Responses
<1>2. QED
  BY <1>1
  DEF UpfTypes, ControlTypes, TypeOK, AmfContexts, Tunnels, SmfContexts, Rules, UpfSessions

\* And the other way round.
LEMMA TypesApart ==
  ASSUME TypeOK
  PROVE  UpfTypes /\ ControlTypes /\ \A m \in n4 : m.trxn \in 1..trxn
BY DEF UpfTypes, ControlTypes, TypeOK, AmfContexts, Tunnels, SmfContexts, Rules, UpfSessions

\* Send draws the next transaction.
LEMMA SendStep ==
  ASSUME TypeOK, NEW s \in Sessions, NEW kind \in Kinds, NEW ies \in Ies, Send(s, kind, ies)
  PROVE  /\ trxn' = trxn + 1 /\ trxn' \in Id
         /\ \E r \in Requests : /\ r.kind = kind /\ r.s = s /\ r.ies = ies /\ r.trxn = trxn'
                                /\ r.dir = "request"
                                /\ n4' = n4 \cup {r}
<1>1. trxn' = trxn + 1 /\ trxn' \in Transactions
  BY DEF Send, TypeOK, Id, Transactions, None
<1>2. PICK r : r = [dir |-> "request", kind |-> kind, s |-> s, trxn |-> trxn', ies |-> ies]
  OBVIOUS
<1>3. r \in Requests
  BY <1>1, <1>2 DEF Requests
<1>4. n4' = n4 \cup {r}
  BY <1>2 DEF Send
<1>5. QED
  BY <1>1, <1>2, <1>3, <1>4 DEF Id

\* An id that a transaction gives out.
LEMMA GeneratedId ==
  ASSUME TypeOK, trxn < MaxTransactions
  PROVE  /\ trxn + 1 \in Transactions /\ trxn + 1 \in Id
         /\ \A id \in Id : Generate(id) \in Transactions
BY DEF TypeOK, Generate, Id, Transactions, None

\* A session's context before a step.
LEMMA SessionTypes ==
  ASSUME TypeOK, NEW s \in Sessions
  PROVE  /\ amf[s] \in AmfContexts /\ gnb[s] \in Tunnels /\ smf[s] \in SmfContexts
         /\ smf[s].rules \in Rules
BY DEF TypeOK, AmfContexts, Tunnels, SmfContexts, Rules

NoMessageLeft(m) == n4' = n4 \ {m} /\ UNCHANGED upf

\* A session's address is one that no other has.
LEMMA CreateSmContextStep ==
  ASSUME TypeOK, NEW s \in Sessions, CreateSmContext(s)
  PROVE  /\ ControlTypes' /\ smf[s].status = "none" /\ trxn' = trxn + 1
         /\ \E a \in Addresses : Becomes(s, "creating", a)
         /\ \E r \in Requests :
              /\ r.kind = "create" /\ r.s = s /\ r.trxn = trxn' /\ r.dir = "request"
              /\ r.ies.op = "create" /\ r.ies.pdr.iface = "access" /\ r.ies.pdr.seid = s
              /\ n4' = n4 \cup {r}
         /\ UNCHANGED upf
<1>1. PICK rules : rules = [NoRules EXCEPT !.far_ul = trxn + 1, !.pdr_ul = trxn + 1]
  OBVIOUS
<1>2. PICK ies : ies = pfcp_create(s, rules, smf[s].precedence, "access", None, Core)
  OBVIOUS
<1>3. /\ smf[s].status = "none"
      /\ Send(s, "create", ies)
      /\ UNCHANGED <<amf, gnb, upf, lost, upsets, clean>>
  BY <1>1, <1>2 DEF CreateSmContext
<1>4. PICK a \in Addresses :
        smf' = [smf EXCEPT ![s] = [smf[s] EXCEPT !.status = "creating", !.address = a, !.rules = rules]]
  BY <1>1 DEF CreateSmContext
<1>5. trxn < MaxTransactions
  BY <1>3 DEF Send
<1>6. trxn + 1 \in Transactions /\ trxn + 1 \in Id
  BY <1>5, GeneratedId
<1>7. rules \in Rules /\ rules.far_ul = trxn + 1 /\ rules.pdr_ul = trxn + 1
  BY <1>1, <1>6 DEF NoRules, Rules, Id
<1>8. PICK c : c = [smf[s] EXCEPT !.status = "creating", !.address = a, !.rules = rules]
  OBVIOUS
<1>9. c \in SmfContexts /\ c.status = "creating" /\ c.address = a
  BY <1>7, <1>8, SessionTypes DEF SmfContexts
<1>10. smf' = [smf EXCEPT ![s] = c] /\ smf \in [Sessions -> SmfContexts]
  BY <1>4, <1>8, TypesApart DEF ControlTypes
<1>11. smf' \in [Sessions -> SmfContexts] /\ Becomes(s, "creating", a)
  BY <1>9, <1>10 DEF Becomes
<1>12. /\ ies = [op |-> "create", far |-> [id |-> trxn + 1, to |-> 0],
                pdr |-> [seid |-> s, id |-> trxn + 1, prec |-> smf[s].precedence, far |-> trxn + 1,
                         iface |-> "access", key |-> 0]]
  BY <1>2, <1>7 DEF pfcp_create, Pdr, Core, None
<1>13. smf[s].precedence \in Nat /\ 0 \in Id
  BY SessionTypes DEF SmfContexts, Id, None
<1>14. ies \in Creations /\ ies.op = "create" /\ ies.pdr.iface = "access" /\ ies.pdr.seid = s
  <2>1. ies.pdr \in AccessPdrs
    BY <1>6, <1>12, <1>13 DEF AccessPdrs
  <2>2. ies.far \in Fars
    BY <1>6, <1>12, <1>13 DEF Fars
  <2>3. QED
    BY <1>12, <2>1, <2>2 DEF Creations
<1>15. "create" \in Kinds /\ ies \in Ies
  BY <1>14 DEF Kinds, Ies
<1>16. /\ trxn' = trxn + 1 /\ trxn' \in Id
       /\ \E r \in Requests : /\ r.kind = "create" /\ r.s = s /\ r.ies = ies /\ r.trxn = trxn'
                              /\ r.dir = "request"
                              /\ n4' = n4 \cup {r}
  BY <1>3, <1>15, SendStep
<1>17. ControlTypes'
  BY <1>3, <1>11, <1>16, TypesApart DEF ControlTypes
<1>18. QED
  BY <1>3, <1>11, <1>14, <1>16, <1>17

\* What the procedures that change a session's rules have in common: a request for
\* a session that is up, and if it creates a rule, one for its address.
Modifies(s) ==
    /\ ControlTypes' /\ StatusStays /\ smf[s].status = "up" /\ trxn' = trxn + 1
    /\ \E r \in Requests :
         /\ r.kind \in Updates /\ r.s = s /\ r.trxn = trxn' /\ r.dir = "request"
         /\ r.ies.op = "create" =>
              /\ r.ies.pdr.seid = s
              /\ r.ies.pdr.iface = "core" => r.ies.pdr.key = smf[s].address
         /\ n4' = n4 \cup {r}
    /\ UNCHANGED upf

\* The types and statuses after a change of one session's contexts.
LEMMA ContextsChange ==
  ASSUME TypeOK, NEW s \in Sessions, NEW a \in AmfContexts, NEW g \in Tunnels, NEW c \in SmfContexts,
         amf' = [amf EXCEPT ![s] = a], gnb' = [gnb EXCEPT ![s] = g],
         smf' = [smf EXCEPT ![s] = c],
         trxn' \in Id, lost' \in 0..MaxLost, upsets' \in 0..MaxUpsets, clean' \subseteq Sessions
  PROVE  ControlTypes' /\ Becomes(s, c.status, c.address)
BY TypesApart DEF ControlTypes, Becomes

\* The UPF is told the access network's tunnel.
LEMMA ForwardDownlinkStep ==
  ASSUME TypeOK, Addressed, NEW s \in Sessions, NEW kind \in Updates, Ready(s), ForwardDownlink(s, kind)
  PROVE  Modifies(s)
<1>1. PICK old : old = smf[s].rules
  OBVIOUS
<1>2. PICK prec : prec = smf[s].precedence
  OBVIOUS
<1>3. PICK new : new = [old EXCEPT !.far_dl = Generate(old.far_dl), !.pdr_dl = Generate(old.pdr_dl)]
  OBVIOUS
<1>4. PICK ies : ies = IF kind # "step 2" /\ old.far_dl # None
                       THEN [op |-> "update", far |-> [id |-> old.far_dl, to |-> trxn + 1],
                             pdr |-> old.pdr_dl, prec |-> prec]
                       ELSE pfcp_create(s, new, prec, "core", smf[s].address, trxn + 1)
  OBVIOUS
<1>5. /\ smf' = [smf EXCEPT ![s].rules = new]
      /\ Send(s, kind, ies)
      /\ gnb' = [gnb EXCEPT ![s] = [gnb[s] EXCEPT !.asked = FALSE, !.dl = trxn + 1]]
      /\ Awaits(s, kind)
      /\ UNCHANGED <<upf, lost, upsets, clean>>
  BY <1>1, <1>2, <1>3, <1>4 DEF ForwardDownlink
<1>6. trxn + 1 \in Transactions /\ trxn + 1 \in Id /\ \A id \in Id : Generate(id) \in Transactions
  BY <1>5, GeneratedId DEF Send
<1>7. old \in Rules /\ prec \in Nat /\ smf[s].status = "up" /\ smf[s].address \in Addresses
  BY <1>1, <1>2, SessionTypes DEF SmfContexts, Ready, Addressed, Alive
<1>8. new \in Rules /\ new.far_dl \in Transactions /\ new.pdr_dl \in Transactions
  <2>1. old.far_dl \in Id /\ old.pdr_dl \in Id
    BY <1>7 DEF Rules
  <2>2. PICK f, p : f = Generate(old.far_dl) /\ p = Generate(old.pdr_dl)
    OBVIOUS
  <2>3. f \in Transactions /\ p \in Transactions
    BY <1>6, <2>1, <2>2
  <2>4. new = [old EXCEPT !.far_dl = f, !.pdr_dl = p]
    BY <1>3, <2>2
  <2>5. f \in Id /\ p \in Id
    BY <2>3 DEF Id
  <2>6. QED
    BY <1>7, <2>3, <2>4, <2>5 DEF Rules
<1>9. /\ ies \in Ies
      /\ ies.op = "create" =>
           /\ ies.pdr.seid = s
           /\ ies.pdr.iface = "core" => ies.pdr.key = smf[s].address
  <2>1. CASE kind # "step 2" /\ old.far_dl # None
    <3>1. ies = [op |-> "update", far |-> [id |-> old.far_dl, to |-> trxn + 1],
                 pdr |-> old.pdr_dl, prec |-> prec]
      BY <1>4, <2>1
    <3>2. old.far_dl \in Transactions /\ old.pdr_dl \in Id
      BY <1>7, <2>1 DEF Rules, Id
    <3>3. ies \in Alterations
      BY <1>6, <1>7, <3>1, <3>2 DEF Alterations, Fars
    <3>4. QED
      BY <3>1, <3>3 DEF Ies
  <2>2. CASE ~(kind # "step 2" /\ old.far_dl # None)
    <3>1. ies = [op |-> "create", far |-> [id |-> new.far_dl, to |-> trxn + 1],
                 pdr |-> [seid |-> s, id |-> new.pdr_dl, prec |-> prec, far |-> new.far_dl,
                          iface |-> "core", key |-> smf[s].address]]
      BY <1>4, <2>2 DEF pfcp_create, Pdr
    <3>2. ies.pdr \in CorePdrs /\ ies.far \in Fars
      BY <1>6, <1>7, <1>8, <3>1 DEF CorePdrs, Fars
    <3>3. ies \in Creations
      BY <3>1, <3>2 DEF Creations
    <3>4. QED
      BY <3>1, <3>3 DEF Ies
  <2>3. QED
    BY <2>1, <2>2
<1>10. kind \in Kinds
  BY DEF Kinds
<1>11. /\ trxn' = trxn + 1 /\ trxn' \in Id
       /\ \E r \in Requests : /\ r.kind = kind /\ r.s = s /\ r.ies = ies /\ r.trxn = trxn'
                              /\ r.dir = "request"
                              /\ n4' = n4 \cup {r}
  BY <1>5, <1>9, <1>10, SendStep
<1>12. PICK c : c = [smf[s] EXCEPT !.rules = new]
  OBVIOUS
<1>13. c \in SmfContexts /\ c.status = smf[s].status /\ c.address = smf[s].address
  BY <1>8, <1>12, SessionTypes DEF SmfContexts
<1>14. smf' = [smf EXCEPT ![s] = c]
  BY <1>5, <1>12
<1>15. PICK g : g = [gnb[s] EXCEPT !.asked = FALSE, !.dl = trxn + 1]
  OBVIOUS
<1>16. g \in Tunnels /\ gnb' = [gnb EXCEPT ![s] = g]
  BY <1>5, <1>6, <1>15, SessionTypes DEF Tunnels
<1>17. PICK a : a = [amf[s] EXCEPT !.awaits = kind, !.trxn = trxn + 1]
  OBVIOUS
<1>18. a \in AmfContexts /\ amf' = [amf EXCEPT ![s] = a]
  BY <1>5, <1>6, <1>17, SessionTypes DEF AmfContexts, Awaits
<1>19. lost' \in 0..MaxLost /\ upsets' \in 0..MaxUpsets /\ clean' \subseteq Sessions
  BY <1>5, TypesApart DEF ControlTypes
<1>20. ControlTypes' /\ Becomes(s, c.status, c.address)
  BY <1>11, <1>13, <1>14, <1>16, <1>18, <1>19, ContextsChange
<1>21. StatusStays
  BY <1>13, <1>20 DEF Becomes, StatusStays
<1>22. QED
  BY <1>5, <1>7, <1>9, <1>11, <1>20, <1>21 DEF Modifies

\* What of the control side does not change with one session's contexts.
LEMMA OthersStay ==
  ASSUME TypeOK
  PROVE  /\ UNCHANGED lost => lost' \in 0..MaxLost
         /\ UNCHANGED upsets => upsets' \in 0..MaxUpsets
         /\ UNCHANGED clean => clean' \subseteq Sessions
         /\ UNCHANGED trxn => trxn' \in Id
         /\ \A s \in Sessions :
              /\ UNCHANGED amf => amf' = [amf EXCEPT ![s] = amf[s]]
              /\ UNCHANGED gnb => gnb' = [gnb EXCEPT ![s] = gnb[s]]
              /\ UNCHANGED smf => smf' = [smf EXCEPT ![s] = smf[s]]
BY TypesApart DEF ControlTypes

\* The rules of a session whose UE goes idle are removed.
LEMMA ReleaseAnStep ==
  ASSUME TypeOK, NEW s \in Sessions, ReleaseAn(s)
  PROVE  Modifies(s)
<1>0. PICK kind : kind = "AN release"
  OBVIOUS
<1>1. PICK rules : rules = smf[s].rules
  OBVIOUS
<1>2. PICK ies : ies = [op |-> "remove", pdrs |-> <<rules.pdr_dl, rules.pdr_ul>>,
                        fars |-> <<rules.far_dl, rules.far_ul>>]
  OBVIOUS
<1>3. /\ Ready(s) /\ gnb' = [gnb EXCEPT ![s] = NoTunnel]
      /\ Send(s, kind, ies)
      /\ smf' = [smf EXCEPT ![s] = [smf[s] EXCEPT !.rules = NoRules, !.cnx = "DEACTIVATED"]]
      /\ Awaits(s, "AN release")
      /\ UNCHANGED <<upf, lost, upsets, clean>>
  BY <1>0, <1>1, <1>2 DEF ReleaseAn
<1>4. trxn + 1 \in Id /\ smf[s].status = "up"
  BY <1>3, GeneratedId DEF Send, Ready
<1>5. ies \in Ies /\ ies.op # "create"
  <2>1. rules \in Rules
    BY <1>1, SessionTypes
  <2>2. ies \in Removals /\ ies.op = "remove"
    BY <1>2, <2>1 DEF Removals, Rules
  <2>3. QED
    BY <2>2 DEF Ies
<1>6. kind \in Updates /\ kind \in Kinds /\ "AN release" \in Updates
  BY <1>0 DEF Updates, Kinds
<1>7. /\ trxn' = trxn + 1 /\ trxn' \in Id
      /\ \E r \in Requests : /\ r.kind = kind /\ r.s = s /\ r.ies = ies /\ r.trxn = trxn'
                             /\ r.dir = "request"
                             /\ n4' = n4 \cup {r}
  <2>1. Send(s, kind, ies)
    BY <1>3
  <2>2. ies \in Ies
    BY <1>5
  <2>3. kind \in Kinds
    BY <1>6
  <2>4. QED
    BY <2>1, <2>2, <2>3, SendStep
<1>8. PICK c : c = [smf[s] EXCEPT !.rules = NoRules, !.cnx = "DEACTIVATED"]
  OBVIOUS
<1>9. c \in SmfContexts /\ c.status = smf[s].status /\ c.address = smf[s].address
  <2>1. NoRules \in Rules
    BY DEF NoRules, Rules, Id
  <2>2. QED
    BY <1>8, <2>1, SessionTypes DEF SmfContexts
<1>10. NoTunnel \in Tunnels
  BY DEF NoTunnel, Tunnels, Id
<1>11. PICK a : a = [amf[s] EXCEPT !.awaits = "AN release", !.trxn = trxn + 1]
  OBVIOUS
<1>12. a \in AmfContexts /\ amf' = [amf EXCEPT ![s] = a]
  BY <1>3, <1>4, <1>6, <1>11, SessionTypes DEF AmfContexts, Awaits
<1>13. lost' \in 0..MaxLost /\ upsets' \in 0..MaxUpsets /\ clean' \subseteq Sessions
  BY <1>3, OthersStay
<1>14. smf' = [smf EXCEPT ![s] = c] /\ gnb' = [gnb EXCEPT ![s] = NoTunnel]
  BY <1>3, <1>8
<1>15. ControlTypes' /\ Becomes(s, c.status, c.address)
  BY <1>7, <1>9, <1>10, <1>12, <1>13, <1>14, ContextsChange
<1>16. StatusStays
  BY <1>9, <1>15 DEF Becomes, StatusStays
<1>17. QED
  BY <1>3, <1>4, <1>5, <1>6, <1>7, <1>15, <1>16 DEF Modifies

\* New UL rules are at the session's TEID or at one that the UPF chooses.
LEMMA ActivateUserPlaneStep ==
  ASSUME TypeOK, NEW s \in Sessions, ActivateUserPlane(s)
  PROVE  Modifies(s)
<1>0. PICK kind : kind = "step 1"
  OBVIOUS
<1>1. PICK rules : rules = [smf[s].rules EXCEPT !.far_ul = Generate(smf[s].rules.far_ul),
                                                !.pdr_ul = trxn + 1]
  OBVIOUS
<1>2. PICK prec : prec = smf[s].precedence + 1
  OBVIOUS
<1>3. PICK ies : ies = pfcp_create(s, rules, prec, "access", rules.ul_fteid, Core)
  OBVIOUS
<1>4. /\ Ready(s)
      /\ smf' = [smf EXCEPT ![s] =
            [smf[s] EXCEPT !.rules = rules, !.precedence = prec, !.cnx = "ACTIVATING"]]
      /\ Send(s, kind, ies)
      /\ Awaits(s, "step 1")
      /\ UNCHANGED <<gnb, upf, lost, upsets, clean>>
  BY <1>0, <1>1, <1>2, <1>3 DEF ActivateUserPlane
<1>5. /\ trxn + 1 \in Transactions /\ trxn + 1 \in Id /\ \A id \in Id : Generate(id) \in Transactions
      /\ smf[s].status = "up"
  BY <1>4, GeneratedId DEF Send, Ready
<1>6. rules \in Rules /\ rules.far_ul \in Transactions /\ rules.pdr_ul = trxn + 1 /\ rules.ul_fteid \in Id
  <2>1. PICK f : f = Generate(smf[s].rules.far_ul)
    OBVIOUS
  <2>2. smf[s].rules.far_ul \in Id
    BY SessionTypes DEF Rules
  <2>3. f \in Transactions /\ f \in Id
    BY <1>5, <2>1, <2>2 DEF Id
  <2>4. rules = [smf[s].rules EXCEPT !.far_ul = f, !.pdr_ul = trxn + 1]
    BY <1>1, <2>1
  <2>5. QED
    BY <1>5, <2>3, <2>4, SessionTypes DEF Rules
<1>7. prec \in Nat
  BY <1>2, SessionTypes DEF SmfContexts
<1>8. ies \in Ies /\ ies.op = "create" /\ ies.pdr.seid = s /\ ies.pdr.iface = "access"
  <2>1. ies = [op |-> "create", far |-> [id |-> rules.far_ul, to |-> 0],
               pdr |-> [seid |-> s, id |-> rules.pdr_ul, prec |-> prec, far |-> rules.far_ul,
                        iface |-> "access", key |-> rules.ul_fteid]]
    BY <1>3 DEF pfcp_create, Pdr, Core
  <2>2. 0 \in Id
    BY DEF Id, None
  <2>3. ies.pdr \in AccessPdrs /\ ies.far \in Fars
    BY <1>5, <1>6, <1>7, <2>1, <2>2 DEF AccessPdrs, Fars
  <2>4. ies \in Creations
    BY <2>1, <2>3 DEF Creations
  <2>5. QED
    BY <2>1, <2>4 DEF Ies
<1>9. kind \in Updates /\ kind \in Kinds /\ "step 1" \in Updates
  BY <1>0 DEF Updates, Kinds
<1>10. /\ trxn' = trxn + 1 /\ trxn' \in Id
       /\ \E r \in Requests : /\ r.kind = kind /\ r.s = s /\ r.ies = ies /\ r.trxn = trxn'
                              /\ r.dir = "request"
                              /\ n4' = n4 \cup {r}
  <2>1. Send(s, kind, ies)
    BY <1>4
  <2>2. ies \in Ies
    BY <1>8
  <2>3. kind \in Kinds
    BY <1>9
  <2>4. QED
    BY <2>1, <2>2, <2>3, SendStep
<1>11. PICK c : c = [smf[s] EXCEPT !.rules = rules, !.precedence = prec, !.cnx = "ACTIVATING"]
  OBVIOUS
<1>12. c \in SmfContexts /\ c.status = smf[s].status /\ c.address = smf[s].address
  BY <1>6, <1>7, <1>11, SessionTypes DEF SmfContexts
<1>13. PICK a : a = [amf[s] EXCEPT !.awaits = "step 1", !.trxn = trxn + 1]
  OBVIOUS
<1>14. a \in AmfContexts /\ amf' = [amf EXCEPT ![s] = a]
  BY <1>4, <1>5, <1>9, <1>13, SessionTypes DEF AmfContexts, Awaits
<1>15. lost' \in 0..MaxLost /\ upsets' \in 0..MaxUpsets /\ clean' \subseteq Sessions
       /\ gnb' = [gnb EXCEPT ![s] = gnb[s]]
  BY <1>4, OthersStay
<1>16. smf' = [smf EXCEPT ![s] = c] /\ gnb[s] \in Tunnels
  BY <1>4, <1>11, SessionTypes
<1>17. ControlTypes' /\ Becomes(s, c.status, c.address)
  BY <1>10, <1>12, <1>14, <1>15, <1>16, ContextsChange
<1>18. StatusStays
  BY <1>12, <1>17 DEF Becomes, StatusStays
<1>19. QED
  BY <1>4, <1>5, <1>8, <1>9, <1>10, <1>17, <1>18 DEF Modifies

\* A release keeps the address until the UPF has answered.
LEMMA ReleaseSmContextStep ==
  ASSUME TypeOK, NEW s \in Sessions, ReleaseSmContext(s)
  PROVE  /\ ControlTypes' /\ smf[s].status = "up" /\ trxn' = trxn + 1
         /\ Becomes(s, "releasing", smf[s].address)
         /\ \E r \in Requests :
              /\ r.kind = "delete" /\ r.s = s /\ r.trxn = trxn' /\ r.dir = "request"
              /\ r.ies.op = "delete"
              /\ n4' = n4 \cup {r}
         /\ UNCHANGED upf
<1>1. /\ Ready(s) /\ smf' = [smf EXCEPT ![s].status = "releasing"]
      /\ gnb' = [gnb EXCEPT ![s] = NoTunnel]
      /\ Send(s, "delete", [op |-> "delete"])
      /\ UNCHANGED <<amf, upf, lost, upsets, clean>>
  BY DEF ReleaseSmContext
<1>2. [op |-> "delete"] \in Ies /\ "delete" \in Kinds
  BY DEF Ies, Deletions, Kinds
<1>3. /\ trxn' = trxn + 1 /\ trxn' \in Id
      /\ \E r \in Requests : /\ r.kind = "delete" /\ r.s = s /\ r.ies = [op |-> "delete"] /\ r.trxn = trxn'
                             /\ r.dir = "request"
                             /\ n4' = n4 \cup {r}
  BY <1>1, <1>2, SendStep
<1>4. PICK c : c = [smf[s] EXCEPT !.status = "releasing"]
  OBVIOUS
<1>5. c \in SmfContexts /\ c.status = "releasing" /\ c.address = smf[s].address
  BY <1>4, SessionTypes DEF SmfContexts
<1>6. NoTunnel \in Tunnels /\ amf[s] \in AmfContexts
  BY SessionTypes DEF NoTunnel, Tunnels, Id
<1>7. smf' = [smf EXCEPT ![s] = c] /\ gnb' = [gnb EXCEPT ![s] = NoTunnel] /\ smf[s].status = "up"
  BY <1>1, <1>4 DEF Ready
<1>8. lost' \in 0..MaxLost /\ upsets' \in 0..MaxUpsets /\ clean' \subseteq Sessions
      /\ amf' = [amf EXCEPT ![s] = amf[s]]
  BY <1>1, OthersStay
<1>9. ControlTypes' /\ Becomes(s, c.status, c.address)
  BY <1>3, <1>5, <1>6, <1>7, <1>8, ContextsChange
<1>10. QED
  BY <1>1, <1>3, <1>5, <1>7, <1>9

\* The answer to an establishment makes the session one that is up.
LEMMA CreationAnswerStep ==
  ASSUME TypeOK, Messages, NEW m \in n4, CreationAnswer(m)
  PROVE  /\ ControlTypes' /\ m.dir = "response" /\ m.kind = "create"
         /\ Becomes(m.s, "up", smf[m.s].address)
         /\ n4' = n4 \ {m} /\ UNCHANGED <<upf, trxn>>
<1>1. /\ m.dir = "response" /\ m.kind = "create"
      /\ smf' = [smf EXCEPT ![m.s] = [smf[m.s] EXCEPT !.status = "up", !.rules.ul_fteid = m.teid]]
      /\ amf' = [amf EXCEPT ![m.s].n2sm = m.teid]
      /\ gnb' = [gnb EXCEPT ![m.s] = [NoTunnel EXCEPT !.asked = TRUE, !.ul = m.teid]]
      /\ n4' = n4 \ {m}
      /\ UNCHANGED <<upf, trxn, lost, upsets, clean>>
  BY DEF CreationAnswer, Response
<1>2. m.s \in Sessions /\ m.teid \in Id
  BY <1>1, MessageTypes
<1>3. PICK c : c = [smf[m.s] EXCEPT !.status = "up", !.rules.ul_fteid = m.teid]
  OBVIOUS
<1>4. c \in SmfContexts /\ c.status = "up" /\ c.address = smf[m.s].address
  <2>1. PICK rules : rules = [smf[m.s].rules EXCEPT !.ul_fteid = m.teid]
    OBVIOUS
  <2>2. rules \in Rules
    BY <1>2, <2>1, SessionTypes DEF Rules
  <2>3. c = [smf[m.s] EXCEPT !.status = "up", !.rules = rules]
    BY <1>2, <1>3, <2>1, SessionTypes DEF SmfContexts, Rules
  <2>4. QED
    BY <1>2, <2>2, <2>3, SessionTypes DEF SmfContexts
<1>5. PICK a : a = [amf[m.s] EXCEPT !.n2sm = m.teid]
  OBVIOUS
<1>6. a \in AmfContexts /\ amf' = [amf EXCEPT ![m.s] = a]
  BY <1>1, <1>2, <1>5, SessionTypes DEF AmfContexts
<1>7. PICK g : g = [NoTunnel EXCEPT !.asked = TRUE, !.ul = m.teid]
  OBVIOUS
<1>8. g \in Tunnels /\ gnb' = [gnb EXCEPT ![m.s] = g]
  BY <1>1, <1>2, <1>7 DEF Tunnels, NoTunnel, Id
<1>9. trxn' \in Id /\ lost' \in 0..MaxLost /\ upsets' \in 0..MaxUpsets /\ clean' \subseteq Sessions
  BY <1>1, OthersStay
<1>10. smf' = [smf EXCEPT ![m.s] = c]
  BY <1>1, <1>3
<1>11. ControlTypes' /\ Becomes(m.s, c.status, c.address)
  BY <1>2, <1>4, <1>6, <1>8, <1>9, <1>10, ContextsChange
<1>12. QED
  BY <1>1, <1>4, <1>11

\* The answer to an update changes no status.
LEMMA UpdateAnswerStep ==
  ASSUME TypeOK, Messages, NEW m \in n4, UpdateAnswer(m)
  PROVE  /\ ControlTypes' /\ StatusStays /\ n4' = n4 \ {m} /\ UNCHANGED <<upf, trxn>>
<1>1. PICK cnx : cnx = IF m.kind = "AN release" THEN "DEACTIVATED"
                       ELSE IF m.ok /\ m.kind = "establishment" THEN "ACTIVATED"
                       ELSE IF m.ok /\ m.kind = "step 1" THEN "ACTIVATING" ELSE smf[m.s].cnx
  OBVIOUS
<1>2. /\ m.dir = "response"
      /\ smf' = [smf EXCEPT ![m.s] = [smf[m.s] EXCEPT !.cnx = cnx]]
      /\ IF amf[m.s].trxn = m.trxn THEN Answered(m) ELSE UNCHANGED <<amf, gnb, clean>>
      /\ n4' = n4 \ {m}
      /\ UNCHANGED <<upf, trxn, lost, upsets>>
  BY <1>1 DEF UpdateAnswer, Response
<1>3. m.s \in Sessions /\ m.teid \in Id /\ m.ok \in BOOLEAN
  BY <1>2, MessageTypes
<1>4. PICK c : c = [smf[m.s] EXCEPT !.cnx = cnx]
  OBVIOUS
<1>5. c \in SmfContexts /\ c.status = smf[m.s].status /\ c.address = smf[m.s].address
  <2>1. cnx \in {"ACTIVATED", "ACTIVATING", "DEACTIVATED"}
    BY <1>1, <1>3, SessionTypes DEF SmfContexts
  <2>2. QED
    BY <1>3, <1>4, <2>1, SessionTypes DEF SmfContexts
<1>6. \E a \in AmfContexts, g \in Tunnels :
        amf' = [amf EXCEPT ![m.s] = a] /\ gnb' = [gnb EXCEPT ![m.s] = g]
  <2>1. CASE amf[m.s].trxn # m.trxn
    <3>1. amf' = [amf EXCEPT ![m.s] = amf[m.s]] /\ gnb' = [gnb EXCEPT ![m.s] = gnb[m.s]]
      BY <1>2, <1>3, <2>1, OthersStay
    <3>2. amf[m.s] \in AmfContexts /\ gnb[m.s] \in Tunnels
      BY <1>3, SessionTypes
    <3>3. QED
      BY <3>1, <3>2
  <2>2. CASE Answered(m)
    <3>1. PICK x, n2sm :
            /\ x = IF ~m.ok \/ m.kind = "path switch" THEN amf[m.s].cnx
                   ELSE IF m.kind = "AN release" THEN "DEACTIVATED" ELSE "ACTIVATED"
            /\ n2sm = IF m.kind = "step 1" THEN m.teid ELSE amf[m.s].n2sm
      OBVIOUS
    <3>2. amf' = [amf EXCEPT ![m.s] =
            [cnx |-> x, n2sm |-> n2sm, awaits |-> "nothing", trxn |-> None]]
      BY <2>2, <3>1 DEF Answered
    <3>3. [cnx |-> x, n2sm |-> n2sm, awaits |-> "nothing", trxn |-> None] \in AmfContexts
      BY <1>3, <3>1, SessionTypes DEF AmfContexts, Id
    <3>4. PICK g : g = IF m.kind # "step 1" THEN gnb[m.s] ELSE [NoTunnel EXCEPT !.asked = TRUE, !.ul = m.teid]
      OBVIOUS
    <3>5. g \in Tunnels
      BY <1>3, <3>4, SessionTypes DEF Tunnels, NoTunnel, Id
    <3>6. gnb' = [gnb EXCEPT ![m.s] = g]
      BY <1>3, <2>2, <3>4, OthersStay DEF Answered
    <3>7. QED
      BY <3>2, <3>3, <3>5, <3>6
  <2>3. QED
    BY <1>2, <2>1, <2>2
<1>7. clean' \subseteq Sessions
  BY <1>2, TypesApart DEF ControlTypes, Answered
<1>8. trxn' \in Id /\ lost' \in 0..MaxLost /\ upsets' \in 0..MaxUpsets
  BY <1>2, OthersStay
<1>9. smf' = [smf EXCEPT ![m.s] = c]
  BY <1>2, <1>4
<1>10. ControlTypes' /\ Becomes(m.s, c.status, c.address)
  BY <1>3, <1>5, <1>6, <1>7, <1>8, <1>9, ContextsChange
<1>11. StatusStays
  BY <1>5, <1>10 DEF Becomes, StatusStays
<1>12. QED
  BY <1>2, <1>10, <1>11

\* The answer to a deletion frees the address.
LEMMA DeletionAnswerStep ==
  ASSUME TypeOK, Messages, NEW m \in n4, DeletionAnswer(m)
  PROVE  /\ ControlTypes' /\ m.dir = "response" /\ m.kind = "delete"
         /\ Becomes(m.s, "released", NoAddress)
         /\ n4' = n4 \ {m} /\ UNCHANGED <<upf, trxn>>
<1>1. /\ m.dir = "response" /\ m.kind = "delete"
      /\ smf' = [smf EXCEPT ![m.s] = [smf[m.s] EXCEPT !.status = "released", !.address = NoAddress]]
      /\ n4' = n4 \ {m}
      /\ UNCHANGED <<amf, gnb, upf, trxn, lost, upsets, clean>>
  BY DEF DeletionAnswer, Response
<1>2. m.s \in Sessions
  BY MessageTypes
<1>3. PICK c : c = [smf[m.s] EXCEPT !.status = "released", !.address = NoAddress]
  OBVIOUS
<1>4. c \in SmfContexts /\ c.status = "released" /\ c.address = NoAddress
  BY <1>2, <1>3, SessionTypes DEF SmfContexts
<1>5. /\ amf' = [amf EXCEPT ![m.s] = amf[m.s]] /\ gnb' = [gnb EXCEPT ![m.s] = gnb[m.s]]
      /\ trxn' \in Id /\ lost' \in 0..MaxLost /\ upsets' \in 0..MaxUpsets /\ clean' \subseteq Sessions
  BY <1>1, <1>2, OthersStay
<1>6. smf' = [smf EXCEPT ![m.s] = c] /\ amf[m.s] \in AmfContexts /\ gnb[m.s] \in Tunnels
  BY <1>1, <1>2, <1>3, SessionTypes
<1>7. ControlTypes' /\ Becomes(m.s, c.status, c.address)
  BY <1>2, <1>4, <1>5, <1>6, ContextsChange
<1>8. QED
  BY <1>1, <1>4, <1>7

\* A time-out, a lost connection and a repeated set-up concern the AMF and the gNB only.
LEMMA AccessStep ==
  ASSUME TypeOK, NEW s \in Sessions, LoseAn(s) \/ ServiceRequest(s) \/ GiveUp(s)
  PROVE  ControlTypes' /\ StatusStays /\ UNCHANGED <<upf, n4, trxn>>
<1>1. UNCHANGED <<smf, upf, n4, trxn, lost>>
  BY DEF LoseAn, ServiceRequest, GiveUp
<1>2. NoTunnel \in Tunnels /\ [NoTunnel EXCEPT !.asked = TRUE, !.ul = amf[s].n2sm] \in Tunnels
  BY SessionTypes DEF NoTunnel, Tunnels, Id, AmfContexts
<1>3. gnb' \in [Sessions -> Tunnels]
  BY <1>2, TypesApart DEF ControlTypes, LoseAn, ServiceRequest, GiveUp, SetUpAgain
<1>4. amf' \in [Sessions -> AmfContexts]
  <2>1. PICK a : a = [amf[s] EXCEPT !.awaits = "nothing", !.trxn = None]
    OBVIOUS
  <2>2. a \in AmfContexts
    BY <2>1, SessionTypes DEF AmfContexts, Id
  <2>3. amf' = amf \/ amf' = [amf EXCEPT ![s] = a]
    BY <2>1 DEF LoseAn, ServiceRequest, GiveUp
  <2>4. QED
    BY <2>2, <2>3, TypesApart DEF ControlTypes
<1>5. upsets' \in 0..MaxUpsets /\ clean' \subseteq Sessions
  <2>1. Upset(s) \/ UNCHANGED <<upsets, clean>>
    BY DEF LoseAn, ServiceRequest, GiveUp
  <2>2. upsets \in 0..MaxUpsets /\ clean \subseteq Sessions
    BY TypesApart DEF ControlTypes
  <2>3. QED
    BY <2>1, <2>2 DEF Upset
<1>6. QED
  BY <1>1, <1>3, <1>4, <1>5, TypesApart DEF ControlTypes, StatusStays

\* A message is lost.
LEMMA LoseStep ==
  ASSUME TypeOK, NEW m \in n4, Lose(m)
  PROVE  ControlTypes' /\ StatusStays /\ n4' = n4 \ {m} /\ UNCHANGED <<upf, trxn>>
BY TypesApart DEF Lose, ControlTypes, StatusStays

-----------------------------------------------------------------------------
(* Every step keeps the life of a session.                                  *)

\* A message is a creation, a deletion or an update, and only one of them.
LEMMA KindsApart ==
  ASSUME NEW kind \in Kinds
  PROVE  /\ kind \in Updates \/ kind = "create" \/ kind = "delete"
         /\ kind = "create" => kind \notin Updates /\ kind # "delete"
         /\ kind = "delete" => kind \notin Updates
BY DEF Kinds, Updates

\* With the UPF's tables as they are, entries are what they were.
LEMMA SameEntries ==
  ASSUME UNCHANGED upf
  PROVE  /\ \A a, s : HasEntry(a, s)' <=> HasEntry(a, s)
         /\ \A s : NoEntry(s)' <=> NoEntry(s)
         /\ up' = up
BY DEF upf, tables, HasEntry, NoEntry

\* A message is taken and nothing that matters changes.
LEMMA LifeOfTaken ==
  ASSUME Inv, UNCHANGED upf, StatusStays, n4' \subseteq n4
  PROVE  Life'
<1> USE DEF Inv, Life
<1>1. /\ \A a, s : HasEntry(a, s)' <=> HasEntry(a, s)
      /\ \A s : NoEntry(s)' <=> NoEntry(s)
      /\ up' = up
  BY SameEntries
<1>2. \A m \in n4 : m \in n4' => m.s \in Sessions
  BY MessageTypes
<1>3. Unborn' /\ KnownAlive' /\ Addressed' /\ OwnEntries'
  BY <1>1 DEF Unborn, KnownAlive, Addressed, OwnEntries, StatusStays
<1>4. Creating'
  BY <1>1, <1>2 DEF Creating, StatusStays
<1>5. Updating' /\ Deleting'
  BY <1>1, <1>2 DEF Updating, Deleting, StatusStays
<1>6. OwnPdr'
  BY <1>1, <1>2 DEF OwnPdr, StatusStays
<1>7. QED
  BY <1>3, <1>4, <1>5, <1>6

\* A request for a session that is up.
LEMMA LifeOfUpdate ==
  ASSUME Inv, NEW s \in Sessions, Modifies(s)
  PROVE  Life'
<1> USE DEF Inv, Life
<1>1. PICK r \in Requests :
        /\ r.kind \in Updates /\ r.s = s /\ r.trxn = trxn' /\ r.dir = "request"
        /\ r.ies.op = "create" =>
             /\ r.ies.pdr.seid = s
             /\ r.ies.pdr.iface = "core" => r.ies.pdr.key = smf[s].address
        /\ n4' = n4 \cup {r}
  BY DEF Modifies
<1>2. /\ StatusStays /\ smf[s].status = "up"
      /\ \A a, x : HasEntry(a, x)' <=> HasEntry(a, x)
      /\ \A x : NoEntry(x)' <=> NoEntry(x)
      /\ up' = up
  BY SameEntries DEF Modifies
<1>3. \A m \in n4 : m.s \in Sessions
  BY MessageTypes
<1>4. r.kind # "create" /\ r.kind # "delete"
  BY <1>1 DEF Updates
<1>5. Unborn' /\ KnownAlive' /\ Addressed' /\ OwnEntries'
  BY <1>1, <1>2 DEF Unborn, KnownAlive, Addressed, OwnEntries, StatusStays
<1>6. Creating'
  BY <1>1, <1>2, <1>3, <1>4 DEF Creating, StatusStays
<1>7. Updating' /\ Deleting'
  BY <1>1, <1>2, <1>3, <1>4 DEF Updating, Deleting, StatusStays
<1>8. OwnPdr'
  BY <1>1, <1>2, <1>3 DEF OwnPdr, StatusStays
<1>9. QED
  BY <1>5, <1>6, <1>7, <1>8

\* An establishment of a session of which there was nothing.
LEMMA LifeOfCreation ==
  ASSUME Inv, NEW s \in Sessions, CreateSmContext(s)
  PROVE  Life'
<1> USE DEF Inv, Life
<1>1. PICK a \in Addresses : Becomes(s, "creating", a)
  BY CreateSmContextStep
<1>2. PICK r \in Requests :
        /\ r.kind = "create" /\ r.s = s /\ r.trxn = trxn' /\ r.dir = "request"
        /\ r.ies.op = "create" /\ r.ies.pdr.iface = "access" /\ r.ies.pdr.seid = s
        /\ n4' = n4 \cup {r}
  BY CreateSmContextStep
<1>3. /\ smf[s].status = "none"
      /\ \A b, x : HasEntry(b, x)' <=> HasEntry(b, x)
      /\ \A x : NoEntry(x)' <=> NoEntry(x)
      /\ up' = up
  BY CreateSmContextStep, SameEntries
<1>4. ~up[s].known /\ NoEntry(s) /\ \A m \in n4 : m.s # s
  BY <1>3 DEF Unborn
<1>5. \A m \in n4 : m.s \in Sessions
  BY MessageTypes
<1>6. Unborn'
  BY <1>1, <1>2, <1>3 DEF Unborn, Becomes
<1>7. Creating'
  BY <1>1, <1>2, <1>3, <1>4, <1>5 DEF Creating, Becomes
<1>8. Updating' /\ Deleting'
  BY <1>1, <1>2, <1>3, <1>4, <1>5 DEF Updating, Deleting, Becomes, Updates
<1>9. OwnPdr'
  BY <1>1, <1>2, <1>3, <1>4, <1>5 DEF OwnPdr, Becomes
<1>10. KnownAlive' /\ Addressed'
  BY <1>1, <1>3, <1>4 DEF KnownAlive, Addressed, Becomes, Alive
<1>11. OwnEntries'
  BY <1>1, <1>3, <1>4 DEF OwnEntries, Becomes
<1>12. QED
  BY <1>6, <1>7, <1>8, <1>9, <1>10, <1>11

\* A deletion of a session that is up.
LEMMA LifeOfRelease ==
  ASSUME Inv, NEW s \in Sessions, ReleaseSmContext(s)
  PROVE  Life'
<1> USE DEF Inv, Life
<1>1. PICK r \in Requests :
        /\ r.kind = "delete" /\ r.s = s /\ r.trxn = trxn' /\ r.dir = "request"
        /\ r.ies.op = "delete"
        /\ n4' = n4 \cup {r}
  BY ReleaseSmContextStep
<1>2. /\ smf[s].status = "up" /\ Becomes(s, "releasing", smf[s].address)
      /\ \A b, x : HasEntry(b, x)' <=> HasEntry(b, x)
      /\ \A x : NoEntry(x)' <=> NoEntry(x)
      /\ up' = up
  BY ReleaseSmContextStep, SameEntries
<1>3. \A m \in n4 : m.s \in Sessions
  BY MessageTypes
<1>4. \A m \in n4 : m.s = s => m.kind # "create"
  BY <1>2 DEF Creating
<1>5. Unborn'
  BY <1>1, <1>2 DEF Unborn, Becomes
<1>6. Creating'
  BY <1>1, <1>2, <1>3, <1>4 DEF Creating, Becomes
<1>7. Updating' /\ Deleting'
  BY <1>1, <1>2, <1>3 DEF Updating, Deleting, Becomes, Updates
<1>8. OwnPdr'
  BY <1>1, <1>2, <1>3 DEF OwnPdr, Becomes, Alive
<1>9. KnownAlive' /\ Addressed' /\ OwnEntries'
  BY <1>2 DEF KnownAlive, Addressed, OwnEntries, Becomes, Alive
<1>10. QED
  BY <1>5, <1>6, <1>7, <1>8, <1>9

\* The establishment is answered.
LEMMA LifeOfCreationAnswer ==
  ASSUME Inv, NEW m \in n4, CreationAnswer(m)
  PROVE  Life'
<1> USE DEF Inv, Life
<1>1. /\ m.dir = "response" /\ m.kind = "create" /\ n4' = n4 \ {m}
      /\ Becomes(m.s, "up", smf[m.s].address)
      /\ \A b, x : HasEntry(b, x)' <=> HasEntry(b, x)
      /\ \A x : NoEntry(x)' <=> NoEntry(x)
      /\ up' = up
  BY CreationAnswerStep, SameEntries
<1>2. \A o \in n4 : o.s \in Sessions /\ o.kind \in Kinds
  BY MessageTypes
<1>3. smf[m.s].status = "creating" /\ m.s \in Sessions
  BY <1>1, <1>2 DEF Creating
<1>4. \A o \in n4' : o.s = m.s => o.kind \notin {"create", "delete"} \cup Updates
  BY <1>1, <1>3 DEF Creating, Updating, Deleting
<1>5. \A o \in n4' : o \in n4 /\ o.s # m.s
  BY <1>1, <1>2, <1>4 DEF Kinds
<1>6. Unborn'
  BY <1>1, <1>5 DEF Unborn, Becomes
<1>7. Creating' /\ Updating' /\ Deleting'
  BY <1>1, <1>2, <1>5 DEF Creating, Updating, Deleting, Becomes
<1>8. OwnPdr'
  BY <1>1, <1>2, <1>5 DEF OwnPdr, Becomes
<1>9. KnownAlive' /\ Addressed' /\ OwnEntries'
  BY <1>1, <1>3 DEF KnownAlive, Addressed, OwnEntries, Becomes, Alive
<1>10. QED
  BY <1>6, <1>7, <1>8, <1>9

\* The deletion is answered: the UPF knows nothing any more.
LEMMA LifeOfDeletionAnswer ==
  ASSUME Inv, NEW m \in n4, DeletionAnswer(m)
  PROVE  Life'
<1> USE DEF Inv, Life
<1>1. /\ m.dir = "response" /\ m.kind = "delete" /\ n4' = n4 \ {m}
      /\ Becomes(m.s, "released", NoAddress)
      /\ \A b, x : HasEntry(b, x)' <=> HasEntry(b, x)
      /\ \A x : NoEntry(x)' <=> NoEntry(x)
      /\ up' = up
  BY DeletionAnswerStep, SameEntries
<1>2. \A o \in n4 : o.s \in Sessions
  BY MessageTypes
<1>3. m.s \in Sessions /\ ~up[m.s].known /\ smf[m.s].status \in {"releasing", "released"}
  BY <1>1, <1>2 DEF Deleting
<1>4. \A o \in n4 : o.s = m.s => o.kind # "create"
  BY <1>3 DEF Creating
<1>5. Unborn'
  BY <1>1 DEF Unborn, Becomes
<1>6. Creating'
  BY <1>1, <1>2, <1>4 DEF Creating, Becomes
<1>7. Updating' /\ Deleting'
  BY <1>1, <1>2, <1>3 DEF Updating, Deleting, Becomes
<1>8. OwnPdr'
  BY <1>1, <1>2 DEF OwnPdr, Becomes, Alive
<1>9. KnownAlive' /\ Addressed' /\ OwnEntries'
  BY <1>1, <1>3 DEF KnownAlive, Addressed, OwnEntries, Becomes, Alive
<1>10. QED
  BY <1>5, <1>6, <1>7, <1>8, <1>9

\* A request of an update is answered, and no rule was created.
LEMMA LifeOfOtherRules ==
  ASSUME Inv, NEW m \in n4, DropRules(m) \/ UpdateRules(m)
  PROVE  Life'
<1> USE DEF Inv, Life
<1>1. /\ AnswerTo(m) /\ m.dir = "request" /\ m.ies.op \notin {"create", "delete"}
      /\ KnownStays /\ NothingEnters /\ smf' = smf
  BY DropRulesStep, UpdateRulesStep
<1>2. PICK r \in Responses : r.kind = m.kind /\ r.s = m.s /\ n4' = (n4 \ {m}) \cup {r}
  BY <1>1 DEF AnswerTo
<1>3. r.dir = "response" /\ \A o \in n4 : o.s \in Sessions /\ o.kind \in Kinds
  BY MessageTypes DEF Responses
<1>4. m.kind # "create" /\ m.kind # "delete"
  BY <1>1 DEF Creating, Deleting
<1>5. \A x \in Sessions : NoEntry(x) => NoEntry(x)'
  BY <1>1 DEF NothingEnters, NoEntry
<1>6. Unborn'
  BY <1>1, <1>2, <1>5 DEF Unborn, KnownStays
<1>7. Creating'
  BY <1>1, <1>2, <1>3, <1>4, <1>5 DEF Creating, KnownStays
<1>8. Updating' /\ Deleting'
  BY <1>1, <1>2, <1>3, <1>4 DEF Updating, Deleting, KnownStays
<1>9. OwnPdr'
  BY <1>1, <1>2, <1>3 DEF OwnPdr
<1>10. KnownAlive' /\ Addressed' /\ OwnEntries'
  BY <1>1 DEF KnownAlive, Addressed, OwnEntries, KnownStays, NothingEnters
<1>11. QED
  BY <1>6, <1>7, <1>8, <1>9, <1>10

\* A new downlink rule is at the address of its session, which the UPF may know since
\* this very request.
LEMMA LifeOfRules ==
  ASSUME Inv, NEW m \in n4, CreateRules(m)
  PROVE  Life'
<1> USE DEF Inv, Life
<1>1. /\ AnswerTo(m) /\ m.dir = "request" /\ m.ies.op = "create"
      /\ m.kind = "create" \/ up[m.s].known
      /\ \A s \in Sessions : up'[s].known = (s = m.s \/ up[s].known)
      /\ \A a \in Addresses, s \in Sessions : HasEntry(a, s)' =>
           \/ HasEntry(a, s)
           \/ m.ies.pdr.iface = "core" /\ a = m.ies.pdr.key /\ s = m.ies.pdr.seid
      /\ smf' = smf
  BY CreateRulesStep
<1>2. PICK r \in Responses : r.kind = m.kind /\ r.s = m.s /\ n4' = (n4 \ {m}) \cup {r}
  BY <1>1 DEF AnswerTo
<1>3. r.dir = "response" /\ m.s \in Sessions /\ \A o \in n4 : o.s \in Sessions /\ o.kind \in Kinds
  BY MessageTypes DEF Responses
<1>4. m.ies.pdr.seid = m.s /\ m.kind # "delete"
  BY <1>1 DEF OwnPdr, Deleting
<1>5. smf[m.s].status \in Alive
  <2>1. CASE m.kind = "create"
    BY <2>1 DEF Creating, Alive
  <2>2. CASE up[m.s].known
    BY <1>3, <2>2 DEF KnownAlive
  <2>3. QED
    BY <1>1, <2>1, <2>2
<1>6. m.ies.pdr.iface = "core" => m.ies.pdr.key = smf[m.s].address
  BY <1>1, <1>5 DEF OwnPdr
<1>7. \A s \in Sessions : s # m.s => /\ up'[s].known => up[s].known
                                     /\ NoEntry(s) => NoEntry(s)'
                                     /\ \A a \in Addresses : HasEntry(a, s)' => HasEntry(a, s)
  BY <1>1, <1>4 DEF NoEntry
<1>8. \A o \in n4 : o.s = m.s /\ o.kind = "create" => o = m \/ o.dir # "request"
  <2> SUFFICES ASSUME NEW o \in n4, o.s = m.s, o.kind = "create", o.dir = "request"
               PROVE  o = m
    OBVIOUS
  <2>1. ~up[m.s].known
    BY DEF Creating
  <2>2. m.kind = "create"
    BY <1>1, <2>1
  <2>3. QED
    BY <2>2 DEF Creating
<1>9. Unborn'
  BY <1>1, <1>2, <1>3, <1>5, <1>7 DEF Unborn, Alive
<1>10. Creating'
  <2>1. ASSUME NEW o \in n4', o.kind = "create"
        PROVE  /\ smf[o.s].status = "creating"
               /\ \A p \in n4' : p.kind = "create" /\ p.s = o.s => p = o
    BY <1>2, <2>1 DEF Creating
  <2>2. ASSUME NEW o \in n4', o.kind = "create", o.dir = "request"
        PROVE  /\ ~up'[o.s].known /\ NoEntry(o.s)'
               /\ o.ies.op = "create" /\ o.ies.pdr.iface = "access"
    <3>1. o \in n4 /\ o # m
      BY <1>2, <1>3, <2>2
    <3>2. o.s # m.s /\ o.s \in Sessions
      BY <1>3, <1>8, <2>2, <3>1
    <3>3. ~up[o.s].known /\ NoEntry(o.s) /\ o.ies.op = "create" /\ o.ies.pdr.iface = "access"
      BY <2>2, <3>1 DEF Creating
    <3>4. QED
      BY <1>7, <3>2, <3>3
  <2>3. QED
    BY <1>1, <2>1, <2>2 DEF Creating
<1>11. Updating'
  BY <1>1, <1>2 DEF Updating
<1>12. Deleting'
  <2>1. ASSUME NEW o \in n4', o.kind = "delete" PROVE o \in n4 /\ o # m
    BY <1>2, <1>4, <2>1
  <2>2. ASSUME NEW o \in n4', o.kind = "delete", o.dir = "response" PROVE ~up'[o.s].known
    <3>1. o \in n4 /\ ~up[o.s].known /\ o.s \in Sessions /\ smf[o.s].status \in {"releasing", "released"}
      BY <1>3, <2>1, <2>2 DEF Deleting
    <3>2. o.s # m.s
      <4>1. CASE m.kind = "create"
        BY <3>1, <4>1 DEF Creating
      <4>2. CASE up[m.s].known
        BY <3>1, <4>2
      <4>3. QED
        BY <1>1, <4>1, <4>2
    <3>3. QED
      BY <1>7, <3>1, <3>2
  <2>3. QED
    BY <1>1, <2>1, <2>2 DEF Deleting
<1>13. OwnPdr'
  BY <1>1, <1>2, <1>3 DEF OwnPdr
<1>14. KnownAlive' /\ Addressed'
  BY <1>1, <1>5 DEF KnownAlive, Addressed
<1>15. OwnEntries'
  <2> SUFFICES ASSUME NEW a \in Addresses, NEW s \in Sessions, up'[s].known, HasEntry(a, s)'
               PROVE  smf[s].address = a
    BY <1>1 DEF OwnEntries
  <2>1. CASE s # m.s
    BY <1>7, <2>1 DEF OwnEntries
  <2>2. CASE s = m.s /\ HasEntry(a, s)
    <3>1. m.kind # "create"
      BY <1>1, <2>2 DEF Creating, NoEntry
    <3>2. QED
      BY <1>1, <2>2, <3>1 DEF OwnEntries
  <2>3. CASE s = m.s /\ ~HasEntry(a, s)
    BY <1>1, <1>6, <2>3
  <2>4. QED
    BY <2>1, <2>2, <2>3
<1>16. QED
  BY <1>9, <1>10, <1>11, <1>12, <1>13, <1>14, <1>15

\* The UPF forgets a session.
LEMMA LifeOfDeletion ==
  ASSUME Inv, NEW m \in n4, DeleteSession(m)
  PROVE  Life'
<1> USE DEF Inv, Life
<1>1. /\ AnswerTo(m) /\ m.dir = "request" /\ m.kind = "delete"
      /\ \A s \in Sessions : up'[s].known = (s # m.s /\ up[s].known)
      /\ NothingEnters /\ smf' = smf
  BY DeleteSessionStep
<1>2. PICK r \in Responses : r.kind = m.kind /\ r.s = m.s /\ n4' = (n4 \ {m}) \cup {r}
  BY <1>1 DEF AnswerTo
<1>3. r.dir = "response" /\ m.s \in Sessions /\ \A o \in n4 : o.s \in Sessions /\ o.kind \in Kinds
  BY MessageTypes DEF Responses
<1>4. \A s \in Sessions : (NoEntry(s) => NoEntry(s)') /\ (up'[s].known => up[s].known)
  BY <1>1 DEF NothingEnters, NoEntry
<1>5. ~up'[m.s].known
  BY <1>1, <1>3
<1>6. Unborn'
  BY <1>1, <1>2, <1>3, <1>4 DEF Unborn
<1>7. Creating'
  BY <1>1, <1>2, <1>3, <1>4 DEF Creating
<1>8. Updating'
  BY <1>1, <1>2, <1>3 DEF Updating, Updates
<1>9. Deleting'
  BY <1>1, <1>2, <1>3, <1>4, <1>5 DEF Deleting
<1>10. OwnPdr'
  BY <1>1, <1>2, <1>3 DEF OwnPdr
<1>11. KnownAlive' /\ Addressed' /\ OwnEntries'
  BY <1>1, <1>4 DEF KnownAlive, Addressed, OwnEntries, NothingEnters
<1>12. QED
  BY <1>6, <1>7, <1>8, <1>9, <1>10, <1>11

-----------------------------------------------------------------------------
(* The theorems.                                                            *)

\* The types after a step, from those of what it changes.
LEMMA TypesKept ==
  ASSUME Inv, UpfTypes', ControlTypes', Messages',
         \A m \in n4' : m.trxn \in 1..trxn \/ m.trxn = trxn',
         trxn' \in {trxn, trxn + 1}
  PROVE  TypeOK'
<1>1. \A m \in n4' : m.trxn \in Transactions
  BY DEF Messages, Requests, Responses
<1>2. trxn \in Id /\ trxn' \in Id
  BY DEF Inv, TypeOK, ControlTypes
<1>3. \A m \in n4' : m.trxn \in 1..trxn'
  BY <1>1, <1>2 DEF Id, None, Transactions
<1>4. \A m \in n4' : m.dir \in {"request", "response"} /\ m.kind \in Kinds /\ m.s \in Sessions
  BY DEF Messages, Requests, Responses
<1>5. QED
  BY <1>3, <1>4
  DEF UpfTypes, ControlTypes, TypeOK, AmfContexts, Tunnels, SmfContexts, Rules, UpfSessions

\* The types of the messages after one was taken.
LEMMA MessagesTaken ==
  ASSUME Inv, n4' \subseteq n4, UNCHANGED <<upf, trxn>>, ControlTypes'
  PROVE  TypeOK' /\ Messages'
<1>1. Messages'
  BY DEF Inv, Messages
<1>2. UpfTypes'
  BY TypesApart DEF Inv, UpfTypes, upf, tables
<1>3. \A m \in n4' : m.trxn \in 1..trxn
  BY TypesApart DEF Inv
<1>4. QED
  BY <1>1, <1>2, <1>3, TypesKept

\* After one was sent.
LEMMA MessagesSent ==
  ASSUME Inv, NEW r \in Requests, r.trxn = trxn', n4' = n4 \cup {r}, trxn' = trxn + 1,
         UNCHANGED upf, ControlTypes'
  PROVE  TypeOK' /\ Messages'
<1>1. Messages'
  BY DEF Inv, Messages
<1>2. UpfTypes'
  BY TypesApart DEF Inv, UpfTypes, upf, tables
<1>3. \A m \in n4' : m.trxn \in 1..trxn \/ m.trxn = trxn'
  BY TypesApart DEF Inv
<1>4. QED
  BY <1>1, <1>2, <1>3, TypesKept

\* After one was answered.
LEMMA MessagesAnswered ==
  ASSUME Inv, NEW m \in n4, AnswerTo(m), UpfTypes',
         UNCHANGED <<amf, gnb, smf, trxn, lost, upsets, clean>>
  PROVE  TypeOK' /\ Messages'
<1>1. PICK r \in Responses : r.trxn = m.trxn /\ n4' = (n4 \ {m}) \cup {r}
  BY DEF AnswerTo
<1>2. Messages'
  BY <1>1 DEF Inv, Messages
<1>3. \A o \in n4' : o.trxn \in 1..trxn
  BY <1>1, TypesApart DEF Inv
<1>4. ControlTypes'
  BY TypesApart DEF Inv, ControlTypes
<1>5. QED
  BY <1>2, <1>3, <1>4, TypesKept

\* At first nothing is known of any session.
LEMMA InitInv == Init => Inv
<1> SUFFICES ASSUME Init PROVE Inv
  OBVIOUS
<1>1. Messages /\ Creating /\ Updating /\ Deleting /\ OwnPdr
  BY DEF Init, Messages, Creating, Updating, Deleting, OwnPdr
<1>2. \A s \in Sessions : ~up[s].known /\ NoEntry(s) /\ smf[s].status = "none"
  BY DEF Init, NoEntry, HasEntry, NoSession
<1>3. Unborn /\ KnownAlive /\ Addressed /\ OwnEntries
  BY <1>2 DEF Unborn, KnownAlive, Addressed, OwnEntries, NoEntry, Alive, Init
<1>4. ControlTypes
  <2>1. NoRules \in Rules /\ NoTunnel \in Tunnels /\ None \in Id /\ 0 \in Id
    BY DEF NoRules, Rules, NoTunnel, Tunnels, Id, None
  <2>2. QED
    BY <2>1 DEF Init, ControlTypes, AmfContexts, SmfContexts
<1>5. UpfTypes
  BY DEF Init, UpfTypes, NoSession, UpfSessions
<1>6. QED
  BY <1>1, <1>3, <1>4, <1>5, TypesTogether DEF Inv, Life, Init

\* Every step keeps it.
LEMMA NextInv == Inv /\ [Next]_vars => Inv'
<1> SUFFICES ASSUME Inv, [Next]_vars PROVE TypeOK' /\ Messages' /\ Life'
  BY DEF Inv
<1> USE DEF Inv
<1>1. ASSUME NEW m \in n4, CreateRules(m) PROVE TypeOK' /\ Messages' /\ Life'
  BY <1>1, CreateRulesStep, MessagesAnswered, LifeOfRules
<1>2. ASSUME NEW m \in n4, DropRules(m) PROVE TypeOK' /\ Messages' /\ Life'
  BY <1>2, DropRulesStep, MessagesAnswered, LifeOfOtherRules
<1>3. ASSUME NEW m \in n4, UpdateRules(m) PROVE TypeOK' /\ Messages' /\ Life'
  BY <1>3, UpdateRulesStep, MessagesAnswered, LifeOfOtherRules
<1>4. ASSUME NEW m \in n4, DeleteSession(m) PROVE TypeOK' /\ Messages' /\ Life'
  BY <1>4, DeleteSessionStep, MessagesAnswered, LifeOfDeletion
<1>5. ASSUME NEW m \in n4, ContextNotFound(m) PROVE TypeOK' /\ Messages' /\ Life'
  <2>1. n4' \subseteq n4 /\ UNCHANGED <<amf, gnb, smf, upf, trxn, lost, upsets, clean>>
    BY <1>5 DEF ContextNotFound
  <2>2. ControlTypes' /\ StatusStays
    BY <2>1, TypesApart DEF ControlTypes, StatusStays
  <2>3. QED
    BY <2>1, <2>2, MessagesTaken, LifeOfTaken
<1>6. ASSUME NEW m \in n4, CreationAnswer(m) PROVE TypeOK' /\ Messages' /\ Life'
  <2>1. n4' \subseteq n4 /\ UNCHANGED <<upf, trxn>> /\ ControlTypes'
    BY <1>6, CreationAnswerStep
  <2>2. QED
    BY <1>6, <2>1, MessagesTaken, LifeOfCreationAnswer
<1>7. ASSUME NEW m \in n4, UpdateAnswer(m) \/ Lose(m) PROVE TypeOK' /\ Messages' /\ Life'
  <2>1. n4' \subseteq n4 /\ UNCHANGED <<upf, trxn>> /\ ControlTypes' /\ StatusStays
    BY <1>7, UpdateAnswerStep, LoseStep
  <2>2. QED
    BY <2>1, MessagesTaken, LifeOfTaken
<1>8. ASSUME NEW m \in n4, DeletionAnswer(m) PROVE TypeOK' /\ Messages' /\ Life'
  <2>1. n4' \subseteq n4 /\ UNCHANGED <<upf, trxn>> /\ ControlTypes'
    BY <1>8, DeletionAnswerStep
  <2>2. QED
    BY <1>8, <2>1, MessagesTaken, LifeOfDeletionAnswer
<1>9. ASSUME NEW s \in Sessions, CreateSmContext(s) PROVE TypeOK' /\ Messages' /\ Life'
  BY <1>9, CreateSmContextStep, MessagesSent, LifeOfCreation
<1>10. ASSUME NEW s \in Sessions, Modifies(s) PROVE TypeOK' /\ Messages' /\ Life'
  <2>1. TypeOK' /\ Messages'
    BY <1>10, MessagesSent DEF Modifies
  <2>2. QED
    BY <1>10, <2>1, LifeOfUpdate
<1>11. ASSUME NEW s \in Sessions, \/ ResourceSetupResponse(s) \/ PathSwitchRequest(s)
                                  \/ ReleaseAn(s) \/ ActivateUserPlane(s)
       PROVE  Modifies(s)
  <2>1. Addressed
    BY DEF Life
  <2>2. CASE ResourceSetupResponse(s)
    <3>1. PICK kind \in Updates : Ready(s) /\ ForwardDownlink(s, kind)
      BY <2>2 DEF ResourceSetupResponse, Updates
    <3>2. QED
      BY <2>1, <3>1, ForwardDownlinkStep
  <2>3. CASE PathSwitchRequest(s)
    <3>1. PICK kind \in Updates : Ready(s) /\ ForwardDownlink(s, kind)
      BY <2>3 DEF PathSwitchRequest, Updates
    <3>2. QED
      BY <2>1, <3>1, ForwardDownlinkStep
  <2>4. QED
    BY <1>11, <2>2, <2>3, ReleaseAnStep, ActivateUserPlaneStep
<1>12. ASSUME NEW s \in Sessions, LoseAn(s) \/ ServiceRequest(s) \/ GiveUp(s)
       PROVE  TypeOK' /\ Messages' /\ Life'
  <2>1. n4' \subseteq n4 /\ UNCHANGED <<upf, trxn>> /\ ControlTypes' /\ StatusStays
    BY <1>12, AccessStep
  <2>2. QED
    BY <2>1, MessagesTaken, LifeOfTaken
<1>13. ASSUME NEW s \in Sessions, ReleaseSmContext(s) PROVE TypeOK' /\ Messages' /\ Life'
  BY <1>13, ReleaseSmContextStep, MessagesSent, LifeOfRelease
<1>14. CASE UNCHANGED vars
  <2>1. n4' \subseteq n4 /\ UNCHANGED <<amf, gnb, smf, upf, trxn, lost, upsets, clean>>
    BY <1>14 DEF vars
  <2>2. ControlTypes' /\ StatusStays
    BY <2>1, TypesApart DEF ControlTypes, StatusStays
  <2>3. QED
    BY <2>1, <2>2, MessagesTaken, LifeOfTaken
<1>15. QED
  BY <1>1, <1>2, <1>3, <1>4, <1>5, <1>6, <1>7, <1>8, <1>9, <1>10, <1>11, <1>12, <1>13, <1>14
  DEF Next, Receive

\* The contexts, rules, tables and messages are what they are meant to be.
THEOREM TypeCorrect == Spec => []TypeOK
<1>1. Inv => TypeOK
  BY DEF Inv
<1>2. QED
  BY <1>1, InitInv, NextInv, PTL DEF Spec

\* What the UPF forwards to an address goes by the rules of the session that has the
\* address, however addresses are reused and whichever PDRs stay in the table.
THEOREM NothingGoesToAnother == Spec => []NoForeignDelivery
<1>1. Inv => NoForeignDelivery
  <2> SUFFICES ASSUME Inv, NEW a \in Addresses, Downlink(a) # Nowhere
               PROVE  smf[ue_ipv4_hbo2pfcp_pdr[a][1].seid].address = a
    BY DEF NoForeignDelivery
  <2>1. PICK list : list = ue_ipv4_hbo2pfcp_pdr[a]
    OBVIOUS
  <2>2. list # <<>> /\ up[list[1].seid].known
    BY <2>1 DEF Downlink, LookUp
  <2>3. list \in Seq(Pdrs)
    BY <2>1 DEF Inv, TypeOK
  <2>4. 1 \in DOMAIN list /\ list[1] \in Pdrs
    BY <2>2, <2>3
  <2>5. list[1].seid \in Sessions /\ HasEntry(a, list[1].seid)
    BY <2>1, <2>4 DEF Pdrs, HasEntry
  <2>6. QED
    BY <2>1, <2>2, <2>5 DEF Inv, Life, OwnEntries
<1>2. QED
  BY <1>1, InitInv, NextInv, PTL DEF Spec

-----------------------------------------------------------------------------
(* Which session has what of the UPF.                                       *)

\* What the UPF does not know it has forgotten.
UnknownIsEmpty == \A s \in Sessions : ~up[s].known => up[s] = NoSession

\* A session's PDRs are its own, the downlink ones at its address.
OwnKeys == \A s \in Sessions : up[s].known => \A i \in DOMAIN up[s].pdrs :
    /\ up[s].pdrs[i].seid = s
    /\ up[s].pdrs[i].iface = "core" => up[s].pdrs[i].key = smf[s].address

AddressesApart == \A s, r \in Sessions :
    smf[s].address = smf[r].address /\ smf[s].address # NoAddress => s = r

\* The UPF's table has a PDR of s for packets from the tunnel t.
HasUplink(t, s) == \E k \in DOMAIN ul_n3_teid2pfcp_pdr[t] : ul_n3_teid2pfcp_pdr[t][k].seid = s

\* A message is or names t.
Names(m, t) ==
    \/ m.trxn = t
    \/ m.dir = "response" /\ m.teid = t
    \/ m.dir = "request" /\ m.ies.op = "create" /\ m.ies.pdr.iface = "access" /\ m.ies.pdr.key = t

\* Wherever a session may take the UL TEID t from.
Holds(s, t) ==
    \/ HasUplink(t, s)
    \/ smf[s].rules.ul_fteid = t
    \/ \E i \in DOMAIN up[s].pdrs : up[s].pdrs[i].iface = "access" /\ up[s].pdrs[i].key = t
    \/ \E m \in n4 : m.s = s /\ Names(m, t)

\* No UL TEID is of two sessions, and none is of a later transaction.
TeidsApart == \A t \in Transactions :
    /\ \A s, r \in Sessions : Holds(s, t) /\ Holds(r, t) => s = r
    /\ \A s \in Sessions : Holds(s, t) => t <= trxn

Apart == UnknownIsEmpty /\ OwnKeys /\ AddressesApart /\ TeidsApart

-----------------------------------------------------------------------------
(* What the UPF has of a session of which nothing went wrong.               *)

NoMessage(s) == \A m \in n4 : m.s # s
OnlyMessage(s, m) == m.s = s /\ \A o \in n4 : o.s = s => o = m

Downlinks(s) == ue_ipv4_hbo2pfcp_pdr[smf[s].address]

\* The precedences of its downlink PDRs.
Within(s) == Alone(s) => \A k \in DOMAIN Downlinks(s) : Downlinks(s)[k].prec <= smf[s].precedence
Below(s) == Alone(s) => \A k \in DOMAIN Downlinks(s) : Downlinks(s)[k].prec < smf[s].precedence

Empty(s) == up[s].known /\ up[s].pdrs = <<>> /\ up[s].fars = <<>>

\* The uplink rule with the ids r comes first, and is all there is at its TEID.
Uplinked(s, r, t) ==
    /\ up[s].known /\ t \in Transactions
    /\ \E prec \in Nat : up[s].pdrs[1] = Pdr(s, r.pdr_ul, prec, r.far_ul, "access", t)
    /\ up[s].fars[1] = [id |-> r.far_ul, to |-> Core]
    /\ ul_n3_teid2pfcp_pdr[t] = <<up[s].pdrs[1]>>

OnlyUplink(s) == Len(up[s].pdrs) = 1 /\ Len(up[s].fars) = 1

\* The downlink rule with the ids r is the second, and decides at its address.
Downlinked(s, r) ==
    /\ Len(up[s].pdrs) = 2 /\ Len(up[s].fars) = 2
    /\ \E prec \in Nat : up[s].pdrs[2] = Pdr(s, r.pdr_dl, prec, r.far_dl, "core", smf[s].address)
    /\ up[s].fars[2].id = r.far_dl
    /\ Alone(s) => Downlinks(s) # <<>> /\ Downlinks(s)[1] = up[s].pdrs[2]

\* Which ids the SMF has given out.
UplinkIds(r) == r.far_ul # None /\ r.pdr_ul # None /\ r.far_dl = None /\ r.pdr_dl = None
BothIds(r) == /\ None \notin {r.far_ul, r.pdr_ul, r.far_dl, r.pdr_dl}
              /\ r.far_ul # r.far_dl /\ r.pdr_ul # r.pdr_dl

-----------------------------------------------------------------------------
(* What is on its way.                                                      *)

NewUplink(s, m) ==
    LET r == smf[s].rules
    IN  /\ m.ies.op = "create" /\ m.ies.far = [id |-> r.far_ul, to |-> Core]
        /\ \E prec \in Nat : m.ies.pdr = Pdr(s, r.pdr_ul, prec, r.far_ul, "access", None)
        /\ ul_n3_teid2pfcp_pdr[m.trxn] = <<>>

NewDownlink(s, m) ==
    LET r == smf[s].rules
    IN  /\ m.ies.op = "create" /\ m.ies.far = [id |-> r.far_dl, to |-> gnb[s].dl]
        /\ m.ies.pdr = Pdr(s, r.pdr_dl, smf[s].precedence, r.far_dl, "core", smf[s].address)

NewTunnel(s, m) ==
    LET r == smf[s].rules
    IN  /\ m.ies.op = "update" /\ m.ies.far = [id |-> r.far_dl, to |-> gnb[s].dl]
        /\ m.ies.pdr = r.pdr_dl /\ m.ies.prec = smf[s].precedence

\* A removal of just what there is.
NoRulesAnyMore(s, m) ==
    \E r \in Rules :
       /\ m.ies.op = "remove" /\ BothIds(r)
       /\ m.ies.pdrs = <<r.pdr_dl, r.pdr_ul>> /\ m.ies.fars = <<r.far_dl, r.far_ul>>
       /\ Len(up[s].pdrs) = 2 /\ Len(up[s].fars) = 2 /\ up[s].known
       /\ up[s].pdrs[1].id = r.pdr_ul /\ up[s].pdrs[2].id = r.pdr_dl
       /\ up[s].fars[1].id = r.far_ul /\ up[s].fars[2].id = r.far_dl

-----------------------------------------------------------------------------
(* The course of such a session.                                            *)

Unknowing(s) == /\ amf[s].cnx = "DEACTIVATED" /\ amf[s].awaits = "nothing" /\ gnb[s] = NoTunnel
                /\ smf[s].rules.ul_fteid = None
Waiting(s, m) == /\ smf[s].status = "up" /\ OnlyMessage(s, m)
                 /\ m.kind = amf[s].awaits /\ m.trxn = amf[s].trxn

NotYet(s) == smf[s].status = "none" /\ Unknowing(s) /\ smf[s].rules = NoRules

BeingCreated(s, m) ==
    /\ smf[s].status = "creating" /\ Unknowing(s) /\ UplinkIds(smf[s].rules) /\ Below(s)
    /\ OnlyMessage(s, m) /\ m.kind = "create"
    /\ m.dir = "request" => ~up[s].known /\ NewUplink(s, m)
    /\ m.dir = "response" => m.ok /\ Uplinked(s, smf[s].rules, m.teid) /\ OnlyUplink(s)

Asked(s) ==
    /\ Ready(s) /\ NoMessage(s) /\ gnb[s].asked /\ gnb[s].dl = None
    /\ UplinkIds(smf[s].rules) /\ Below(s)
    /\ Uplinked(s, smf[s].rules, gnb[s].ul) /\ OnlyUplink(s)

BeingForwarded(s, m) ==
    /\ Waiting(s, m) /\ m.kind \in {"establishment", "step 2", "path switch"}
    /\ ~gnb[s].asked /\ gnb[s].dl # None
    /\ BothIds(smf[s].rules) /\ Within(s) /\ Uplinked(s, smf[s].rules, gnb[s].ul)
    /\ m.kind = "path switch" => amf[s].cnx = "ACTIVATED"
    /\ m.dir = "request" => \/ NewDownlink(s, m) /\ OnlyUplink(s) /\ Below(s)
                            \/ NewTunnel(s, m) /\ Downlinked(s, smf[s].rules)
    /\ m.dir = "response" => /\ m.ok /\ Downlinked(s, smf[s].rules)
                             /\ up[s].fars[2].to = gnb[s].dl

Connected(s) ==
    /\ Ready(s) /\ NoMessage(s) /\ amf[s].cnx = "ACTIVATED" /\ ~gnb[s].asked /\ gnb[s].dl # None
    /\ BothIds(smf[s].rules) /\ Within(s) /\ Uplinked(s, smf[s].rules, gnb[s].ul)
    /\ Downlinked(s, smf[s].rules) /\ up[s].fars[2].to = gnb[s].dl

BeingReleased(s, m) ==
    /\ Waiting(s, m) /\ m.kind = "AN release"
    /\ gnb[s] = NoTunnel /\ smf[s].rules = NoRules /\ Within(s)
    /\ m.dir = "request" => NoRulesAnyMore(s, m)
    /\ m.dir = "response" => m.ok /\ Empty(s)

Idle(s) ==
    /\ Ready(s) /\ NoMessage(s) /\ amf[s].cnx = "DEACTIVATED" /\ gnb[s] = NoTunnel
    /\ smf[s].rules = NoRules /\ Within(s) /\ Empty(s)

BeingActivated(s, m) ==
    /\ Waiting(s, m) /\ m.kind = "step 1"
    /\ gnb[s] = NoTunnel /\ UplinkIds(smf[s].rules) /\ Below(s)
    /\ m.dir = "request" => Empty(s) /\ NewUplink(s, m)
    /\ m.dir = "response" => m.ok /\ Uplinked(s, smf[s].rules, m.teid) /\ OnlyUplink(s)

Ends(s) == smf[s].status \in {"releasing", "released"}

Phase(s) == \/ NotYet(s) \/ Asked(s) \/ Connected(s) \/ Idle(s) \/ Ends(s)
            \/ \E m \in n4 : \/ BeingCreated(s, m) \/ BeingForwarded(s, m)
                             \/ BeingReleased(s, m) \/ BeingActivated(s, m)

Course == \A s \in clean : Phase(s)

-----------------------------------------------------------------------------
(* What is found, inserted and removed, exactly.                            *)

\* The first rule with an id is found.
LEMMA FindFirst ==
  ASSUME NEW S, NEW rules \in Seq(S), NEW i \in DOMAIN rules,
         \A j \in DOMAIN rules : j < i => rules[j].id # rules[i].id
  PROVE  Find(rules, rules[i].id) = i
<1> DEFINE I == {j \in 1..Len(rules) : rules[j].id = rules[i].id}
<1>1. Find(rules, rules[i].id) = IF I # {} THEN Min(I) ELSE 0
  BY DEF Find, SelectInSeq
<1>2. i \in I /\ \A j \in I : i <= j
  OBVIOUS
<1>3. Min(I) \in I /\ \A j \in I : Min(I) <= j
  <2>1. \E m \in I : \A j \in I : m <= j
    BY <1>2
  <2>2. QED
    BY <2>1 DEF Min
<1>4. QED
  BY <1>1, <1>2, <1>3

\* Where no rule has the id, none is found.
LEMMA FindNone ==
  ASSUME NEW S, NEW rules \in Seq(S), NEW id, \A j \in DOMAIN rules : rules[j].id # id
  PROVE  Find(rules, id) = 0
BY DEF Find, SelectInSeq

\* Of two rules with different ids each is found at its place.
LEMMA FindOfTwo ==
  ASSUME NEW S, NEW rules \in Seq(S), Len(rules) = 2, rules[1].id # rules[2].id
  PROVE  Find(rules, rules[1].id) = 1 /\ Find(rules, rules[2].id) = 2
<1>1. DOMAIN rules = {1, 2}
  OBVIOUS
<1>2. QED
  BY <1>1, FindFirst

\* Of one rule removed nothing is left, and of two the other.
LEMMA RemoveAtOfTwo ==
  ASSUME NEW S, NEW rules \in Seq(S)
  PROVE  /\ Len(rules) = 1 => RemoveAt(rules, 1) = <<>>
         /\ Len(rules) = 2 => RemoveAt(rules, 2) = <<rules[1]>>
<1>1. CASE Len(rules) = 1
  <2>1. RemoveAt(rules, 1) = SubSeq(rules, 1, 0) \o SubSeq(rules, 2, 1)
    BY <1>1 DEF RemoveAt
  <2>2. SubSeq(rules, 1, 0) = <<>> /\ SubSeq(rules, 2, 1) = <<>>
    BY <1>1
  <2>3. <<>> \o <<>> = <<>>
    OBVIOUS
  <2>4. QED
    BY <1>1, <2>1, <2>2, <2>3
<1>2. CASE Len(rules) = 2
  <2>1. RemoveAt(rules, 2) = SubSeq(rules, 1, 1) \o SubSeq(rules, 3, 2)
    BY <1>2 DEF RemoveAt
  <2>2. SubSeq(rules, 3, 2) = <<>>
    BY <1>2
  <2>5. SubSeq(rules, 1, 1) = <<rules[1]>>
    <3>1. \A k \in 1..1 : rules[k] \in S
      BY <1>2
    <3>2. /\ SubSeq(rules, 1, 1) \in Seq(S) /\ Len(SubSeq(rules, 1, 1)) = 1
          /\ SubSeq(rules, 1, 1)[1] = rules[1]
      BY <3>1, SubSeqProperties
    <3>3. PICK q : q = SubSeq(rules, 1, 1)
      OBVIOUS
    <3>4. q \in Seq(S) /\ Len(q) = 1 /\ q[1] = rules[1]
      BY <3>2, <3>3
    <3>5. q = <<rules[1]>>
      BY <3>4
    <3>6. QED
      BY <3>3, <3>5
  <2>3. <<rules[1]>> \o <<>> = <<rules[1]>>
    BY <1>2
  <2>4. QED
    BY <1>2, <2>1, <2>2, <2>3, <2>5
<1>3. QED
  BY <1>1, <1>2

\* Two rules removed by their ids, the second one first, are gone.
LEMMA RemoveRulesOfTwo ==
  ASSUME NEW S, NEW rules \in Seq(S), Len(rules) = 2, rules[1].id # rules[2].id,
         None \notin {rules[1].id, rules[2].id}, NEW ids, ids = <<rules[2].id, rules[1].id>>
  PROVE  RemoveRules(rules, ids).rules = <<>> /\ RemoveRules(rules, ids).ok = TRUE
<1>1. PICK one : one = <<rules[1]>>
  OBVIOUS
<1>2. one \in Seq(S) /\ Len(one) = 1 /\ one[1] = rules[1] /\ DOMAIN one = {1}
  BY <1>1
<1>3. PICK acc : acc = [rules |-> rules, ok |-> TRUE]
  OBVIOUS
<1>4. PICK acc1 : acc1 = [acc EXCEPT !.rules = one]
  OBVIOUS
<1>5. PICK acc2 : acc2 = [acc1 EXCEPT !.rules = <<>>]
  OBVIOUS
<1>6. acc.ok /\ acc.rules = rules /\ acc1.ok /\ acc1.rules = one /\ acc2.ok = TRUE /\ acc2.rules = <<>>
  BY <1>3, <1>4, <1>5
<1>7. RemoveRule(acc, rules[2].id) = acc1
  <2>1. Find(rules, rules[2].id) = 2
    BY FindOfTwo
  <2>2. RemoveAt(rules, 2) = one
    BY <1>1, RemoveAtOfTwo
  <2>3. ~(rules[2].id = None \/ ~acc.ok) /\ Find(acc.rules, rules[2].id) # 0
    BY <1>6, <2>1
  <2>4. RemoveRule(acc, rules[2].id) = [acc EXCEPT !.rules = RemoveAt(acc.rules, Find(acc.rules, rules[2].id))]
    BY <2>3 DEF RemoveRule
  <2>5. QED
    BY <1>4, <1>6, <2>1, <2>2, <2>4
<1>8. RemoveRule(acc1, rules[1].id) = acc2
  <2>1. Find(one, one[1].id) = 1
    BY <1>2, FindFirst
  <2>2. RemoveAt(one, 1) = <<>>
    BY <1>2, RemoveAtOfTwo
  <2>3. QED
    BY <1>2, <1>5, <1>6, <2>1, <2>2 DEF RemoveRule
<1>9. RemoveRules(rules, ids) = acc2
  BY <1>3, <1>7, <1>8 DEF RemoveRules
<1>10. QED
  BY <1>6, <1>9

\* An insertion loses nothing that is in the list.
LEMMA InsertPdrHas ==
  ASSUME NEW list \in Seq(Pdrs), NEW pdr \in Pdrs, NEW j \in DOMAIN list
  PROVE  \E k \in DOMAIN InsertPdr(list, pdr) : InsertPdr(list, pdr)[k] = list[j]
<1> DEFINE I == {k \in 1..Len(list) : list[k].prec < pdr.prec}
<1>1. PICK i : i = IF I # {} THEN Min(I) ELSE 0
  OBVIOUS
<1>2. InsertPdr(list, pdr) =
        IF list = <<>> THEN <<pdr>> ELSE IF i = 0 THEN list ELSE InsertAt(list, i, pdr)
  BY <1>1 DEF InsertPdr, SelectInSeq
<1>3. CASE i = 0
  BY <1>2, <1>3
<1>4. CASE i # 0
  <2>1. i \in 1..Len(list)
    <3>1. I # {} /\ I \in SUBSET Nat
      BY <1>1, <1>4
    <3>2. \E k \in I : \A l \in I : k <= l
      BY <3>1, LeastExists
    <3>3. QED
      BY <1>1, <3>1, <3>2 DEF Min
  <2>2. PICK before, after : before = SubSeq(list, 1, i - 1) /\ after = SubSeq(list, i, Len(list))
    OBVIOUS
  <2>3. /\ before \in Seq(Pdrs) /\ Len(before) = i - 1 /\ \A k \in 1..(i - 1) : before[k] = list[k]
        /\ after \in Seq(Pdrs) /\ Len(after) = Len(list) - i + 1
        /\ \A k \in 1..(Len(list) - i + 1) : after[k] = list[i + k - 1]
    BY <2>1, <2>2
  <2>4. InsertPdr(list, pdr) = (before \o <<pdr>>) \o after
    <3>1. InsertPdr(list, pdr) = InsertAt(list, i, pdr)
      BY <1>2, <1>4, <2>1
    <3>2. InsertAt(list, i, pdr) = SubSeq(list, 1, i - 1) \o <<pdr>> \o SubSeq(list, i, Len(list))
      BY DEF InsertAt
    <3>3. QED
      BY <2>2, <3>1, <3>2
  <2>5. PICK front : front = before \o <<pdr>>
    OBVIOUS
  <2>6. front \in Seq(Pdrs) /\ Len(front) = i /\ \A k \in 1..(i - 1) : front[k] = list[k]
    BY <2>1, <2>3, <2>5
  <2>7. InsertPdr(list, pdr) = front \o after
    BY <2>4, <2>5
  <2>8. CASE j < i
    <3>1. j \in DOMAIN front /\ (front \o after)[j] = front[j] /\ j \in DOMAIN (front \o after)
      BY <2>1, <2>3, <2>6, <2>8
    <3>2. QED
      BY <2>1, <2>6, <2>7, <2>8, <3>1
  <2>9. CASE j >= i
    <3>1. j + 1 \in DOMAIN (front \o after) /\ (front \o after)[j + 1] = after[j + 1 - i]
      BY <2>1, <2>3, <2>6, <2>9
    <3>2. j + 1 - i \in 1..(Len(list) - i + 1) /\ i + (j + 1 - i) - 1 = j
      BY <2>1, <2>9
    <3>3. QED
      BY <2>3, <2>7, <3>1, <3>2
  <2>10. QED
    BY <2>1, <2>8, <2>9
<1>5. QED
  BY <1>3, <1>4

\* What is preferred to all of a list comes first, and is all there is in an empty one.
LEMMA InsertPdrFirst ==
  ASSUME NEW list \in Seq(Pdrs), NEW pdr \in Pdrs, \A k \in DOMAIN list : list[k].prec < pdr.prec
  PROVE  /\ InsertPdr(list, pdr) # <<>> /\ InsertPdr(list, pdr)[1] = pdr
         /\ list = <<>> => InsertPdr(list, pdr) = <<pdr>>
<1> DEFINE I == {k \in 1..Len(list) : list[k].prec < pdr.prec}
<1>1. InsertPdr(list, pdr) =
        IF list = <<>> THEN <<pdr>>
        ELSE IF (IF I # {} THEN Min(I) ELSE 0) = 0 THEN list
        ELSE InsertAt(list, IF I # {} THEN Min(I) ELSE 0, pdr)
  BY DEF InsertPdr, SelectInSeq
<1>2. CASE list = <<>>
  BY <1>1, <1>2
<1>3. CASE list # <<>>
  <2>1. 1 \in I /\ \A j \in I : 1 <= j
    BY <1>3
  <2>2. Min(I) = 1
    <3>1. \E k \in I : \A j \in I : k <= j
      BY <2>1
    <3>2. Min(I) \in I /\ \A j \in I : Min(I) <= j
      BY <3>1 DEF Min
    <3>3. QED
      BY <2>1, <3>2
  <2>3. InsertPdr(list, pdr) = (SubSeq(list, 1, 0) \o <<pdr>>) \o SubSeq(list, 1, Len(list))
    <3>1. InsertPdr(list, pdr) = InsertAt(list, 1, pdr)
      BY <1>1, <1>3, <2>1, <2>2
    <3>2. InsertAt(list, 1, pdr) = SubSeq(list, 1, 1 - 1) \o <<pdr>> \o SubSeq(list, 1, Len(list))
      BY DEF InsertAt
    <3>3. 1 - 1 = 0
      OBVIOUS
    <3>4. QED
      BY <3>1, <3>2, <3>3
  <2>4. SubSeq(list, 1, 0) = <<>> /\ SubSeq(list, 1, Len(list)) = list
    OBVIOUS
  <2>5. InsertPdr(list, pdr) = <<pdr>> \o list
    BY <2>3, <2>4
  <2>6. QED
    BY <1>3, <2>5
<1>4. QED
  BY <1>2, <1>3

\* What is appended comes after what was there.
LEMMA AppendHas ==
  ASSUME NEW S, NEW rules \in Seq(S), NEW e \in S, NEW i \in DOMAIN Append(rules, e)
  PROVE  Append(rules, e)[i] = e \/ (i \in DOMAIN rules /\ Append(rules, e)[i] = rules[i])
<1>1. /\ Append(rules, e) \in Seq(S) /\ Len(Append(rules, e)) = Len(rules) + 1
      /\ \A j \in 1..Len(rules) : Append(rules, e)[j] = rules[j]
      /\ Append(rules, e)[Len(rules) + 1] = e
  BY AppendProperties
<1>2. i \in 1..(Len(rules) + 1) /\ Len(rules) \in Nat /\ DOMAIN rules = 1..Len(rules)
  BY <1>1
<1>3. PICK q, n : q = Append(rules, e) /\ n = Len(rules) + 1
  OBVIOUS
<1>4. q[n] = e
  BY <1>1, <1>3
<1>5. CASE i = n
  <2>1. q[i] = e
    BY ONLY <1>4, <1>5
  <2>2. QED
    BY <1>3, <2>1
<1>6. CASE i # n
  <2>1. i \in 1..Len(rules)
    BY <1>2, <1>3, <1>6
  <2>2. QED
    BY <1>1, <1>2, <2>1
<1>7. QED
  BY <1>5, <1>6

\* What the UPF has of a session is of the type it should be.
LEMMA UpfSessionTypes ==
  ASSUME TypeOK, NEW s \in Sessions
  PROVE  up[s] \in UpfSessions /\ up[s].known \in BOOLEAN /\ up[s].pdrs \in Seq(Pdrs) /\ up[s].fars \in Seq(Fars)
BY TypesApart DEF UpfTypes, UpfSessions

\* What is appended to one rule is the second.
LEMMA AppendToOne ==
  ASSUME NEW S, NEW rules \in Seq(S), NEW e \in S
  PROVE  Len(rules) = 1 => /\ Len(Append(rules, e)) = 2
                           /\ Append(rules, e)[1] = rules[1] /\ Append(rules, e)[2] = e
<1>1. /\ Len(Append(rules, e)) = Len(rules) + 1
      /\ \A j \in 1..Len(rules) : Append(rules, e)[j] = rules[j]
      /\ Append(rules, e)[Len(rules) + 1] = e
  BY AppendProperties
<1>2. Len(rules) = 1 => Len(rules) + 1 = 2 /\ 1 \in 1..Len(rules)
  OBVIOUS
<1>3. QED
  BY ONLY <1>1, <1>2, Zenon

-----------------------------------------------------------------------------
(* A step that is not of a session.                                         *)

\* What of the session s may change only with it.
Untouched(s) ==
    /\ amf'[s] = amf[s] /\ gnb'[s] = gnb[s] /\ smf'[s] = smf[s] /\ up'[s] = up[s]
    /\ \A m \in n4 : m.s = s => m \in n4'
    /\ \A m \in n4' : m.s = s => m \in n4
    /\ s \in clean' => s \in clean

\* The tables are for the session what they were.
TablesStay(s) ==
    /\ \A t \in Transactions : Holds(s, t) => ul_n3_teid2pfcp_pdr'[t] = ul_n3_teid2pfcp_pdr[t]
    /\ smf[s].status \in Alive =>
         /\ Alone(s) => ue_ipv4_hbo2pfcp_pdr'[smf[s].address] = ue_ipv4_hbo2pfcp_pdr[smf[s].address]
         /\ Alone(s)' => Alone(s)

Elsewhere(s) == Untouched(s) /\ TablesStay(s)

\* What the UPF has of a session it has still after a step elsewhere.
LEMMA UpfElsewhere ==
  ASSUME Inv, NEW s \in Sessions, Elsewhere(s), smf[s].status \in Alive
  PROVE  /\ Alone(s)' <=> Alone(s)
         /\ Within(s) => Within(s)'
         /\ Below(s) => Below(s)'
         /\ Empty(s) => Empty(s)'
         /\ OnlyUplink(s) => OnlyUplink(s)'
         /\ \A r, t : Uplinked(s, r, t) => Uplinked(s, r, t)'
         /\ \A r : Downlinked(s, r) => Downlinked(s, r)'
<1>1. smf'[s] = smf[s] /\ up'[s] = up[s]
  BY DEF Elsewhere, Untouched
<1>2. Alone(s) => ue_ipv4_hbo2pfcp_pdr'[smf[s].address] = ue_ipv4_hbo2pfcp_pdr[smf[s].address]
  BY DEF Elsewhere, TablesStay
<1>3. Alone(s)' <=> Alone(s)
  <2>1. Alone(s)' => Alone(s)
    BY DEF Elsewhere, TablesStay
  <2>2. Alone(s) => Alone(s)'
    BY <1>1, <1>2 DEF Alone
  <2>3. QED
    BY <2>1, <2>2
<1>4. (Within(s) => Within(s)') /\ (Below(s) => Below(s)')
  BY <1>1, <1>2, <1>3 DEF Within, Below, Downlinks
<1>5. (Empty(s) => Empty(s)') /\ (OnlyUplink(s) => OnlyUplink(s)')
  BY <1>1 DEF Empty, OnlyUplink
<1>6. ASSUME NEW r, NEW t, Uplinked(s, r, t) PROVE Uplinked(s, r, t)'
  <2>1. t \in Transactions /\ ul_n3_teid2pfcp_pdr[t] = <<up[s].pdrs[1]>>
    BY <1>6 DEF Uplinked
  <2>2. up[s].pdrs[1].seid = s
    BY <1>6 DEF Uplinked, Pdr
  <2>3. HasUplink(t, s)
    BY <2>1, <2>2 DEF HasUplink
  <2>4. ul_n3_teid2pfcp_pdr'[t] = ul_n3_teid2pfcp_pdr[t]
    BY <2>1, <2>3 DEF Elsewhere, TablesStay, Holds
  <2>5. QED
    BY <1>1, <1>6, <2>4 DEF Uplinked
<1>7. ASSUME NEW r, Downlinked(s, r) PROVE Downlinked(s, r)'
  BY <1>1, <1>2, <1>3, <1>7 DEF Downlinked, Downlinks
<1>8. QED
  BY <1>3, <1>4, <1>5, <1>6, <1>7

\* What is on its way for a session is still meant as it was.
LEMMA MessagesElsewhere ==
  ASSUME Inv, NEW s \in Sessions, Elsewhere(s)
  PROVE  /\ NoMessage(s) => NoMessage(s)'
         /\ \A m \in n4 : m.s = s =>
              /\ m \in n4'
              /\ OnlyMessage(s, m) => OnlyMessage(s, m)'
              /\ Waiting(s, m) => Waiting(s, m)'
              /\ NewUplink(s, m) => NewUplink(s, m)'
              /\ NewDownlink(s, m) => NewDownlink(s, m)'
              /\ NewTunnel(s, m) => NewTunnel(s, m)'
              /\ NoRulesAnyMore(s, m) => NoRulesAnyMore(s, m)'
<1>1. /\ amf'[s] = amf[s] /\ gnb'[s] = gnb[s] /\ smf'[s] = smf[s] /\ up'[s] = up[s]
      /\ \A m \in n4 : m.s = s => m \in n4'
      /\ \A m \in n4' : m.s = s => m \in n4
  BY DEF Elsewhere, Untouched
<1>2. NoMessage(s) => NoMessage(s)'
  BY <1>1 DEF NoMessage
<1>3. ASSUME NEW m \in n4, m.s = s
      PROVE  /\ m \in n4'
             /\ OnlyMessage(s, m) => OnlyMessage(s, m)'
             /\ Waiting(s, m) => Waiting(s, m)'
  BY <1>1, <1>3 DEF OnlyMessage, Waiting
<1>4. ASSUME NEW m \in n4, m.s = s, NewUplink(s, m) PROVE NewUplink(s, m)'
  <2>1. m.trxn \in Transactions
    BY MessageTypes DEF Inv
  <2>2. Holds(s, m.trxn)
    BY <1>4 DEF Holds, Names
  <2>3. ul_n3_teid2pfcp_pdr'[m.trxn] = ul_n3_teid2pfcp_pdr[m.trxn]
    BY <2>1, <2>2 DEF Elsewhere, TablesStay
  <2>4. QED
    BY <1>1, <1>4, <2>3 DEF NewUplink
<1>5. ASSUME NEW m \in n4, m.s = s
      PROVE  /\ NewDownlink(s, m) => NewDownlink(s, m)'
             /\ NewTunnel(s, m) => NewTunnel(s, m)'
             /\ NoRulesAnyMore(s, m) => NoRulesAnyMore(s, m)'
  BY <1>1 DEF NewDownlink, NewTunnel, NoRulesAnyMore
<1>6. QED
  BY <1>2, <1>3, <1>4, <1>5

\* A session goes on as it was.
LEMMA PhaseElsewhere ==
  ASSUME Inv, NEW s \in Sessions, Phase(s), Elsewhere(s)
  PROVE  Phase(s)'
<1>1. amf'[s] = amf[s] /\ gnb'[s] = gnb[s] /\ smf'[s] = smf[s] /\ up'[s] = up[s]
  BY DEF Elsewhere, Untouched
<1>2. smf[s].status \in Alive =>
        /\ (Within(s) => Within(s)') /\ (Below(s) => Below(s)')
        /\ (Empty(s) => Empty(s)') /\ (OnlyUplink(s) => OnlyUplink(s)')
        /\ \A r, t : Uplinked(s, r, t) => Uplinked(s, r, t)'
        /\ \A r : Downlinked(s, r) => Downlinked(s, r)'
  BY UpfElsewhere
<1>3. (Unknowing(s) => Unknowing(s)') /\ (Ready(s) => Ready(s)') /\ (NoMessage(s) => NoMessage(s)')
  BY <1>1, MessagesElsewhere DEF Unknowing, Ready
<1>4. \A m \in n4 : OnlyMessage(s, m) \/ Waiting(s, m) =>
        /\ m \in n4'
        /\ OnlyMessage(s, m) => OnlyMessage(s, m)'
        /\ Waiting(s, m) => Waiting(s, m)'
        /\ NewUplink(s, m) => NewUplink(s, m)'
        /\ NewDownlink(s, m) => NewDownlink(s, m)'
        /\ NewTunnel(s, m) => NewTunnel(s, m)'
        /\ NoRulesAnyMore(s, m) => NoRulesAnyMore(s, m)'
  BY MessagesElsewhere DEF OnlyMessage, Waiting
<1>5. CASE NotYet(s)
  BY <1>1, <1>3, <1>5 DEF NotYet, Phase
<1>6. ASSUME NEW m \in n4, BeingCreated(s, m) PROVE BeingCreated(s, m)' /\ m \in n4'
  <2>1. smf[s].status \in Alive
    BY <1>6 DEF BeingCreated, Waiting, Alive
  <2>2. QED
    BY <1>1, <1>2, <1>3, <1>4, <1>6, <2>1 DEF BeingCreated, Waiting
<1>7. CASE Asked(s)
  <2>1. smf[s].status \in Alive
    BY <1>7 DEF Asked, Ready, Alive
  <2>2. Asked(s)'
    BY <1>1, <1>2, <1>3, <1>7, <2>1 DEF Asked
  <2>3. QED
    BY <2>2 DEF Phase
<1>8. ASSUME NEW m \in n4, BeingForwarded(s, m) PROVE BeingForwarded(s, m)' /\ m \in n4'
  <2>1. smf[s].status \in Alive
    BY <1>8 DEF BeingForwarded, Waiting, Alive
  <2>2. QED
    BY <1>1, <1>2, <1>3, <1>4, <1>8, <2>1 DEF BeingForwarded, Waiting
<1>9. CASE Connected(s)
  <2>1. smf[s].status \in Alive
    BY <1>9 DEF Connected, Ready, Alive
  <2>2. Connected(s)'
    BY <1>1, <1>2, <1>3, <1>9, <2>1 DEF Connected
  <2>3. QED
    BY <2>2 DEF Phase
<1>10. ASSUME NEW m \in n4, BeingReleased(s, m) PROVE BeingReleased(s, m)' /\ m \in n4'
  <2>1. smf[s].status \in Alive
    BY <1>10 DEF BeingReleased, Waiting, Alive
  <2>2. QED
    BY <1>1, <1>2, <1>3, <1>4, <1>10, <2>1 DEF BeingReleased, Waiting
<1>11. CASE Idle(s)
  <2>1. smf[s].status \in Alive
    BY <1>11 DEF Idle, Ready, Alive
  <2>2. Idle(s)'
    BY <1>1, <1>2, <1>3, <1>11, <2>1 DEF Idle
  <2>3. QED
    BY <2>2 DEF Phase
<1>12. ASSUME NEW m \in n4, BeingActivated(s, m) PROVE BeingActivated(s, m)' /\ m \in n4'
  <2>1. smf[s].status \in Alive
    BY <1>12 DEF BeingActivated, Waiting, Alive
  <2>2. QED
    BY <1>1, <1>2, <1>3, <1>4, <1>12, <2>1 DEF BeingActivated, Waiting
<1>13. CASE Ends(s)
  BY <1>1, <1>13 DEF Ends, Phase
<1>14. QED
  BY <1>5, <1>6, <1>7, <1>8, <1>9, <1>10, <1>11, <1>12, <1>13 DEF Phase

\* Where there is a message, it is what the session is waiting for.
LEMMA PhaseOfMessage ==
  ASSUME Inv, NEW s \in Sessions, Phase(s), NEW m \in n4, m.s = s
  PROVE  \/ Ends(s) \/ BeingCreated(s, m) \/ BeingForwarded(s, m)
         \/ BeingReleased(s, m) \/ BeingActivated(s, m)
<1>1. ~NotYet(s)
  BY DEF NotYet, Inv, Life, Unborn
<1>2. ~NoMessage(s)
  BY DEF NoMessage
<1>3. ASSUME NEW o \in n4, OnlyMessage(s, o) PROVE o = m
  BY <1>3 DEF OnlyMessage
<1>4. ~Asked(s) /\ ~Connected(s) /\ ~Idle(s)
  BY <1>2 DEF Asked, Connected, Idle
<1>5. \A o \in n4 : BeingCreated(s, o) \/ BeingForwarded(s, o) \/ BeingReleased(s, o) \/ BeingActivated(s, o)
        => OnlyMessage(s, o)
  BY DEF BeingCreated, BeingForwarded, BeingReleased, BeingActivated, Waiting
<1>6. CASE Ends(s)
  BY <1>6
<1>7. CASE \E o \in n4 : \/ BeingCreated(s, o) \/ BeingForwarded(s, o)
                       \/ BeingReleased(s, o) \/ BeingActivated(s, o)
  BY <1>3, <1>5, <1>7
<1>8. QED
  BY <1>1, <1>4, <1>6, <1>7 DEF Phase

\* No session gets hold of a TEID it has not, but for the one that draws the next.
Draws(x) == \A s \in Sessions, t \in Transactions :
    Holds(s, t)' => Holds(s, t) \/ (s = x /\ trxn' = trxn + 1 /\ t = trxn + 1)

\* So TEIDs stay apart.
LEMMA TeidsStayApart ==
  ASSUME Inv, TeidsApart, NEW x, Draws(x), trxn' \in {trxn, trxn + 1}
  PROVE  TeidsApart'
<1>1. trxn \in Nat
  BY DEF Inv, TypeOK, Id, Transactions, None
<1>2. ASSUME NEW t \in Transactions, NEW s \in Sessions, NEW r \in Sessions, Holds(s, t)', Holds(r, t)'
      PROVE  s = r
  <2>1. \A y \in Sessions : Holds(y, t) => t <= trxn
    BY DEF TeidsApart
  <2>2. CASE t = trxn + 1
    <3>1. \A y \in Sessions : ~Holds(y, t)
      BY <1>1, <2>1, <2>2
    <3>2. QED
      BY <1>2, <3>1 DEF Draws
  <2>3. CASE t # trxn + 1
    <3>1. Holds(s, t) /\ Holds(r, t)
      BY <1>2, <2>3 DEF Draws
    <3>2. QED
      BY <3>1 DEF TeidsApart
  <2>4. QED
    BY <2>2, <2>3
<1>3. ASSUME NEW t \in Transactions, NEW s \in Sessions, Holds(s, t)' PROVE t <= trxn'
  <2>1. Holds(s, t) => t <= trxn
    BY DEF TeidsApart
  <2>2. t \in Nat
    BY DEF Transactions
  <2>3. QED
    BY <1>1, <1>3, <2>1, <2>2 DEF Draws
<1>4. QED
  BY <1>2, <1>3 DEF TeidsApart

-----------------------------------------------------------------------------
(* New rules.                                                               *)

\* What a request of rules makes the UPF do.
CreatesAs(m, pdr) ==
    /\ pdr \in Pdrs
    /\ pdr = Pdr(m.s, m.ies.pdr.id, m.ies.pdr.prec, m.ies.pdr.far, m.ies.pdr.iface, pdr.key)
    /\ \/ /\ pdr.iface = "access" /\ pdr.key \in Transactions /\ Names(m, pdr.key)
          /\ m.ies.pdr.key = None => pdr.key = m.trxn
          /\ ul_n3_teid2pfcp_pdr' = [ul_n3_teid2pfcp_pdr EXCEPT ![pdr.key] = InsertPdr(ul_n3_teid2pfcp_pdr[pdr.key], pdr)]
          /\ UNCHANGED ue_ipv4_hbo2pfcp_pdr
       \/ /\ pdr.iface = "core" /\ pdr = m.ies.pdr /\ pdr.key = smf[m.s].address /\ pdr.key \in Addresses
          /\ ue_ipv4_hbo2pfcp_pdr' = [ue_ipv4_hbo2pfcp_pdr EXCEPT ![pdr.key] = InsertPdr(ue_ipv4_hbo2pfcp_pdr[pdr.key], pdr)]
          /\ UNCHANGED ul_n3_teid2pfcp_pdr
    /\ up'[m.s] = [known |-> TRUE, pdrs |-> Append(up[m.s].pdrs, pdr), fars |-> Append(up[m.s].fars, m.ies.far)]
    /\ \A s \in Sessions \ {m.s} : up'[s] = up[s]
    /\ n4' = (n4 \ {m}) \cup {[dir |-> "response", kind |-> m.kind, s |-> m.s, trxn |-> m.trxn,
                               ok |-> TRUE, teid |-> IF pdr.iface = "access" THEN pdr.key ELSE None]}

\* Rules are created for a session that has an address.
LEMMA CreatorIsAlive ==
  ASSUME Inv, NEW m \in n4, m.dir = "request", m.ies.op = "create", m.kind = "create" \/ up[m.s].known
  PROVE  /\ smf[m.s].status \in Alive /\ smf[m.s].address \in Addresses
         /\ m.ies.pdr.seid = m.s
         /\ m.ies.pdr.iface = "core" => m.ies.pdr.key = smf[m.s].address
<1> USE DEF Inv, Life
<1>1. m.s \in Sessions
  BY MessageTypes
<1>2. smf[m.s].status \in Alive
  <2>1. CASE m.kind = "create"
    BY <2>1 DEF Creating, Alive
  <2>2. CASE up[m.s].known
    BY <1>1, <2>2 DEF KnownAlive
  <2>3. QED
    BY <2>1, <2>2
<1>3. QED
  BY <1>1, <1>2 DEF OwnPdr, Addressed

\* CreateRules does what CreatesAs says.
LEMMA CreateRulesExactly ==
  ASSUME Inv, NEW m \in n4, CreateRules(m)
  PROVE  /\ \E pdr : CreatesAs(m, pdr)
         /\ m.s \in Sessions /\ m.dir = "request" /\ m.ies.op = "create" /\ m.ies \in Creations
         /\ m.kind = "create" \/ up[m.s].known
         /\ UNCHANGED <<amf, gnb, smf, trxn, clean>>
<1>1. /\ m.dir = "request" /\ m.ies.op = "create" /\ m \in Requests
      /\ m.kind = "create" \/ up[m.s].known
      /\ UNCHANGED <<amf, gnb, smf, trxn, clean>>
  BY MessageTypes DEF CreateRules, Request, Inv
<1>2. m.ies \in Creations /\ m.s \in Sessions /\ m.trxn \in Transactions
  BY <1>1, MessageTypes DEF Ies, Creations, Alterations, Removals, Deletions, Inv
<1>3. /\ smf[m.s].address \in Addresses /\ m.ies.pdr.seid = m.s
      /\ m.ies.pdr.iface = "core" => m.ies.pdr.key = smf[m.s].address
  BY <1>1, CreatorIsAlive
<1>4. PICK key : key = IF m.ies.pdr.key = None THEN m.trxn ELSE m.ies.pdr.key
  OBVIOUS
<1>5. PICK pdr : pdr = [m.ies.pdr EXCEPT !.key = key]
  OBVIOUS
<1>6. /\ up' = [up EXCEPT ![m.s] =
          [known |-> TRUE, pdrs |-> Append(up[m.s].pdrs, pdr), fars |-> Append(up[m.s].fars, m.ies.far)]]
      /\ add_pfcp_pdr(pdr) /\ Reply(m, TRUE, IF pdr.iface = "access" THEN pdr.key ELSE None)
  BY <1>4, <1>5 DEF CreateRules
<1>7. up'[m.s] = [known |-> TRUE, pdrs |-> Append(up[m.s].pdrs, pdr), fars |-> Append(up[m.s].fars, m.ies.far)]
      /\ \A s \in Sessions \ {m.s} : up'[s] = up[s]
  BY <1>2, <1>6 DEF Inv, TypeOK
<1>8. CASE m.ies.pdr \in AccessPdrs
  <2>1. m.ies.pdr.key \in Id /\ key \in Transactions
    BY <1>2, <1>4, <1>8 DEF AccessPdrs, Id
  <2>2. pdr \in Pdrs /\ pdr.iface = "access" /\ pdr.key = key
        /\ pdr = Pdr(m.s, m.ies.pdr.id, m.ies.pdr.prec, m.ies.pdr.far, m.ies.pdr.iface, pdr.key)
    BY <1>3, <1>5, <1>8, <2>1 DEF AccessPdrs, Pdrs, Pdr
  <2>3. m.ies.pdr.iface = "access"
    BY <1>8 DEF AccessPdrs
  <2>4. Names(m, key)
    BY <1>1, <1>4, <2>3 DEF Names
  <2>5. /\ ul_n3_teid2pfcp_pdr' = [ul_n3_teid2pfcp_pdr EXCEPT ![pdr.key] = InsertPdr(ul_n3_teid2pfcp_pdr[pdr.key], pdr)]
        /\ UNCHANGED ue_ipv4_hbo2pfcp_pdr
    BY <1>6, <2>2 DEF add_pfcp_pdr
  <2>6. CreatesAs(m, pdr)
    BY <1>4, <1>6, <1>7, <2>1, <2>2, <2>4, <2>5 DEF CreatesAs, Reply
  <2>7. QED
    BY <1>1, <1>2, <2>6
<1>9. CASE m.ies.pdr \in CorePdrs
  <2>1. m.ies.pdr.key \in Addresses /\ m.ies.pdr.key # None /\ m.ies.pdr.iface = "core"
    BY <1>9 DEF CorePdrs
  <2>2. key = m.ies.pdr.key
    BY <1>4, <2>1
  <2>3. pdr = m.ies.pdr
    BY <1>5, <1>9, <2>2 DEF CorePdrs
  <2>4. pdr \in Pdrs /\ pdr.iface = "core"
        /\ pdr = Pdr(m.s, m.ies.pdr.id, m.ies.pdr.prec, m.ies.pdr.far, m.ies.pdr.iface, pdr.key)
    BY <1>3, <1>9, <2>3 DEF CorePdrs, Pdrs, Pdr
  <2>5. /\ ue_ipv4_hbo2pfcp_pdr' = [ue_ipv4_hbo2pfcp_pdr EXCEPT ![pdr.key] = InsertPdr(ue_ipv4_hbo2pfcp_pdr[pdr.key], pdr)]
        /\ UNCHANGED ul_n3_teid2pfcp_pdr
    BY <1>6, <2>4 DEF add_pfcp_pdr
  <2>6. CreatesAs(m, pdr)
    BY <1>3, <1>6, <1>7, <2>1, <2>3, <2>4, <2>5 DEF CreatesAs, Reply
  <2>7. QED
    BY <1>1, <1>2, <2>6
<1>10. QED
  BY <1>2, <1>8, <1>9 DEF Creations

\* Nobody else gets hold of a TEID, and the table has the new PDR where its request
\* says.
LEMMA CreateRulesDraws ==
  ASSUME Inv, NEW m \in n4, CreateRules(m)
  PROVE  \A x : Draws(x)
<1>1. PICK pdr : CreatesAs(m, pdr)
  BY CreateRulesExactly
<1>2. m.s \in Sessions /\ UNCHANGED <<smf, trxn>> /\ m.dir = "request"
  BY CreateRulesExactly
<1>3. pdr \in Pdrs /\ pdr.seid = m.s /\ (pdr.iface = "access" => Names(m, pdr.key))
  BY <1>1 DEF CreatesAs, Pdr
<1>4. PICK r : r = [dir |-> "response", kind |-> m.kind, s |-> m.s, trxn |-> m.trxn,
                    ok |-> TRUE, teid |-> IF pdr.iface = "access" THEN pdr.key ELSE None]
  OBVIOUS
<1>5. n4' = (n4 \ {m}) \cup {r} /\ r.s = m.s /\ r.dir = "response" /\ r.trxn = m.trxn
      /\ r.teid = IF pdr.iface = "access" THEN pdr.key ELSE None
  BY <1>1, <1>4 DEF CreatesAs
<1>6. ASSUME NEW s \in Sessions, NEW t \in Transactions, Holds(s, t)' PROVE Holds(s, t)
  <2>1. CASE HasUplink(t, s)'
    <3>1. PICK k \in DOMAIN ul_n3_teid2pfcp_pdr'[t] : ul_n3_teid2pfcp_pdr'[t][k].seid = s
      BY <2>1 DEF HasUplink
    <3>2. CASE ul_n3_teid2pfcp_pdr'[t] = ul_n3_teid2pfcp_pdr[t]
      BY <3>1, <3>2 DEF HasUplink, Holds
    <3>3. CASE ul_n3_teid2pfcp_pdr'[t] # ul_n3_teid2pfcp_pdr[t]
      <4>1. /\ pdr.iface = "access" /\ t = pdr.key
            /\ ul_n3_teid2pfcp_pdr'[t] = InsertPdr(ul_n3_teid2pfcp_pdr[t], pdr)
        BY <1>1, <3>3 DEF CreatesAs, Inv, TypeOK
      <4>2. PICK list : list = ul_n3_teid2pfcp_pdr[t]
        OBVIOUS
      <4>3. list \in Seq(Pdrs)
        BY <4>2 DEF Inv, TypeOK
      <4>4. InsertPdr(list, pdr)[k] = pdr \/ \E j \in DOMAIN list : InsertPdr(list, pdr)[k] = list[j]
        BY <1>3, <3>1, <4>1, <4>2, <4>3, InsertPdrKeeps
      <4>5. CASE InsertPdr(list, pdr)[k] = pdr
        BY <1>3, <3>1, <4>1, <4>2, <4>5 DEF Holds
      <4>6. CASE \E j \in DOMAIN list : InsertPdr(list, pdr)[k] = list[j]
        BY <3>1, <4>1, <4>2, <4>6 DEF Holds, HasUplink
      <4>7. QED
        BY <4>4, <4>5, <4>6
    <3>4. QED
      BY <3>2, <3>3
  <2>2. CASE smf'[s].rules.ul_fteid = t
    BY <1>2, <2>2 DEF Holds
  <2>3. CASE \E i \in DOMAIN up'[s].pdrs : up'[s].pdrs[i].iface = "access" /\ up'[s].pdrs[i].key = t
    <3>1. PICK i \in DOMAIN up'[s].pdrs : up'[s].pdrs[i].iface = "access" /\ up'[s].pdrs[i].key = t
      BY <2>3
    <3>2. CASE s # m.s
      <4>1. up'[s] = up[s]
        BY <1>1, <3>2 DEF CreatesAs
      <4>2. QED
        BY <3>1, <4>1 DEF Holds
    <3>3. CASE s = m.s
      <4>1. up[s].pdrs \in Seq(Pdrs) /\ up'[s].pdrs = Append(up[s].pdrs, pdr)
        BY <1>1, <3>3, UpfSessionTypes DEF CreatesAs, Inv
      <4>2. up'[s].pdrs[i] = pdr \/ (i \in DOMAIN up[s].pdrs /\ up'[s].pdrs[i] = up[s].pdrs[i])
        BY <1>3, <3>1, <4>1, AppendHas
      <4>3. QED
        BY <1>3, <3>1, <3>3, <4>2 DEF Holds
    <3>4. QED
      BY <3>2, <3>3
  <2>4. CASE \E o \in n4' : o.s = s /\ Names(o, t)
    <3>1. PICK o \in n4' : o.s = s /\ Names(o, t)
      BY <2>4
    <3>2. CASE o \in n4
      BY <3>1, <3>2 DEF Holds
    <3>3. CASE o = r
      <4>1. s = m.s /\ (m.trxn = t \/ (pdr.iface = "access" /\ pdr.key = t))
        BY <1>5, <3>1, <3>3 DEF Names, Transactions, None
      <4>2. Names(m, t)
        BY <1>3, <4>1 DEF Names
      <4>3. QED
        BY <4>1, <4>2 DEF Holds
    <3>4. QED
      BY <1>5, <3>1, <3>2, <3>3
  <2>5. QED
    BY <1>6, <2>1, <2>2, <2>3, <2>4 DEF Holds, Names
<1>7. QED
  BY <1>6 DEF Draws

\* Sessions stay apart.
LEMMA CreateRulesApart ==
  ASSUME Inv, Apart, NEW m \in n4, CreateRules(m)
  PROVE  Apart'
<1>1. PICK pdr : CreatesAs(m, pdr)
  BY CreateRulesExactly
<1>2. m.s \in Sessions /\ UNCHANGED <<smf, trxn>>
  BY CreateRulesExactly
<1>3. pdr \in Pdrs /\ pdr.seid = m.s /\ (pdr.iface = "core" => pdr.key = smf[m.s].address)
  BY <1>1 DEF CreatesAs, Pdr
<1>4. up'[m.s].known /\ up'[m.s].pdrs = Append(up[m.s].pdrs, pdr) /\ up[m.s].pdrs \in Seq(Pdrs)
  BY <1>1, <1>2, UpfSessionTypes DEF CreatesAs, Inv
<1>5. \A s \in Sessions : s # m.s => up'[s] = up[s]
  BY <1>1 DEF CreatesAs
<1>6. UnknownIsEmpty'
  BY <1>4, <1>5 DEF Apart, UnknownIsEmpty
<1>7. AddressesApart'
  BY <1>2 DEF Apart, AddressesApart
<1>8. TeidsApart'
  BY <1>2, CreateRulesDraws, TeidsStayApart DEF Apart
<1>9. OwnKeys'
  <2> SUFFICES ASSUME NEW s \in Sessions, up'[s].known, NEW i \in DOMAIN up'[s].pdrs
               PROVE  /\ up'[s].pdrs[i].seid = s
                      /\ up'[s].pdrs[i].iface = "core" => up'[s].pdrs[i].key = smf[s].address
    BY <1>2 DEF OwnKeys
  <2>1. CASE s # m.s
    BY <1>5, <2>1 DEF Apart, OwnKeys
  <2>2. CASE s = m.s
    <3>4. up[s].pdrs \in Seq(Pdrs) /\ up'[s].pdrs = Append(up[s].pdrs, pdr)
      BY <1>4, <2>2
    <3>1. up'[s].pdrs[i] = pdr \/ (i \in DOMAIN up[s].pdrs /\ up'[s].pdrs[i] = up[s].pdrs[i])
      BY <1>3, <3>4, AppendHas
    <3>2. up[s].known \/ DOMAIN up[s].pdrs = {}
      BY <2>2 DEF Apart, UnknownIsEmpty, NoSession
    <3>3. QED
      BY <1>3, <2>2, <3>1, <3>2 DEF Apart, OwnKeys
  <2>3. QED
    BY <2>1, <2>2
<1>10. QED
  BY <1>6, <1>7, <1>8, <1>9 DEF Apart

\* Other sessions' TEIDs and addresses are not touched.
LEMMA CreateRulesElsewhere ==
  ASSUME Inv, Apart, NEW m \in n4, CreateRules(m), NEW s \in Sessions, s # m.s
  PROVE  Elsewhere(s)
<1>1. PICK pdr : CreatesAs(m, pdr)
  BY CreateRulesExactly
<1>2. m.s \in Sessions /\ UNCHANGED <<amf, gnb, smf, trxn, clean>>
  BY CreateRulesExactly
<1>3. Untouched(s)
  <2>1. PICK r : r.s = m.s /\ n4' = (n4 \ {m}) \cup {r}
    BY <1>1 DEF CreatesAs
  <2>2. up'[s] = up[s]
    BY <1>1 DEF CreatesAs
  <2>3. QED
    BY <1>2, <2>1, <2>2 DEF Untouched
<1>4. ASSUME NEW t \in Transactions, Holds(s, t)
      PROVE  ul_n3_teid2pfcp_pdr'[t] = ul_n3_teid2pfcp_pdr[t]
  <2>1. CASE pdr.iface = "access"
    <3>1. Holds(m.s, pdr.key)
      BY <1>1, <2>1 DEF CreatesAs, Holds
    <3>2. t # pdr.key
      BY <1>2, <1>4, <3>1 DEF Apart, TeidsApart
    <3>3. QED
      BY <1>1, <2>1, <3>2 DEF CreatesAs, Inv, TypeOK
  <2>2. CASE pdr.iface = "core"
    BY <1>1, <2>2 DEF CreatesAs
  <2>3. QED
    BY <1>1, <2>1, <2>2 DEF CreatesAs
<1>5. ASSUME smf[s].status \in Alive
      PROVE  ue_ipv4_hbo2pfcp_pdr'[smf[s].address] = ue_ipv4_hbo2pfcp_pdr[smf[s].address]
  <2>1. smf[s].address \in Addresses /\ smf[s].address # NoAddress
    BY <1>5 DEF Inv, Life, Addressed
  <2>2. CASE pdr.iface = "access"
    BY <1>1, <2>2 DEF CreatesAs
  <2>3. CASE pdr.iface = "core"
    <3>1. pdr.key = smf[m.s].address
      BY <1>1, <2>3 DEF CreatesAs
    <3>2. pdr.key # smf[s].address
      BY <1>2, <2>1, <3>1 DEF Apart, AddressesApart
    <3>3. QED
      BY <1>1, <2>1, <2>3, <3>2 DEF CreatesAs, Inv, TypeOK
  <2>4. QED
    BY <1>1, <2>2, <2>3 DEF CreatesAs
<1>6. smf[s].status \in Alive /\ Alone(s)' => Alone(s)
  BY <1>2, <1>5 DEF Alone
<1>7. QED
  BY <1>3, <1>4, <1>5, <1>6 DEF Elsewhere, TablesStay

-----------------------------------------------------------------------------
(* How a session goes on when its rules are created.                        *)

\* The one message of a session was taken and answered by r.
AnsweredBy(s, m, r) ==
    /\ r.dir = "response" /\ r.s = s /\ r.kind = m.kind /\ r.trxn = m.trxn
    /\ n4' = (n4 \ {m}) \cup {r}

\* The answer is the one message then.
LEMMA AnswerIsAlone ==
  ASSUME NEW s, NEW m, NEW r, OnlyMessage(s, m), AnsweredBy(s, m, r)
  PROVE  OnlyMessage(s, r)' /\ r \in n4'
BY DEF OnlyMessage, AnsweredBy

\* A first rule is created for a tunnel that has none.
LEMMA UplinkIsCreated ==
  ASSUME Inv, NEW m \in n4, NEW pdr, CreatesAs(m, pdr), UNCHANGED smf, NewUplink(m.s, m),
         up[m.s].pdrs = <<>>, up[m.s].fars = <<>>
  PROVE  /\ pdr.iface = "access"
         /\ Uplinked(m.s, smf[m.s].rules, pdr.key)' /\ OnlyUplink(m.s)'
         /\ UNCHANGED ue_ipv4_hbo2pfcp_pdr
<1>1. PICK s, r : s = m.s /\ r = smf[s].rules
  OBVIOUS
<1>2. PICK prec \in Nat : m.ies.pdr = Pdr(s, r.pdr_ul, prec, r.far_ul, "access", None)
  BY <1>1 DEF NewUplink
<1>3. m.ies.pdr.iface = "access" /\ m.ies.pdr.key = None /\ m.ies.pdr.id = r.pdr_ul
      /\ m.ies.pdr.prec = prec /\ m.ies.pdr.far = r.far_ul
  BY <1>2 DEF Pdr
<1>4. pdr.iface = "access" /\ pdr = Pdr(s, r.pdr_ul, prec, r.far_ul, "access", pdr.key)
  BY <1>1, <1>3 DEF CreatesAs, Pdr
<1>5. pdr \in Pdrs /\ pdr.key \in Transactions /\ pdr.key = m.trxn /\ UNCHANGED ue_ipv4_hbo2pfcp_pdr
      /\ ul_n3_teid2pfcp_pdr' = [ul_n3_teid2pfcp_pdr EXCEPT ![pdr.key] = InsertPdr(ul_n3_teid2pfcp_pdr[pdr.key], pdr)]
  BY <1>3, <1>4 DEF CreatesAs
<1>6. ul_n3_teid2pfcp_pdr'[pdr.key] = <<pdr>>
  <2>1. ul_n3_teid2pfcp_pdr[pdr.key] = <<>>
    BY <1>1, <1>5 DEF NewUplink
  <2>2. InsertPdr(<<>>, pdr) = <<pdr>>
    BY DEF InsertPdr
  <2>3. QED
    BY <1>5, <2>1, <2>2 DEF Inv, TypeOK
<1>7. m.ies.far = [id |-> r.far_ul, to |-> Core]
  BY <1>1 DEF NewUplink
<1>8. up'[s] = [known |-> TRUE, pdrs |-> Append(<<>>, pdr), fars |-> Append(<<>>, m.ies.far)]
  BY <1>1 DEF CreatesAs
<1>9. up'[s].known /\ up'[s].pdrs = <<pdr>> /\ up'[s].fars = <<m.ies.far>>
  BY <1>8
<1>10. smf'[s] = smf[s]
  OBVIOUS
<1>11. Uplinked(s, smf[s].rules, pdr.key)'
  BY <1>1, <1>4, <1>5, <1>6, <1>7, <1>9, <1>10 DEF Uplinked
<1>12. OnlyUplink(s)'
  BY <1>9 DEF OnlyUplink
<1>13. QED
  BY <1>1, <1>4, <1>5, <1>11, <1>12

\* The second rule is created, and preferred to all there are.
LEMMA DownlinkIsCreated ==
  ASSUME Inv, NEW m \in n4, NEW pdr, CreatesAs(m, pdr), UNCHANGED <<smf, gnb>>, NewDownlink(m.s, m),
         Uplinked(m.s, smf[m.s].rules, gnb[m.s].ul), OnlyUplink(m.s), Below(m.s)
  PROVE  /\ Uplinked(m.s, smf[m.s].rules, gnb[m.s].ul)' /\ Downlinked(m.s, smf[m.s].rules)'
         /\ up'[m.s].fars[2].to = gnb[m.s].dl /\ Within(m.s)'
<1>1. PICK s, r, a : s = m.s /\ r = smf[s].rules /\ a = smf[s].address
  OBVIOUS
<1>2. m.ies.pdr = Pdr(s, r.pdr_dl, smf[s].precedence, r.far_dl, "core", a)
      /\ m.ies.far = [id |-> r.far_dl, to |-> gnb[s].dl]
  BY <1>1 DEF NewDownlink
<1>3. pdr \in Pdrs /\ s \in Sessions /\ m.ies.pdr.iface = "core"
  BY <1>1, <1>2, MessageTypes DEF CreatesAs, Pdr, Inv
<1>4. /\ pdr = m.ies.pdr /\ pdr.key = a /\ a \in Addresses /\ UNCHANGED ul_n3_teid2pfcp_pdr
      /\ ue_ipv4_hbo2pfcp_pdr' = [ue_ipv4_hbo2pfcp_pdr EXCEPT ![a] = InsertPdr(ue_ipv4_hbo2pfcp_pdr[a], pdr)]
  BY <1>1, <1>3 DEF CreatesAs, Pdr
<1>5. PICK list : list = ue_ipv4_hbo2pfcp_pdr[a]
  OBVIOUS
<1>6. list \in Seq(Pdrs) /\ ue_ipv4_hbo2pfcp_pdr'[a] = InsertPdr(list, pdr)
  BY <1>4, <1>5 DEF Inv, TypeOK
<1>7. pdr.prec = smf[s].precedence /\ pdr.seid = s
  BY <1>2, <1>4 DEF Pdr
<1>8. up[s].pdrs \in Seq(Pdrs) /\ up[s].fars \in Seq(Fars)
  BY <1>3, UpfSessionTypes DEF Inv
<1>9. Len(up[s].pdrs) = 1 /\ Len(up[s].fars) = 1
  BY <1>1 DEF OnlyUplink
<1>10. PICK u : u = up'[s]
  OBVIOUS
<1>11. u.known /\ u.pdrs = Append(up[s].pdrs, pdr) /\ u.fars = Append(up[s].fars, m.ies.far)
  <2>1. up'[s] = [known |-> TRUE, pdrs |-> Append(up[s].pdrs, pdr), fars |-> Append(up[s].fars, m.ies.far)]
    BY <1>1 DEF CreatesAs
  <2>2. QED
    BY <1>10, <2>1
<1>12. Len(u.pdrs) = 2 /\ u.pdrs[1] = up[s].pdrs[1] /\ u.pdrs[2] = pdr
  <2>1. PICK p : p = up[s].pdrs
    OBVIOUS
  <2>2. p \in Seq(Pdrs) /\ Len(p) = 1 /\ u.pdrs = Append(p, pdr)
    BY <1>8, <1>9, <1>11, <2>1
  <2>3. Len(Append(p, pdr)) = 2 /\ Append(p, pdr)[1] = p[1] /\ Append(p, pdr)[2] = pdr
    BY <1>3, <2>2, AppendToOne
  <2>4. QED
    BY <2>1, <2>2, <2>3
<1>13. Len(u.fars) = 2 /\ u.fars[1] = up[s].fars[1] /\ u.fars[2] = m.ies.far
  BY <1>8, <1>9, <1>11
<1>14. smf'[s] = smf[s] /\ gnb'[s] = gnb[s]
  OBVIOUS
<1>15. Uplinked(s, smf[s].rules, gnb[s].ul)'
  BY <1>1, <1>4, <1>10, <1>11, <1>12, <1>13, <1>14 DEF Uplinked
<1>16. ASSUME Alone(s)' PROVE Alone(s)
  <2> SUFFICES ASSUME NEW i \in DOMAIN list PROVE list[i].seid = s
    BY <1>1, <1>5 DEF Alone
  <2>1. PICK k \in DOMAIN InsertPdr(list, pdr) : InsertPdr(list, pdr)[k] = list[i]
    BY <1>3, <1>6, InsertPdrHas
  <2>2. k \in DOMAIN ue_ipv4_hbo2pfcp_pdr'[smf'[s].address]
    BY <1>1, <1>6, <1>14, <2>1
  <2>3. ue_ipv4_hbo2pfcp_pdr'[smf'[s].address][k].seid = s
    BY <1>16, <2>2 DEF Alone
  <2>4. QED
    BY <1>1, <1>6, <1>14, <2>1, <2>3
<1>17. Alone(s)' => \A k \in DOMAIN list : list[k].prec < pdr.prec
  BY <1>1, <1>5, <1>7, <1>16 DEF Below, Downlinks
<1>18. Alone(s)' => InsertPdr(list, pdr) # <<>> /\ InsertPdr(list, pdr)[1] = pdr
  BY <1>3, <1>6, <1>17, InsertPdrFirst
<1>19. Downlinked(s, smf[s].rules)'
  <2>1. Downlinks(s)' = InsertPdr(list, pdr)
    BY <1>1, <1>6, <1>14 DEF Downlinks
  <2>2. u.fars[2].id = r.far_dl
    BY <1>2, <1>13
  <2>3. smf[s].precedence \in Nat
    BY <1>3 DEF Inv, TypeOK
  <2>4. QED
    BY <1>1, <1>2, <1>4, <1>10, <1>12, <1>13, <1>14, <1>18, <2>1, <2>2, <2>3 DEF Downlinked
<1>20. Within(s)'
  <2> SUFFICES ASSUME Alone(s)', NEW k \in DOMAIN InsertPdr(list, pdr)
               PROVE  InsertPdr(list, pdr)[k].prec <= smf[s].precedence
    BY <1>1, <1>6, <1>14 DEF Within, Downlinks
  <2>1. smf[s].precedence \in Nat
    BY <1>3 DEF Inv, TypeOK
  <2>2. InsertPdr(list, pdr)[k] = pdr \/ \E j \in DOMAIN list : InsertPdr(list, pdr)[k] = list[j]
    BY <1>3, <1>6, InsertPdrKeeps
  <2>3. \A j \in DOMAIN list : list[j] \in Pdrs
    BY <1>6
  <2>4. \A j \in DOMAIN list : list[j].prec \in Nat
    BY <2>3 DEF Pdrs
  <2>5. QED
    BY <1>7, <1>17, <2>1, <2>2, <2>4
<1>21. QED
  BY <1>1, <1>2, <1>10, <1>13, <1>15, <1>19, <1>20

\* A session for which rules are created goes on.
LEMMA CreateRulesGoesOn ==
  ASSUME Inv, Apart, NEW m \in n4, CreateRules(m), Phase(m.s)
  PROVE  Phase(m.s)'
<1>1. PICK pdr : CreatesAs(m, pdr)
  BY CreateRulesExactly
<1>2. /\ m.s \in Sessions /\ m.dir = "request" /\ m.ies.op = "create"
      /\ m.kind = "create" \/ up[m.s].known
      /\ UNCHANGED <<amf, gnb, smf, trxn, clean>>
  BY CreateRulesExactly
<1>3. PICK s : s = m.s
  OBVIOUS
<1>4. PICK r : r = [dir |-> "response", kind |-> m.kind, s |-> m.s, trxn |-> m.trxn,
                    ok |-> TRUE, teid |-> IF pdr.iface = "access" THEN pdr.key ELSE None]
  OBVIOUS
<1>5. AnsweredBy(s, m, r) /\ r.ok /\ r.teid = IF pdr.iface = "access" THEN pdr.key ELSE None
  BY <1>1, <1>3, <1>4 DEF CreatesAs, AnsweredBy
<1>6. r.dir = "response" /\ r.kind = m.kind /\ r.trxn = m.trxn
  BY <1>5 DEF AnsweredBy
<1>7. amf'[s] = amf[s] /\ gnb'[s] = gnb[s] /\ smf'[s] = smf[s]
  BY <1>2
<1>8. ASSUME up[s].pdrs = <<>>, up[s].fars = <<>>, NewUplink(s, m), Below(s)
      PROVE  /\ Uplinked(s, smf[s].rules, r.teid)' /\ OnlyUplink(s)' /\ Below(s)'
  <2>1. /\ pdr.iface = "access" /\ Uplinked(s, smf[s].rules, pdr.key)' /\ OnlyUplink(s)'
        /\ UNCHANGED ue_ipv4_hbo2pfcp_pdr
    BY <1>1, <1>2, <1>3, <1>8, UplinkIsCreated
  <2>2. Below(s)'
    BY <1>7, <1>8, <2>1 DEF Below, Alone, Downlinks
  <2>3. QED
    BY <1>5, <2>1, <2>2
<1>9. CASE BeingCreated(s, m)
  <2>1. up[s] = NoSession /\ NewUplink(s, m) /\ Below(s) /\ OnlyMessage(s, m)
    BY <1>2, <1>3, <1>9 DEF BeingCreated, Apart, UnknownIsEmpty
  <2>2. Uplinked(s, smf[s].rules, r.teid)' /\ OnlyUplink(s)' /\ Below(s)'
    BY <1>8, <2>1 DEF NoSession
  <2>3. OnlyMessage(s, r)' /\ r \in n4'
    BY <1>5, <2>1, AnswerIsAlone
  <2>4. BeingCreated(s, r)'
    BY <1>5, <1>6, <1>7, <1>9, <2>2, <2>3 DEF BeingCreated, Unknowing
  <2>5. QED
    BY <1>3, <2>3, <2>4 DEF Phase
<1>10. CASE BeingForwarded(s, m)
  <2>1. OnlyMessage(s, m) /\ Waiting(s, m)
    BY <1>10 DEF BeingForwarded, Waiting
  <2>2. NewDownlink(s, m) /\ OnlyUplink(s) /\ Below(s) /\ Uplinked(s, smf[s].rules, gnb[s].ul)
    BY <1>2, <1>10 DEF BeingForwarded, NewTunnel
  <2>3. /\ Uplinked(s, smf[s].rules, gnb[s].ul)' /\ Downlinked(s, smf[s].rules)'
        /\ up'[s].fars[2].to = gnb[s].dl /\ Within(s)'
    BY <1>1, <1>2, <1>3, <2>2, DownlinkIsCreated
  <2>4. OnlyMessage(s, r)' /\ r \in n4'
    BY <1>5, <2>1, AnswerIsAlone
  <2>5. Waiting(s, r)'
    BY <1>6, <1>7, <2>1, <2>4 DEF Waiting
  <2>6. BeingForwarded(s, r)'
    BY <1>5, <1>6, <1>7, <1>10, <2>3, <2>5 DEF BeingForwarded
  <2>7. QED
    BY <1>3, <2>4, <2>6 DEF Phase
<1>11. CASE BeingActivated(s, m)
  <2>1. Empty(s) /\ NewUplink(s, m) /\ Below(s) /\ OnlyMessage(s, m) /\ Waiting(s, m)
    BY <1>2, <1>11 DEF BeingActivated, Waiting
  <2>2. Uplinked(s, smf[s].rules, r.teid)' /\ OnlyUplink(s)' /\ Below(s)'
    BY <1>8, <2>1 DEF Empty
  <2>3. OnlyMessage(s, r)' /\ r \in n4'
    BY <1>5, <2>1, AnswerIsAlone
  <2>4. Waiting(s, r)'
    BY <1>6, <1>7, <2>1, <2>3 DEF Waiting
  <2>5. BeingActivated(s, r)'
    BY <1>5, <1>6, <1>7, <1>11, <2>2, <2>4 DEF BeingActivated
  <2>6. QED
    BY <1>3, <2>3, <2>5 DEF Phase
<1>12. ~BeingReleased(s, m)
  BY <1>2 DEF BeingReleased, NoRulesAnyMore
<1>13. CASE Ends(s)
  BY <1>3, <1>7, <1>13 DEF Ends, Phase
<1>14. QED
  BY <1>2, <1>3, <1>9, <1>10, <1>11, <1>12, <1>13, PhaseOfMessage

-----------------------------------------------------------------------------
(* Rules that go, and sessions.                                             *)

\* No session is new to the UPF, and none has a PDR but for ones it had.
PdrsStay == \A s \in Sessions :
    /\ up'[s].known => up[s].known
    /\ \A i \in DOMAIN up'[s].pdrs : \E j \in DOMAIN up[s].pdrs :
         /\ up[s].pdrs[j].seid = up'[s].pdrs[i].seid
         /\ up[s].pdrs[j].iface = up'[s].pdrs[i].iface
         /\ up[s].pdrs[j].key = up'[s].pdrs[i].key

\* The tables for the tunnels have nothing new.
UplinksStay == \A t \in Transactions, s \in Sessions : HasUplink(t, s)' => HasUplink(t, s)

\* A message more, if any, names what the one that goes names.
NamesStay == \A o \in n4' : o \in n4 \/ \E m \in n4 : m.s = o.s /\ \A t \in Transactions : Names(o, t) => Names(m, t)

\* Then no session gets hold of a TEID.
LEMMA NothingDrawn ==
  ASSUME Inv, UNCHANGED smf, PdrsStay, UplinksStay, NamesStay
  PROVE  \A x : Draws(x)
<1>1. ASSUME NEW s \in Sessions, NEW t \in Transactions, Holds(s, t)' PROVE Holds(s, t)
  <2>1. CASE HasUplink(t, s)'
    BY <2>1 DEF UplinksStay, Holds
  <2>2. CASE smf'[s].rules.ul_fteid = t
    BY <2>2 DEF Holds
  <2>3. CASE \E i \in DOMAIN up'[s].pdrs : up'[s].pdrs[i].iface = "access" /\ up'[s].pdrs[i].key = t
    BY <2>3 DEF PdrsStay, Holds
  <2>4. CASE \E o \in n4' : o.s = s /\ Names(o, t)
    BY <2>4 DEF NamesStay, Holds
  <2>5. QED
    BY <1>1, <2>1, <2>2, <2>3, <2>4 DEF Holds, Names
<1>2. QED
  BY <1>1 DEF Draws

\* And sessions stay apart.
LEMMA StayApart ==
  ASSUME Inv, Apart, UNCHANGED <<smf, trxn>>, PdrsStay, UplinksStay, NamesStay, UnknownIsEmpty'
  PROVE  Apart'
<1>1. AddressesApart'
  BY DEF Apart, AddressesApart
<1>2. TeidsApart'
  BY NothingDrawn, TeidsStayApart DEF Apart
<1>3. OwnKeys'
  <2> SUFFICES ASSUME NEW s \in Sessions, up'[s].known, NEW i \in DOMAIN up'[s].pdrs
               PROVE  /\ up'[s].pdrs[i].seid = s
                      /\ up'[s].pdrs[i].iface = "core" => up'[s].pdrs[i].key = smf[s].address
    BY DEF OwnKeys
  <2>1. PICK j \in DOMAIN up[s].pdrs :
             /\ up[s].pdrs[j].seid = up'[s].pdrs[i].seid
             /\ up[s].pdrs[j].iface = up'[s].pdrs[i].iface
             /\ up[s].pdrs[j].key = up'[s].pdrs[i].key
    BY DEF PdrsStay
  <2>2. up[s].known
    BY DEF PdrsStay
  <2>3. QED
    BY <2>1, <2>2 DEF Apart, OwnKeys
<1>4. QED
  BY <1>1, <1>2, <1>3 DEF Apart

\* An answer without a TEID names nothing new.
LEMMA AnswerNames ==
  ASSUME NEW m \in n4, NEW r, AnsweredBy(m.s, m, r), r.teid = None
  PROVE  NamesStay
<1>1. \A t \in Transactions : Names(r, t) => Names(m, t)
  BY DEF Names, AnsweredBy, Transactions, None
<1>2. QED
  BY <1>1 DEF NamesStay, AnsweredBy

\* What DropRules does.
LEMMA DropRulesExactly ==
  ASSUME Inv, NEW m \in n4, DropRules(m)
  PROVE  /\ m.s \in Sessions /\ m.dir = "request" /\ m.ies.op = "remove" /\ up[m.s].known
         /\ UNCHANGED <<amf, gnb, smf, tables, trxn, clean>>
         /\ \E pdrs, fars, ok :
               /\ pdrs = RemoveRules(up[m.s].pdrs, m.ies.pdrs)
               /\ fars = RemoveRules(up[m.s].fars, IF pdrs.ok THEN m.ies.fars ELSE <<None, None>>)
               /\ ok = (pdrs.ok /\ fars.ok)
               /\ up'[m.s].known = up[m.s].known /\ up'[m.s].pdrs = pdrs.rules /\ up'[m.s].fars = fars.rules
               /\ \E r : AnsweredBy(m.s, m, r) /\ r.teid = None /\ r.ok = ok
         /\ \A s \in Sessions : s # m.s => up'[s] = up[s]
<1>1. /\ m.s \in Sessions /\ m.dir = "request" /\ m.ies.op = "remove" /\ up[m.s].known
      /\ UNCHANGED <<amf, gnb, smf, tables, trxn, clean>>
  BY MessageTypes DEF DropRules, Request, Inv
<1>2. up \in [Sessions -> UpfSessions] /\ up[m.s] \in UpfSessions
  BY <1>1 DEF Inv, TypeOK, UpfSessions
<1>3. PICK pdrs : pdrs = RemoveRules(up[m.s].pdrs, m.ies.pdrs)
  OBVIOUS
<1>4. PICK fars : fars = RemoveRules(up[m.s].fars, IF pdrs.ok THEN m.ies.fars ELSE <<None, None>>)
  OBVIOUS
<1>5. PICK ok : ok = (pdrs.ok /\ fars.ok)
  OBVIOUS
<1>6. PICK new : new = [up[m.s] EXCEPT !.pdrs = pdrs.rules, !.fars = fars.rules]
  OBVIOUS
<1>7. up' = [up EXCEPT ![m.s] = new] /\ Reply(m, ok, None)
  <2>1. /\ up' = [up EXCEPT ![m.s] = [up[m.s] EXCEPT !.pdrs = pdrs.rules, !.fars = fars.rules]]
        /\ Reply(m, pdrs.ok /\ fars.ok, None)
    BY <1>3, <1>4 DEF DropRules
  <2>2. QED
    BY ONLY <1>5, <1>6, <2>1
<1>8. new.known = up[m.s].known /\ new.pdrs = pdrs.rules /\ new.fars = fars.rules
  BY <1>2, <1>6 DEF UpfSessions
<1>9. up'[m.s] = new /\ \A s \in Sessions : s # m.s => up'[s] = up[s]
  BY <1>1, <1>2, <1>7
<1>10. PICK r : r = [dir |-> "response", kind |-> m.kind, s |-> m.s, trxn |-> m.trxn,
                     ok |-> ok, teid |-> None]
  OBVIOUS
<1>11. AnsweredBy(m.s, m, r) /\ r.teid = None /\ r.ok = ok
  BY <1>7, <1>10 DEF Reply, AnsweredBy
<1>12. /\ pdrs = RemoveRules(up[m.s].pdrs, m.ies.pdrs)
       /\ fars = RemoveRules(up[m.s].fars, IF pdrs.ok THEN m.ies.fars ELSE <<None, None>>)
       /\ ok = (pdrs.ok /\ fars.ok)
       /\ up'[m.s].known = up[m.s].known /\ up'[m.s].pdrs = pdrs.rules /\ up'[m.s].fars = fars.rules
       /\ \E x : AnsweredBy(m.s, m, x) /\ x.teid = None /\ x.ok = ok
  BY <1>3, <1>4, <1>5, <1>8, <1>9, <1>11
<1>13. \E p, f, k :
         /\ p = RemoveRules(up[m.s].pdrs, m.ies.pdrs)
         /\ f = RemoveRules(up[m.s].fars, IF p.ok THEN m.ies.fars ELSE <<None, None>>)
         /\ k = (p.ok /\ f.ok)
         /\ up'[m.s].known = up[m.s].known /\ up'[m.s].pdrs = p.rules /\ up'[m.s].fars = f.rules
         /\ \E x : AnsweredBy(m.s, m, x) /\ x.teid = None /\ x.ok = k
  <2> WITNESS pdrs, fars, ok
  <2> QED
    BY <1>12
<1>14. QED
  BY <1>1, <1>9, <1>13

\* Rules that go touch no other session.
LEMMA DropRulesApart ==
  ASSUME Inv, Apart, NEW m \in n4, DropRules(m)
  PROVE  Apart' /\ \A s \in Sessions : s # m.s => Elsewhere(s)
<1>1. /\ m.s \in Sessions /\ up[m.s].known
      /\ UNCHANGED <<amf, gnb, smf, ul_n3_teid2pfcp_pdr, ue_ipv4_hbo2pfcp_pdr, trxn, clean>>
      /\ \A s \in Sessions : s # m.s => up'[s] = up[s]
  BY DropRulesExactly DEF tables
<1>2. PICK pdrs, r : /\ pdrs = RemoveRules(up[m.s].pdrs, m.ies.pdrs)
                     /\ up'[m.s].known = up[m.s].known /\ up'[m.s].pdrs = pdrs.rules
                     /\ AnsweredBy(m.s, m, r) /\ r.teid = None
  BY DropRulesExactly
<1>3. PICK old : old = up[m.s].pdrs
  OBVIOUS
<1>4. old \in Seq(Pdrs)
  BY <1>1, <1>3, UpfSessionTypes DEF Inv
<1>5. PICK T : T = {old[i] : i \in DOMAIN old}
  OBVIOUS
<1>6. old \in Seq(T)
  BY <1>4, <1>5
<1>7. pdrs.rules \in Seq(T)
  BY <1>2, <1>3, <1>6, RemoveRulesKeeps
<1>8. \A i \in DOMAIN up'[m.s].pdrs : up'[m.s].pdrs[i] \in T
  BY <1>2, <1>7
<1>9. PdrsStay
  BY <1>1, <1>2, <1>3, <1>5, <1>8 DEF PdrsStay
<1>10. UplinksStay
  BY <1>1 DEF UplinksStay, HasUplink
<1>11. NamesStay
  BY <1>2, AnswerNames
<1>12. UnknownIsEmpty'
  BY <1>1, <1>2 DEF Apart, UnknownIsEmpty
<1>13. Apart'
  BY <1>1, <1>9, <1>10, <1>11, <1>12, StayApart
<1>14. ASSUME NEW s \in Sessions, s # m.s PROVE Elsewhere(s)
  <2>1. Untouched(s)
    BY <1>1, <1>2, <1>14 DEF Untouched, AnsweredBy
  <2>2. TablesStay(s)
    BY <1>1 DEF TablesStay, Alone
  <2>3. QED
    BY <2>1, <2>2 DEF Elsewhere
<1>15. QED
  BY <1>13, <1>14

\* A session whose rules are removed has none then.
LEMMA DropRulesGoesOn ==
  ASSUME Inv, Apart, NEW m \in n4, DropRules(m), Phase(m.s)
  PROVE  Phase(m.s)'
<1>1. /\ m.s \in Sessions /\ m.dir = "request" /\ m.ies.op = "remove" /\ up[m.s].known
      /\ UNCHANGED <<amf, gnb, smf, ul_n3_teid2pfcp_pdr, ue_ipv4_hbo2pfcp_pdr, trxn, clean>>
  BY DropRulesExactly DEF tables
<1>2. PICK s : s = m.s
  OBVIOUS
<1>3. amf'[s] = amf[s] /\ gnb'[s] = gnb[s] /\ smf'[s] = smf[s]
  BY <1>1
<1>4. CASE BeingReleased(s, m)
  <2>1. PICK pdrs, fars, ok, r :
               /\ pdrs = RemoveRules(up[s].pdrs, m.ies.pdrs)
               /\ fars = RemoveRules(up[s].fars, IF pdrs.ok THEN m.ies.fars ELSE <<None, None>>)
               /\ ok = (pdrs.ok /\ fars.ok)
               /\ up'[s].known = up[s].known /\ up'[s].pdrs = pdrs.rules /\ up'[s].fars = fars.rules
               /\ AnsweredBy(s, m, r) /\ r.teid = None /\ r.ok = ok
    BY <1>2, DropRulesExactly
  <2>2. PICK x \in Rules :
               /\ BothIds(x)
               /\ m.ies.pdrs = <<x.pdr_dl, x.pdr_ul>> /\ m.ies.fars = <<x.far_dl, x.far_ul>>
               /\ Len(up[s].pdrs) = 2 /\ Len(up[s].fars) = 2
               /\ up[s].pdrs[1].id = x.pdr_ul /\ up[s].pdrs[2].id = x.pdr_dl
               /\ up[s].fars[1].id = x.far_ul /\ up[s].fars[2].id = x.far_dl
    BY <1>1, <1>4 DEF BeingReleased, NoRulesAnyMore
  <2>3. up[s].pdrs \in Seq(Pdrs) /\ up[s].fars \in Seq(Fars)
    BY <1>1, <1>2, UpfSessionTypes DEF Inv
  <2>4. pdrs.rules = <<>> /\ pdrs.ok = TRUE
    <3>1. PICK q, ids : q = up[s].pdrs /\ ids = m.ies.pdrs
      OBVIOUS
    <3>2. /\ q \in Seq(Pdrs) /\ Len(q) = 2 /\ q[1].id # q[2].id /\ None \notin {q[1].id, q[2].id}
          /\ ids = <<q[2].id, q[1].id>>
      BY <2>2, <2>3, <3>1 DEF BothIds
    <3>3. RemoveRules(q, ids).rules = <<>> /\ RemoveRules(q, ids).ok = TRUE
      BY <3>2, RemoveRulesOfTwo
    <3>4. QED
      BY <2>1, <3>1, <3>3
  <2>5. fars.rules = <<>> /\ fars.ok = TRUE
    <3>1. PICK q, ids : q = up[s].fars /\ ids = m.ies.fars
      OBVIOUS
    <3>2. /\ q \in Seq(Fars) /\ Len(q) = 2 /\ q[1].id # q[2].id /\ None \notin {q[1].id, q[2].id}
          /\ ids = <<q[2].id, q[1].id>>
      BY <2>2, <2>3, <3>1 DEF BothIds
    <3>3. RemoveRules(q, ids).rules = <<>> /\ RemoveRules(q, ids).ok = TRUE
      BY <3>2, RemoveRulesOfTwo
    <3>4. fars = RemoveRules(q, ids)
      BY <2>1, <2>4, <3>1
    <3>5. QED
      BY <3>3, <3>4
  <2>6. r.ok /\ Empty(s)'
    BY <1>1, <1>2, <2>1, <2>4, <2>5 DEF Empty
  <2>7. Waiting(s, m) /\ OnlyMessage(s, m)
    BY <1>4 DEF BeingReleased, Waiting
  <2>8. OnlyMessage(s, r)' /\ r \in n4'
    BY <2>1, <2>7, AnswerIsAlone
  <2>9. r.dir = "response" /\ r.kind = m.kind /\ r.trxn = m.trxn
    BY <2>1 DEF AnsweredBy
  <2>10. Waiting(s, r)'
    BY <1>3, <2>7, <2>8, <2>9 DEF Waiting
  <2>11. Within(s)'
    BY <1>1, <1>3, <1>4 DEF BeingReleased, Within, Alone, Downlinks
  <2>12. BeingReleased(s, r)'
    BY <1>3, <1>4, <2>6, <2>9, <2>10, <2>11 DEF BeingReleased
  <2>13. QED
    BY <1>2, <2>8, <2>12 DEF Phase
<1>5. CASE Ends(s)
  BY <1>2, <1>3, <1>5 DEF Ends, Phase
<1>6. ~BeingCreated(s, m)
  BY <1>1 DEF BeingCreated, NewUplink
<1>7. ~BeingForwarded(s, m)
  BY <1>1 DEF BeingForwarded, NewDownlink, NewTunnel
<1>8. ~BeingActivated(s, m)
  BY <1>1 DEF BeingActivated, NewUplink
<1>9. QED
  BY <1>1, <1>2, <1>4, <1>5, <1>6, <1>7, <1>8, PhaseOfMessage

-----------------------------------------------------------------------------
(* A session that goes, and one that is not known.                          *)

\* A session for which nothing is on its way but a deletion ends.
LEMMA DeleteEnds ==
  ASSUME Inv, NEW m \in n4, m.kind = "delete", m.s \in Sessions, Phase(m.s), UNCHANGED smf
  PROVE  Phase(m.s)'
<1>1. ~BeingCreated(m.s, m) /\ ~BeingForwarded(m.s, m) /\ ~BeingReleased(m.s, m) /\ ~BeingActivated(m.s, m)
  BY DEF BeingCreated, BeingForwarded, BeingReleased, BeingActivated, Waiting
<1>2. Ends(m.s)
  BY <1>1, PhaseOfMessage
<1>3. QED
  BY <1>2 DEF Ends, Phase

\* A deletion leaves the other sessions what they have.
LEMMA DeleteSessionApart ==
  ASSUME Inv, Apart, NEW m \in n4, DeleteSession(m)
  PROVE  /\ Apart' /\ \A s \in Sessions : s # m.s => Elsewhere(s)
         /\ Phase(m.s) => Phase(m.s)'
<1>1. /\ m.dir = "request" /\ m.kind = "delete" /\ up[m.s].known /\ m.s \in Sessions
      /\ remove_pdrs(up[m.s].pdrs)
      /\ up' = [up EXCEPT ![m.s] = NoSession]
      /\ Reply(m, TRUE, None)
      /\ UNCHANGED <<amf, gnb, smf, trxn, clean>>
  BY MessageTypes DEF DeleteSession, Request, Inv
<1>2. up'[m.s] = NoSession /\ \A s \in Sessions : s # m.s => up'[s] = up[s]
  BY <1>1 DEF Inv, TypeOK
<1>3. PICK pdrs : pdrs = up[m.s].pdrs
  OBVIOUS
<1>4. pdrs \in Seq(Pdrs)
  BY <1>1, <1>3, UpfSessionTypes DEF Inv
<1> DEFINE Gone(key, iface) == \E i \in DOMAIN pdrs : pdrs[i].iface = iface /\ pdrs[i].key = key
<1>5. /\ ul_n3_teid2pfcp_pdr' = [t \in DOMAIN ul_n3_teid2pfcp_pdr |->
             IF Gone(t, "access") THEN <<>> ELSE ul_n3_teid2pfcp_pdr[t]]
      /\ ue_ipv4_hbo2pfcp_pdr' = [a \in DOMAIN ue_ipv4_hbo2pfcp_pdr |->
             IF Gone(a, "core") THEN <<>> ELSE ue_ipv4_hbo2pfcp_pdr[a]]
  BY <1>1, <1>3 DEF remove_pdrs
<1>6. \A t : Gone(t, "access") => Holds(m.s, t)
  BY <1>3 DEF Holds
<1>7. \A a : Gone(a, "core") => a = smf[m.s].address
  BY <1>1, <1>3 DEF Apart, OwnKeys
<1> HIDE DEF Gone
<1>8. PICK r : r = [dir |-> "response", kind |-> m.kind, s |-> m.s, trxn |-> m.trxn,
                    ok |-> TRUE, teid |-> None]
  OBVIOUS
<1>9. AnsweredBy(m.s, m, r) /\ r.teid = None
  BY <1>1, <1>8 DEF Reply, AnsweredBy
<1>10. PdrsStay
  BY <1>2 DEF PdrsStay, NoSession
<1>11. UplinksStay
  <2> SUFFICES ASSUME NEW t \in Transactions, NEW s \in Sessions, HasUplink(t, s)'
               PROVE  HasUplink(t, s)
    BY DEF UplinksStay
  <2>1. ul_n3_teid2pfcp_pdr'[t] = <<>> \/ ul_n3_teid2pfcp_pdr'[t] = ul_n3_teid2pfcp_pdr[t]
    BY <1>5 DEF Inv, TypeOK
  <2>2. ul_n3_teid2pfcp_pdr'[t] # <<>>
    BY DEF HasUplink
  <2>3. QED
    BY <2>1, <2>2 DEF HasUplink
<1>12. NamesStay
  BY <1>9, AnswerNames
<1>13. UnknownIsEmpty'
  BY <1>1, <1>2 DEF Apart, UnknownIsEmpty
<1>14. Apart'
  BY <1>1, <1>10, <1>11, <1>12, <1>13, StayApart
<1>15. ASSUME NEW s \in Sessions, s # m.s PROVE Elsewhere(s)
  <2>1. Untouched(s)
    BY <1>1, <1>2, <1>9, <1>15 DEF Untouched, AnsweredBy
  <2>2. ASSUME NEW t \in Transactions, Holds(s, t) PROVE ul_n3_teid2pfcp_pdr'[t] = ul_n3_teid2pfcp_pdr[t]
    <3>1. ~Gone(t, "access")
      BY <1>1, <1>6, <1>15, <2>2 DEF Apart, TeidsApart
    <3>2. QED
      BY <1>5, <3>1 DEF Inv, TypeOK
  <2>3. ASSUME smf[s].status \in Alive
        PROVE  ue_ipv4_hbo2pfcp_pdr'[smf[s].address] = ue_ipv4_hbo2pfcp_pdr[smf[s].address]
    <3>1. smf[s].address \in Addresses /\ smf[s].address # NoAddress
      BY <2>3 DEF Inv, Life, Addressed
    <3>2. ~Gone(smf[s].address, "core")
      BY <1>1, <1>7, <1>15, <3>1 DEF Apart, AddressesApart
    <3>3. QED
      BY <1>5, <3>1, <3>2 DEF Inv, TypeOK
  <2>4. smf[s].status \in Alive /\ Alone(s)' => Alone(s)
    BY <1>1, <2>3 DEF Alone
  <2>5. QED
    BY <2>1, <2>2, <2>3, <2>4 DEF Elsewhere, TablesStay
<1>16. Phase(m.s) => Phase(m.s)'
  BY <1>1, DeleteEnds
<1>17. QED
  BY <1>14, <1>15, <1>16

\* A message that goes for nothing leaves everything apart.
LEMMA TakenApart ==
  ASSUME Inv, Apart, NEW m, n4' = n4 \ {m}, UNCHANGED <<upf, smf, trxn>>
  PROVE  Apart'
<1>1. UNCHANGED <<up, ul_n3_teid2pfcp_pdr, ue_ipv4_hbo2pfcp_pdr>>
  BY DEF upf, tables
<1>2. PdrsStay /\ UplinksStay /\ NamesStay
  BY <1>1 DEF PdrsStay, UplinksStay, NamesStay, HasUplink
<1>3. UnknownIsEmpty'
  BY <1>1 DEF Apart, UnknownIsEmpty
<1>4. QED
  BY <1>2, <1>3, StayApart

\* The UPF knows a session of which nothing went wrong.
LEMMA ContextNotFoundApart ==
  ASSUME Inv, Apart, NEW m \in n4, ContextNotFound(m)
  PROVE  /\ Apart' /\ \A s \in Sessions : s # m.s => Elsewhere(s)
         /\ Phase(m.s) => Phase(m.s)'
<1>1. /\ m.dir = "request" /\ m.kind # "create" /\ ~up[m.s].known /\ m.s \in Sessions
      /\ n4' = n4 \ {m}
      /\ UNCHANGED <<amf, gnb, smf, upf, trxn, clean>>
  BY MessageTypes DEF ContextNotFound, Request, Inv
<1>2. Apart'
  BY <1>1, TakenApart
<1>3. ASSUME NEW s \in Sessions, s # m.s PROVE Elsewhere(s)
  BY <1>1, <1>3 DEF Elsewhere, Untouched, TablesStay, Alone, upf, tables
<1>4. ASSUME Phase(m.s) PROVE Phase(m.s)'
  <2>1. ~BeingCreated(m.s, m) /\ ~BeingForwarded(m.s, m) /\ ~BeingReleased(m.s, m) /\ ~BeingActivated(m.s, m)
    BY <1>1 DEF BeingCreated, BeingForwarded, BeingReleased, BeingActivated, Uplinked, NoRulesAnyMore, Empty
  <2>2. Ends(m.s)
    BY <1>1, <1>4, <2>1, PhaseOfMessage
  <2>3. QED
    BY <1>1, <2>2 DEF Ends, Phase
<1>5. QED
  BY <1>2, <1>3, <1>4

-----------------------------------------------------------------------------
(* Rules that change.                                                       *)

\* What an update makes of a PDR where it changes the one at place i of pdrs.
Changed(pdr, pdrs, i, prec) == IF i # 0 /\ pdr = pdrs[i] THEN [pdr EXCEPT !.prec = prec] ELSE pdr

\* What UpdateRules does.
UpdatesAs(m, i, j) ==
    /\ i = Find(up[m.s].pdrs, m.ies.pdr) /\ j = Find(up[m.s].fars, m.ies.far.id)
    /\ up'[m.s].known = up[m.s].known
    /\ up'[m.s].pdrs = IF i = 0 THEN up[m.s].pdrs
                       ELSE [up[m.s].pdrs EXCEPT ![i] = Changed(up[m.s].pdrs[i], up[m.s].pdrs, i, m.ies.prec)]
    /\ up'[m.s].fars = IF j = 0 THEN up[m.s].fars ELSE [up[m.s].fars EXCEPT ![j] = m.ies.far]
    /\ \A s \in Sessions : s # m.s => up'[s] = up[s]
    /\ \A a \in Addresses : ue_ipv4_hbo2pfcp_pdr'[a] =
          [k \in DOMAIN ue_ipv4_hbo2pfcp_pdr[a] |->
             Changed(ue_ipv4_hbo2pfcp_pdr[a][k], up[m.s].pdrs, i, m.ies.prec)]
    /\ \E r : AnsweredBy(m.s, m, r) /\ r.teid = None /\ r.ok = (j # 0)

\* UpdateRules does what UpdatesAs says.
LEMMA UpdateRulesExactly ==
  ASSUME Inv, NEW m \in n4, UpdateRules(m)
  PROVE  /\ \E i, j : UpdatesAs(m, i, j)
         /\ m.s \in Sessions /\ m.dir = "request" /\ m.ies.op = "update" /\ up[m.s].known
         /\ m.ies \in Alterations
         /\ UNCHANGED <<amf, gnb, smf, ul_n3_teid2pfcp_pdr, trxn, clean>>
<1>1. /\ m.s \in Sessions /\ m.dir = "request" /\ m.ies.op = "update" /\ up[m.s].known
      /\ UNCHANGED <<amf, gnb, smf, ul_n3_teid2pfcp_pdr, trxn, clean>>
  BY MessageTypes DEF UpdateRules, Request, Inv
<1>2. up \in [Sessions -> UpfSessions] /\ up[m.s] \in UpfSessions
  BY <1>1 DEF Inv, TypeOK, UpfSessions
<1>3. m.ies \in Alterations
  BY <1>1, MessageTypes DEF Ies, Creations, Alterations, Removals, Deletions, Inv
<1>4. PICK i, j : i = Find(up[m.s].pdrs, m.ies.pdr) /\ j = Find(up[m.s].fars, m.ies.far.id)
  OBVIOUS
<1>5. PICK new : new = [up[m.s] EXCEPT
          !.pdrs = IF i = 0 THEN up[m.s].pdrs
                   ELSE [up[m.s].pdrs EXCEPT ![i] = Changed(up[m.s].pdrs[i], up[m.s].pdrs, i, m.ies.prec)],
          !.fars = IF j = 0 THEN up[m.s].fars ELSE [up[m.s].fars EXCEPT ![j] = m.ies.far]]
  OBVIOUS
<1>6. up' = [up EXCEPT ![m.s] = new] /\ Reply(m, j # 0, None)
  <2>1. Reply(m, j # 0, None)
    BY <1>4 DEF UpdateRules
  <2>2. up' = [up EXCEPT ![m.s] = [up[m.s] EXCEPT
          !.pdrs = IF i = 0 THEN up[m.s].pdrs
                   ELSE [up[m.s].pdrs EXCEPT ![i] = Changed(up[m.s].pdrs[i], up[m.s].pdrs, i, m.ies.prec)],
          !.fars = IF j = 0 THEN up[m.s].fars ELSE [up[m.s].fars EXCEPT ![j] = m.ies.far]]]
    BY <1>4 DEF UpdateRules, Changed
  <2>3. QED
    BY ONLY <1>5, <2>1, <2>2
<1>7. \A a \in Addresses : ue_ipv4_hbo2pfcp_pdr'[a] =
          [k \in DOMAIN ue_ipv4_hbo2pfcp_pdr[a] |->
             Changed(ue_ipv4_hbo2pfcp_pdr[a][k], up[m.s].pdrs, i, m.ies.prec)]
  BY <1>4 DEF UpdateRules, Changed
<1>8. up'[m.s] = new /\ \A s \in Sessions : s # m.s => up'[s] = up[s]
  BY <1>1, <1>2, <1>6
<1>9. /\ new.known = up[m.s].known
      /\ new.pdrs = IF i = 0 THEN up[m.s].pdrs
                    ELSE [up[m.s].pdrs EXCEPT ![i] = Changed(up[m.s].pdrs[i], up[m.s].pdrs, i, m.ies.prec)]
      /\ new.fars = IF j = 0 THEN up[m.s].fars ELSE [up[m.s].fars EXCEPT ![j] = m.ies.far]
  BY <1>2, <1>5 DEF UpfSessions
<1>10. PICK r : r = [dir |-> "response", kind |-> m.kind, s |-> m.s, trxn |-> m.trxn,
                     ok |-> (j # 0), teid |-> None]
  OBVIOUS
<1>11. AnsweredBy(m.s, m, r) /\ r.teid = None /\ r.ok = (j # 0)
  BY <1>6, <1>10 DEF Reply, AnsweredBy
<1>12. UpdatesAs(m, i, j)
  BY <1>4, <1>7, <1>8, <1>9, <1>11 DEF UpdatesAs
<1>13. QED
  BY <1>1, <1>3, <1>12

\* A changed PDR is that session's, at that place of the tables.
LEMMA ChangedStays ==
  ASSUME NEW pdr \in Pdrs, NEW pdrs, NEW i, NEW prec \in Nat
  PROVE  LET new == Changed(pdr, pdrs, i, prec)
         IN  /\ new \in Pdrs /\ new.seid = pdr.seid /\ new.iface = pdr.iface /\ new.key = pdr.key
             /\ new.id = pdr.id /\ new.far = pdr.far /\ new.prec \in {pdr.prec, prec}
BY DEF Changed, Pdrs

\* An update touches no other session.
LEMMA UpdateRulesApart ==
  ASSUME Inv, Apart, NEW m \in n4, UpdateRules(m)
  PROVE  Apart' /\ \A s \in Sessions : s # m.s => Elsewhere(s)
<1>1. /\ m.s \in Sessions /\ up[m.s].known /\ m.ies \in Alterations
      /\ UNCHANGED <<amf, gnb, smf, ul_n3_teid2pfcp_pdr, trxn, clean>>
  BY UpdateRulesExactly
<1>2. PICK i, j : UpdatesAs(m, i, j)
  BY UpdateRulesExactly
<1>3. m.ies.prec \in Nat
  BY <1>1 DEF Alterations
<1>4. PICK r : AnsweredBy(m.s, m, r) /\ r.teid = None
  BY <1>2 DEF UpdatesAs
<1>5. PICK pdrs : pdrs = up[m.s].pdrs
  OBVIOUS
<1>6. pdrs \in Seq(Pdrs)
  BY <1>1, <1>5, UpfSessionTypes DEF Inv
<1>7. i \in {0} \cup DOMAIN pdrs
  BY <1>2, <1>5, <1>6, FindIsPlace DEF UpdatesAs
<1>8. up'[m.s].known /\ \A s \in Sessions : s # m.s => up'[s] = up[s]
  BY <1>1, <1>2 DEF UpdatesAs
<1>9. ASSUME NEW k \in DOMAIN up'[m.s].pdrs
      PROVE  /\ k \in DOMAIN pdrs /\ pdrs[k].seid = up'[m.s].pdrs[k].seid
             /\ pdrs[k].iface = up'[m.s].pdrs[k].iface /\ pdrs[k].key = up'[m.s].pdrs[k].key
  <2>1. CASE i = 0
    BY <1>2, <1>5, <1>9, <2>1 DEF UpdatesAs
  <2>2. CASE i # 0
    <3>1. PICK new : new = Changed(pdrs[i], pdrs, i, m.ies.prec)
      OBVIOUS
    <3>2. up'[m.s].pdrs = [pdrs EXCEPT ![i] = new]
      BY <1>2, <1>5, <2>2, <3>1 DEF UpdatesAs
    <3>3. i \in DOMAIN pdrs /\ pdrs[i] \in Pdrs
      BY <1>6, <1>7, <2>2
    <3>4. new.seid = pdrs[i].seid /\ new.iface = pdrs[i].iface /\ new.key = pdrs[i].key
      BY <1>3, <3>1, <3>3, ChangedStays
    <3>5. QED
      BY <1>9, <3>2, <3>3, <3>4
  <2>3. QED
    BY <2>1, <2>2
<1>10. PdrsStay
  BY <1>1, <1>5, <1>8, <1>9 DEF PdrsStay
<1>11. UplinksStay
  BY <1>1 DEF UplinksStay, HasUplink
<1>12. NamesStay
  BY <1>4, AnswerNames
<1>13. UnknownIsEmpty'
  BY <1>8 DEF Apart, UnknownIsEmpty
<1>14. Apart'
  BY <1>1, <1>10, <1>11, <1>12, <1>13, StayApart
<1>15. ASSUME NEW s \in Sessions, s # m.s PROVE Elsewhere(s)
  <2>1. Untouched(s)
    BY <1>1, <1>4, <1>8, <1>15 DEF Untouched, AnsweredBy
  <2>2. ASSUME smf[s].status \in Alive
        PROVE  ue_ipv4_hbo2pfcp_pdr'[smf[s].address] = ue_ipv4_hbo2pfcp_pdr[smf[s].address]
    <3>1. PICK a, list : a = smf[s].address /\ list = ue_ipv4_hbo2pfcp_pdr[a]
      OBVIOUS
    <3>2. a \in Addresses /\ a # NoAddress
      BY <2>2, <3>1 DEF Inv, Life, Addressed
    <3>3. list \in Seq(Pdrs)
      BY <3>1, <3>2 DEF Inv, TypeOK
    <3>4. \A k \in DOMAIN list : list[k].seid # m.s
      BY <1>1, <1>15, <3>1, <3>2 DEF Inv, Life, OwnEntries, HasEntry, Apart, AddressesApart
    <3>5. i # 0 => pdrs[i].seid = m.s
      BY <1>1, <1>5, <1>7 DEF Apart, OwnKeys
    <3>6. \A k \in DOMAIN list : Changed(list[k], pdrs, i, m.ies.prec) = list[k]
      BY <3>4, <3>5 DEF Changed
    <3>7. ue_ipv4_hbo2pfcp_pdr'[a] = [k \in DOMAIN list |-> Changed(list[k], pdrs, i, m.ies.prec)]
      BY <1>2, <1>5, <3>1, <3>2 DEF UpdatesAs
    <3>8. [k \in DOMAIN list |-> Changed(list[k], pdrs, i, m.ies.prec)] = [k \in DOMAIN list |-> list[k]]
      BY <3>6
    <3>9. [k \in DOMAIN list |-> list[k]] = list
      BY <3>3
    <3>10. QED
      BY ONLY <3>1, <3>7, <3>8, <3>9
  <2>3. smf[s].status \in Alive /\ Alone(s)' => Alone(s)
    BY <1>1, <2>2 DEF Alone
  <2>4. QED
    BY <1>1, <2>1, <2>2, <2>3 DEF Elsewhere, TablesStay
<1>16. QED
  BY <1>14, <1>15

\* The downlink rule with its new tunnel.
LEMMA DownlinkIsUpdated ==
  ASSUME Inv, NEW m \in n4, NEW i, NEW j, UpdatesAs(m, i, j), m.s \in Sessions, m.ies \in Alterations,
         UNCHANGED <<smf, gnb, ul_n3_teid2pfcp_pdr>>, NewTunnel(m.s, m), Addressed,
         smf[m.s].status \in Alive, BothIds(smf[m.s].rules), Within(m.s),
         Uplinked(m.s, smf[m.s].rules, gnb[m.s].ul), Downlinked(m.s, smf[m.s].rules)
  PROVE  /\ j # 0 /\ Uplinked(m.s, smf[m.s].rules, gnb[m.s].ul)' /\ Downlinked(m.s, smf[m.s].rules)'
         /\ up'[m.s].fars[2].to = gnb[m.s].dl /\ Within(m.s)'
<1>1. PICK s, r, a : s = m.s /\ r = smf[s].rules /\ a = smf[s].address
  OBVIOUS
<1>2. m.ies.far = [id |-> r.far_dl, to |-> gnb[s].dl] /\ m.ies.pdr = r.pdr_dl /\ m.ies.prec = smf[s].precedence
  BY <1>1 DEF NewTunnel
<1>3. a \in Addresses /\ s \in Sessions /\ m.ies.prec \in Nat /\ m.ies.far \in Fars
  BY <1>1 DEF Addressed, Alterations
<1>4. PICK p, q : p = up[s].pdrs /\ q = up[s].fars
  OBVIOUS
<1>5. p \in Seq(Pdrs) /\ q \in Seq(Fars)
  BY <1>3, <1>4, UpfSessionTypes DEF Inv
<1>6. Len(p) = 2 /\ Len(q) = 2 /\ DOMAIN p = {1, 2} /\ DOMAIN q = {1, 2} /\ p[1] \in Pdrs /\ p[2] \in Pdrs
  BY <1>1, <1>4, <1>5 DEF Downlinked
<1>7. PICK prec1 \in Nat : p[1] = Pdr(s, r.pdr_ul, prec1, r.far_ul, "access", gnb[s].ul)
  BY <1>1, <1>4 DEF Uplinked
<1>8. PICK prec2 \in Nat : p[2] = Pdr(s, r.pdr_dl, prec2, r.far_dl, "core", a)
  BY <1>1, <1>4 DEF Downlinked
<1>9. p[1].id = r.pdr_ul /\ p[2].id = r.pdr_dl /\ q[1].id = r.far_ul /\ q[2].id = r.far_dl
  BY <1>1, <1>4, <1>7, <1>8 DEF Pdr, Uplinked, Downlinked
<1>10. p[1].id # p[2].id /\ q[1].id # q[2].id
  BY <1>1, <1>9 DEF BothIds
<1>11. i = 2 /\ j = 2
  <2>1. Find(p, p[2].id) = 2
    BY <1>5, <1>6, <1>10, FindOfTwo
  <2>2. Find(q, q[2].id) = 2
    BY <1>5, <1>6, <1>10, FindOfTwo
  <2>3. i = Find(p, p[2].id) /\ j = Find(q, q[2].id)
    BY <1>1, <1>2, <1>4, <1>9 DEF UpdatesAs
  <2>4. QED
    BY <2>1, <2>2, <2>3
<1>12. PICK new : new = Changed(p[2], p, i, m.ies.prec)
  OBVIOUS
<1>13. new = [p[2] EXCEPT !.prec = m.ies.prec]
  BY <1>11, <1>12 DEF Changed
<1>14. new = Pdr(s, r.pdr_dl, smf[s].precedence, r.far_dl, "core", a)
  BY <1>2, <1>8, <1>13 DEF Pdr
<1>15. PICK u : u = up'[s]
  OBVIOUS
<1>16. u.known /\ u.pdrs = [p EXCEPT ![2] = new] /\ u.fars = [q EXCEPT ![2] = m.ies.far]
  <2>1. up[s].known
    BY <1>1 DEF Uplinked
  <2>2. u.known = up[s].known
    BY <1>1, <1>15 DEF UpdatesAs
  <2>3. u.pdrs = [p EXCEPT ![2] = new]
    BY <1>1, <1>4, <1>11, <1>12, <1>15 DEF UpdatesAs
  <2>4. u.fars = [q EXCEPT ![2] = m.ies.far]
    BY <1>1, <1>4, <1>11, <1>15 DEF UpdatesAs
  <2>5. QED
    BY <2>1, <2>2, <2>3, <2>4
<1>17. u.pdrs[1] = p[1] /\ u.pdrs[2] = new /\ u.fars[1] = q[1] /\ u.fars[2] = m.ies.far
  BY <1>6, <1>16
<1>18. Len(u.pdrs) = 2 /\ Len(u.fars) = 2
  BY <1>5, <1>6, <1>16
<1>19. smf'[s] = smf[s] /\ gnb'[s] = gnb[s]
  OBVIOUS
<1>20. Uplinked(s, smf[s].rules, gnb[s].ul)'
  BY <1>1, <1>4, <1>15, <1>16, <1>17, <1>19 DEF Uplinked
<1>21. PICK list : list = ue_ipv4_hbo2pfcp_pdr[a]
  OBVIOUS
<1>22. list \in Seq(Pdrs) /\ \A k \in DOMAIN list : list[k] \in Pdrs
  BY <1>3, <1>21 DEF Inv, TypeOK
<1>23. ue_ipv4_hbo2pfcp_pdr'[a] = [k \in DOMAIN list |-> Changed(list[k], p, i, m.ies.prec)]
  <2>1. ue_ipv4_hbo2pfcp_pdr'[a] = [k \in DOMAIN ue_ipv4_hbo2pfcp_pdr[a] |->
            Changed(ue_ipv4_hbo2pfcp_pdr[a][k], up[m.s].pdrs, i, m.ies.prec)]
    BY <1>3 DEF UpdatesAs
  <2>2. up[m.s].pdrs = p
    BY <1>1, <1>4
  <2>3. QED
    BY ONLY <1>21, <2>1, <2>2, Zenon
<1>24. PICK after : after = ue_ipv4_hbo2pfcp_pdr'[a]
  OBVIOUS
<1>25. /\ DOMAIN after = DOMAIN list
       /\ \A k \in DOMAIN list : after[k] = Changed(list[k], p, i, m.ies.prec)
  BY <1>23, <1>24
<1>26. \A k \in DOMAIN list : /\ after[k].seid = list[k].seid
                              /\ after[k].prec \in {list[k].prec, m.ies.prec} /\ list[k].prec \in Nat
  <2>1. \A k \in DOMAIN list : list[k].prec \in Nat
    BY <1>22 DEF Pdrs
  <2>2. ASSUME NEW k \in DOMAIN list
        PROVE  after[k].seid = list[k].seid /\ after[k].prec \in {list[k].prec, m.ies.prec}
    <3>1. PICK e : e = list[k]
      OBVIOUS
    <3>2. e \in Pdrs /\ after[k] = Changed(e, p, i, m.ies.prec)
      BY <1>22, <1>25, <2>2, <3>1
    <3>3. after[k].seid = e.seid /\ after[k].prec \in {e.prec, m.ies.prec}
      BY <1>3, <3>2, ChangedStays
    <3>4. QED
      BY <3>1, <3>3
  <2>3. QED
    BY <2>1, <2>2
<1>27. Alone(s)' => Alone(s)
  BY <1>1, <1>19, <1>21, <1>24, <1>25, <1>26 DEF Alone
<1>28. smf[s].precedence \in Nat
  BY <1>2, <1>3
<1>29. Within(s)'
  <2> SUFFICES ASSUME Alone(s)', NEW k \in DOMAIN after PROVE after[k].prec <= smf[s].precedence
    BY <1>1, <1>19, <1>24 DEF Within, Downlinks
  <2>1. list[k].prec <= smf[s].precedence
    BY <1>1, <1>21, <1>25, <1>27 DEF Within, Downlinks
  <2>2. QED
    BY <1>2, <1>25, <1>26, <1>28, <2>1
<1>30. Alone(s)' => after # <<>> /\ after[1] = new
  <2> SUFFICES ASSUME Alone(s)' PROVE after # <<>> /\ after[1] = new
    OBVIOUS
  <2>1. list # <<>> /\ list[1] = p[2]
    BY <1>1, <1>4, <1>21, <1>27 DEF Downlinked, Downlinks
  <2>2. 1 \in DOMAIN list
    BY <1>22, <2>1
  <2>3. after[1] = Changed(list[1], p, i, m.ies.prec)
    BY <1>25, <2>2
  <2>4. QED
    BY <1>12, <1>25, <2>1, <2>2, <2>3
<1>31. Downlinked(s, smf[s].rules)'
  <2>1. Downlinks(s)' = after
    BY <1>1, <1>19, <1>24 DEF Downlinks
  <2>2. u.fars[2].id = r.far_dl
    BY <1>2, <1>17
  <2>3. QED
    BY <1>1, <1>14, <1>15, <1>17, <1>18, <1>19, <1>28, <1>30, <2>1, <2>2 DEF Downlinked
<1>32. QED
  BY <1>1, <1>2, <1>11, <1>15, <1>17, <1>20, <1>29, <1>31

\* A session that is handed over goes on.
LEMMA UpdateRulesGoesOn ==
  ASSUME Inv, Apart, NEW m \in n4, UpdateRules(m), Phase(m.s)
  PROVE  Phase(m.s)'
<1>1. /\ m.s \in Sessions /\ m.dir = "request" /\ m.ies.op = "update" /\ m.ies \in Alterations
      /\ UNCHANGED <<amf, gnb, smf, ul_n3_teid2pfcp_pdr, trxn, clean>>
  BY UpdateRulesExactly
<1>2. PICK s : s = m.s
  OBVIOUS
<1>3. amf'[s] = amf[s] /\ gnb'[s] = gnb[s] /\ smf'[s] = smf[s]
  BY <1>1
<1>4. CASE BeingForwarded(s, m)
  <2>1. PICK i, j : UpdatesAs(m, i, j)
    BY UpdateRulesExactly
  <2>2. PICK r : AnsweredBy(m.s, m, r) /\ r.ok = (j # 0)
    BY <2>1 DEF UpdatesAs
  <2>3. OnlyMessage(s, m) /\ Waiting(s, m) /\ smf[s].status \in Alive
    BY <1>4 DEF BeingForwarded, Waiting, Alive
  <2>4. NewTunnel(s, m) /\ Downlinked(s, smf[s].rules) /\ BothIds(smf[s].rules) /\ Within(s)
        /\ Uplinked(s, smf[s].rules, gnb[s].ul)
    BY <1>1, <1>4 DEF BeingForwarded, NewDownlink
  <2>5. /\ j # 0 /\ Uplinked(s, smf[s].rules, gnb[s].ul)' /\ Downlinked(s, smf[s].rules)'
        /\ up'[s].fars[2].to = gnb[s].dl /\ Within(s)'
    BY <1>1, <1>2, <2>1, <2>3, <2>4, DownlinkIsUpdated DEF Inv, Life
  <2>6. OnlyMessage(s, r)' /\ r \in n4'
    BY <1>2, <2>2, <2>3, AnswerIsAlone
  <2>7. r.dir = "response" /\ r.kind = m.kind /\ r.trxn = m.trxn
    BY <2>2 DEF AnsweredBy
  <2>8. Waiting(s, r)'
    BY <1>3, <2>3, <2>6, <2>7 DEF Waiting
  <2>9. BeingForwarded(s, r)'
    BY <1>3, <1>4, <2>2, <2>5, <2>7, <2>8 DEF BeingForwarded
  <2>10. QED
    BY <1>2, <2>6, <2>9 DEF Phase
<1>5. CASE Ends(s)
  BY <1>2, <1>3, <1>5 DEF Ends, Phase
<1>6. ~BeingCreated(s, m)
  BY <1>1 DEF BeingCreated, NewUplink
<1>7. ~BeingReleased(s, m)
  BY <1>1 DEF BeingReleased, NoRulesAnyMore
<1>8. ~BeingActivated(s, m)
  BY <1>1 DEF BeingActivated, NewUplink
<1>9. QED
  BY <1>1, <1>2, <1>4, <1>5, <1>6, <1>7, <1>8, PhaseOfMessage

-----------------------------------------------------------------------------
(* A step of one session's contexts.                                        *)

\* No uplink id is of a later transaction.
Drawn == \A s \in Sessions : smf[s].rules.far_ul <= trxn /\ smf[s].rules.pdr_ul <= trxn

\* The contexts and messages of the session x may change, and the UPF does nothing.
Confined(x) ==
    /\ UNCHANGED upf /\ clean' \subseteq clean
    /\ \A s \in Sessions : s # x => amf'[s] = amf[s] /\ gnb'[s] = gnb[s] /\ smf'[s] = smf[s]
    /\ \A m \in n4 : m.s # x => m \in n4'
    /\ \A m \in n4' : m.s # x => m \in n4

\* And what x gets is its own, or new.
Regular(x) ==
    /\ Confined(x) /\ trxn' \in {trxn, trxn + 1}
    /\ smf'[x].rules.far_ul \in {smf[x].rules.far_ul, None, trxn'}
    /\ smf'[x].rules.pdr_ul \in {smf[x].rules.pdr_ul, None, trxn'}
    /\ \/ smf'[x].address = smf[x].address
       \/ ~up[x].known /\ smf'[x].address = NoAddress
       \/ ~up[x].known /\ \A s \in Sessions : smf'[x].address # smf[s].address
    /\ \A t \in Transactions : smf'[x].rules.ul_fteid = t => Holds(x, t)
    /\ \A o \in n4' : \/ o \in n4
                      \/ o.s = x /\ \A t \in Transactions : Names(o, t) =>
                                        Holds(x, t) \/ (trxn' = trxn + 1 /\ t = trxn + 1)

\* Then sessions stay apart, and the others what they are.
LEMMA RegularApart ==
  ASSUME Inv, Apart, Drawn, NEW x \in Sessions, Regular(x)
  PROVE  Apart' /\ Drawn' /\ \A s \in Sessions : s # x => Elsewhere(s)
<1>1. /\ UNCHANGED <<up, ul_n3_teid2pfcp_pdr, ue_ipv4_hbo2pfcp_pdr>> /\ clean' \subseteq clean
      /\ \A s \in Sessions : s # x => amf'[s] = amf[s] /\ gnb'[s] = gnb[s] /\ smf'[s] = smf[s]
      /\ \A m \in n4 : m.s # x => m \in n4'
      /\ \A m \in n4' : m.s # x => m \in n4
  BY DEF Regular, Confined, upf, tables
<1>2. trxn \in Nat /\ trxn' \in {trxn, trxn + 1}
  BY DEF Regular, Inv, TypeOK, Id, Transactions, None
<1>3. UnknownIsEmpty'
  BY <1>1 DEF Apart, UnknownIsEmpty
<1>4. \A s \in Sessions : up[s].known => smf'[s].address = smf[s].address
  BY <1>1 DEF Regular
<1>5. OwnKeys'
  BY <1>1, <1>4 DEF Apart, OwnKeys
<1>6. AddressesApart'
  <2> SUFFICES ASSUME NEW s \in Sessions, NEW r \in Sessions,
                      smf'[s].address = smf'[r].address, smf'[s].address # NoAddress
               PROVE  s = r
    BY DEF AddressesApart
  <2>1. \/ smf'[x].address = smf[x].address
        \/ smf'[x].address = NoAddress
        \/ \A y \in Sessions : smf'[x].address # smf[y].address
    BY DEF Regular
  <2>2. CASE s # x /\ r # x
    BY <1>1, <2>2 DEF Apart, AddressesApart
  <2>3. CASE s = x /\ r # x
    BY <1>1, <2>1, <2>3 DEF Apart, AddressesApart
  <2>4. CASE s # x /\ r = x
    BY <1>1, <2>1, <2>4 DEF Apart, AddressesApart
  <2>5. QED
    BY <2>2, <2>3, <2>4
<1>7. Draws(x)
  <2> SUFFICES ASSUME NEW s \in Sessions, NEW t \in Transactions, Holds(s, t)'
               PROVE  Holds(s, t) \/ (s = x /\ trxn' = trxn + 1 /\ t = trxn + 1)
    BY DEF Draws
  <2>1. CASE HasUplink(t, s)'
    BY <1>1, <2>1 DEF HasUplink, Holds
  <2>2. CASE smf'[s].rules.ul_fteid = t
    BY <1>1, <2>2 DEF Holds, Regular
  <2>3. CASE \E i \in DOMAIN up'[s].pdrs : up'[s].pdrs[i].iface = "access" /\ up'[s].pdrs[i].key = t
    BY <1>1, <2>3 DEF Holds
  <2>4. CASE \E o \in n4' : o.s = s /\ Names(o, t)
    BY <2>4 DEF Holds, Regular
  <2>5. QED
    BY <2>1, <2>2, <2>3, <2>4 DEF Holds, Names
<1>8. Apart'
  BY <1>2, <1>3, <1>5, <1>6, <1>7, TeidsStayApart DEF Apart
<1>9. Drawn'
  <2> SUFFICES ASSUME NEW s \in Sessions
               PROVE  smf'[s].rules.far_ul <= trxn' /\ smf'[s].rules.pdr_ul <= trxn'
    BY DEF Drawn
  <2>1. smf[s].rules.far_ul \in Nat /\ smf[s].rules.pdr_ul \in Nat
    BY SessionTypes DEF Inv, Rules, Id, Transactions, None
  <2>2. smf[s].rules.far_ul <= trxn /\ smf[s].rules.pdr_ul <= trxn
    BY DEF Drawn
  <2>3. CASE s # x
    BY <1>1, <1>2, <2>1, <2>2, <2>3
  <2>4. CASE s = x
    BY <1>2, <2>1, <2>2, <2>4 DEF Regular, None
  <2>5. QED
    BY <2>3, <2>4
<1>10. ASSUME NEW s \in Sessions, s # x PROVE Elsewhere(s)
  <2>1. Untouched(s)
    BY <1>1, <1>10 DEF Untouched
  <2>2. TablesStay(s)
    BY <1>1, <1>10 DEF TablesStay, Alone
  <2>3. QED
    BY <2>1, <2>2 DEF Elsewhere
<1>11. QED
  BY <1>8, <1>9, <1>10

\* A request that was sent.
Sent(s, kind, ies, o) ==
    /\ o.dir = "request" /\ o.kind = kind /\ o.s = s /\ o.trxn = trxn + 1 /\ o.ies = ies
    /\ n4' = n4 \cup {o} /\ trxn' = trxn + 1 /\ trxn + 1 \in Transactions

\* Send sends it.
LEMMA SendExactly ==
  ASSUME Inv, NEW s, NEW kind, NEW ies, Send(s, kind, ies)
  PROVE  \E o : Sent(s, kind, ies, o)
<1>1. trxn' = trxn + 1 /\ trxn + 1 \in Transactions
  BY DEF Send, Inv, TypeOK, Id, Transactions, None
<1>2. PICK o : o = [dir |-> "request", kind |-> kind, s |-> s, trxn |-> trxn', ies |-> ies]
  OBVIOUS
<1>3. Sent(s, kind, ies, o)
  BY <1>1, <1>2 DEF Send, Sent
<1>4. QED
  BY <1>3

\* It names its transaction and the TEID of its PDR.
LEMMA SentNames ==
  ASSUME NEW s, NEW kind, NEW ies, NEW o, Sent(s, kind, ies, o),
         ies.op = "create" /\ ies.pdr.iface = "access"
           => ies.pdr.key = None \/ \A t \in Transactions : ies.pdr.key = t => Holds(s, t)
  PROVE  \A x \in n4' : \/ x \in n4
                        \/ x.s = s /\ \A t \in Transactions : Names(x, t) =>
                                        Holds(s, t) \/ (trxn' = trxn + 1 /\ t = trxn + 1)
BY DEF Sent, Names, Transactions, None

\* The table has nothing for the next transaction's TEID.
LEMMA FreshTeid ==
  ASSUME Inv, Apart, trxn + 1 \in Transactions
  PROVE  ul_n3_teid2pfcp_pdr[trxn + 1] = <<>>
<1>1. PICK list, t : list = ul_n3_teid2pfcp_pdr[t] /\ t = trxn + 1
  OBVIOUS
<1>2. list \in Seq(Pdrs) /\ t \in Transactions /\ trxn \in Nat
  BY <1>1 DEF Inv, TypeOK, Id, Transactions, None
<1>3. ASSUME list # <<>> PROVE FALSE
  <2>1. 1 \in DOMAIN list /\ list[1] \in Pdrs
    BY <1>2, <1>3
  <2>2. list[1].seid \in Sessions
    BY <2>1 DEF Pdrs
  <2>3. Holds(list[1].seid, t)
    BY <1>1, <2>1 DEF Holds, HasUplink
  <2>4. t <= trxn
    BY <1>2, <2>2, <2>3 DEF Apart, TeidsApart
  <2>5. QED
    BY <1>1, <1>2, <2>4
<1>4. QED
  BY <1>1, <1>3

\* What the UPF has of a session it has still when it does nothing.
LEMMA UpfQuiet ==
  ASSUME NEW s, UNCHANGED upf, smf'[s].address = smf[s].address
  PROVE  /\ Alone(s)' = Alone(s) /\ Downlinks(s)' = Downlinks(s) /\ up'[s] = up[s]
         /\ Empty(s)' = Empty(s) /\ OnlyUplink(s)' = OnlyUplink(s)
         /\ \A r, q, t : Uplinked(s, r, t) /\ q.pdr_ul = r.pdr_ul /\ q.far_ul = r.far_ul => Uplinked(s, q, t)'
         /\ \A r, q : Downlinked(s, r) /\ q.pdr_dl = r.pdr_dl /\ q.far_dl = r.far_dl => Downlinked(s, q)'
         /\ smf'[s].precedence = smf[s].precedence =>
              Within(s)' = Within(s) /\ Below(s)' = Below(s)
<1>1. UNCHANGED <<up, ul_n3_teid2pfcp_pdr, ue_ipv4_hbo2pfcp_pdr>>
  BY DEF upf, tables
<1>2. Alone(s)' = Alone(s) /\ Downlinks(s)' = Downlinks(s) /\ up'[s] = up[s]
  BY <1>1 DEF Alone, Downlinks
<1>3. Empty(s)' = Empty(s) /\ OnlyUplink(s)' = OnlyUplink(s)
  BY <1>1 DEF Empty, OnlyUplink
<1>4. ASSUME NEW r, NEW q, NEW t, Uplinked(s, r, t), q.pdr_ul = r.pdr_ul, q.far_ul = r.far_ul
      PROVE  Uplinked(s, q, t)'
  BY <1>1, <1>4 DEF Uplinked
<1>5. ASSUME NEW r, NEW q, Downlinked(s, r), q.pdr_dl = r.pdr_dl, q.far_dl = r.far_dl
      PROVE  Downlinked(s, q)'
  BY <1>2, <1>5 DEF Downlinked
<1>6. ASSUME smf'[s].precedence = smf[s].precedence PROVE Within(s)' = Within(s) /\ Below(s)' = Below(s)
  BY <1>2, <1>6 DEF Within, Below
<1>7. QED
  BY <1>2, <1>3, <1>4, <1>5, <1>6

\* A session that is ready has no message.
LEMMA PhaseOfReady ==
  ASSUME NEW s, Phase(s), Ready(s)
  PROVE  Asked(s) \/ Connected(s) \/ Idle(s)
<1>1. smf[s].status = "up" /\ amf[s].awaits = "nothing" /\ amf[s].awaits \notin Updates
  BY DEF Ready, Updates
<1>2. ~NotYet(s) /\ ~Ends(s)
  BY <1>1 DEF NotYet, Ends
<1>3. \A m \in n4 : ~BeingCreated(s, m)
  BY <1>1 DEF BeingCreated
<1>4. \A m \in n4 : ~BeingForwarded(s, m) /\ ~BeingReleased(s, m) /\ ~BeingActivated(s, m)
  BY <1>1 DEF BeingForwarded, BeingReleased, BeingActivated, Waiting
<1>5. QED
  BY <1>2, <1>3, <1>4 DEF Phase

-----------------------------------------------------------------------------
(* The procedures.                                                          *)

\* A session is created at an address that no other has, with new ids.
LEMMA CreateSmContextExactly ==
  ASSUME Inv, NEW s \in Sessions, CreateSmContext(s)
  PROVE  /\ \E o, ies :
              /\ Sent(s, "create", ies, o)
              /\ ies = [op |-> "create", far |-> [id |-> trxn + 1, to |-> Core],
                        pdr |-> Pdr(s, trxn + 1, smf[s].precedence, trxn + 1, "access", None)]
         /\ smf[s].status = "none" /\ smf'[s].status = "creating"
         /\ smf'[s].address \in Addresses /\ \A r \in Sessions : smf'[s].address # smf[r].address
         /\ smf'[s].precedence = smf[s].precedence
         /\ smf'[s].rules = [far_ul |-> trxn + 1, far_dl |-> None, pdr_ul |-> trxn + 1, pdr_dl |-> None,
                             ul_fteid |-> None]
         /\ \A r \in Sessions : r # s => smf'[r] = smf[r]
         /\ UNCHANGED <<amf, gnb, upf, clean>>
<1>1. PICK rules : rules = [NoRules EXCEPT !.far_ul = trxn + 1, !.pdr_ul = trxn + 1]
  OBVIOUS
<1>2. PICK ies : ies = pfcp_create(s, rules, smf[s].precedence, "access", None, Core)
  OBVIOUS
<1>3. /\ smf[s].status = "none" /\ Send(s, "create", ies)
      /\ UNCHANGED <<amf, gnb, upf, clean>>
  BY <1>1, <1>2 DEF CreateSmContext
<1>4. PICK a \in Addresses \ {smf[r].address : r \in Sessions} :
        smf' = [smf EXCEPT ![s] = [smf[s] EXCEPT !.status = "creating", !.address = a, !.rules = rules]]
  BY <1>1 DEF CreateSmContext
<1>5. PICK c : c = [smf[s] EXCEPT !.status = "creating", !.address = a, !.rules = rules]
  OBVIOUS
<1>6. c.status = "creating" /\ c.address = a /\ c.rules = rules /\ c.precedence = smf[s].precedence
  BY <1>5, SessionTypes DEF SmfContexts, Inv
<1>7. smf'[s] = c /\ \A r \in Sessions : r # s => smf'[r] = smf[r]
  BY <1>4, <1>5 DEF Inv, TypeOK
<1>8. rules = [far_ul |-> trxn + 1, far_dl |-> None, pdr_ul |-> trxn + 1, pdr_dl |-> None, ul_fteid |-> None]
  BY <1>1 DEF NoRules
<1>9. ies = [op |-> "create", far |-> [id |-> trxn + 1, to |-> Core],
             pdr |-> Pdr(s, trxn + 1, smf[s].precedence, trxn + 1, "access", None)]
  BY <1>2, <1>8 DEF pfcp_create
<1>10. \E o : Sent(s, "create", ies, o)
  BY <1>3, SendExactly
<1>11. a \in Addresses /\ \A r \in Sessions : a # smf[r].address
  BY <1>4
<1>12. QED
  BY <1>3, <1>6, <1>7, <1>8, <1>9, <1>10, <1>11

\* Nothing that another session has.
LEMMA CreateSmContextRegular ==
  ASSUME Inv, Apart, NEW s \in Sessions, CreateSmContext(s)
  PROVE  Regular(s)
<1>1. PICK o, ies :
        /\ Sent(s, "create", ies, o)
        /\ ies = [op |-> "create", far |-> [id |-> trxn + 1, to |-> Core],
                  pdr |-> Pdr(s, trxn + 1, smf[s].precedence, trxn + 1, "access", None)]
  BY CreateSmContextExactly
<1>2. /\ smf[s].status = "none"
      /\ \A r \in Sessions : smf'[s].address # smf[r].address
      /\ smf'[s].rules = [far_ul |-> trxn + 1, far_dl |-> None, pdr_ul |-> trxn + 1, pdr_dl |-> None,
                          ul_fteid |-> None]
      /\ \A r \in Sessions : r # s => smf'[r] = smf[r]
      /\ UNCHANGED <<amf, gnb, upf, clean>>
  BY CreateSmContextExactly
<1>3. ies.pdr.key = None
  BY <1>1 DEF Pdr
<1>4. Confined(s)
  BY <1>1, <1>2 DEF Confined, Sent
<1>5. ~up[s].known
  BY <1>2 DEF Inv, Life, Unborn
<1>6. trxn' = trxn + 1
  BY <1>1 DEF Sent
<1>7. \A x \in n4' : \/ x \in n4
                     \/ x.s = s /\ \A t \in Transactions : Names(x, t) =>
                                     Holds(s, t) \/ (trxn' = trxn + 1 /\ t = trxn + 1)
  BY <1>1, <1>3, SentNames
<1>8. smf'[s].rules.far_ul = trxn' /\ smf'[s].rules.pdr_ul = trxn' /\ smf'[s].rules.ul_fteid = None
  BY <1>2, <1>6
<1>9. \A t \in Transactions : smf'[s].rules.ul_fteid # t
  BY <1>8 DEF Transactions, None
<1>10. QED
  BY <1>2, <1>4, <1>5, <1>6, <1>7, <1>8, <1>9 DEF Regular

\* It is being created then.
LEMMA CreateSmContextGoesOn ==
  ASSUME Inv, Apart, NEW s \in Sessions, CreateSmContext(s), Phase(s)
  PROVE  Phase(s)'
<1>1. PICK o, ies :
        /\ Sent(s, "create", ies, o)
        /\ ies = [op |-> "create", far |-> [id |-> trxn + 1, to |-> Core],
                  pdr |-> Pdr(s, trxn + 1, smf[s].precedence, trxn + 1, "access", None)]
  BY CreateSmContextExactly
<1>2. /\ smf[s].status = "none" /\ smf'[s].status = "creating" /\ smf'[s].address \in Addresses
      /\ smf'[s].precedence = smf[s].precedence
      /\ smf'[s].rules = [far_ul |-> trxn + 1, far_dl |-> None, pdr_ul |-> trxn + 1, pdr_dl |-> None,
                          ul_fteid |-> None]
      /\ UNCHANGED <<amf, gnb, upf, clean>>
  BY CreateSmContextExactly
<1>3. Unknowing(s)
  BY <1>2 DEF Phase, NotYet, Asked, Connected, Idle, Ends, Ready, BeingCreated, BeingForwarded,
              BeingReleased, BeingActivated, Waiting
<1>4. ~up[s].known /\ NoEntry(s) /\ NoMessage(s)
  BY <1>2 DEF Inv, Life, Unborn, NoMessage
<1>5. UNCHANGED <<up, ul_n3_teid2pfcp_pdr, ue_ipv4_hbo2pfcp_pdr>>
  BY <1>2 DEF upf, tables
<1>6. o.dir = "request" /\ o.kind = "create" /\ o.s = s /\ o.trxn = trxn + 1 /\ o.ies = ies
      /\ n4' = n4 \cup {o} /\ trxn + 1 \in Transactions
  BY <1>1 DEF Sent
<1>7. OnlyMessage(s, o)' /\ o \in n4'
  BY <1>4, <1>6 DEF OnlyMessage, NoMessage
<1>8. PICK r : r = smf'[s].rules
  OBVIOUS
<1>9. r.far_ul = trxn + 1 /\ r.pdr_ul = trxn + 1 /\ r.far_dl = None /\ r.pdr_dl = None /\ r.ul_fteid = None
  BY <1>2, <1>8
<1>10. trxn + 1 # None
  BY <1>6 DEF Transactions, None
<1>11. UplinkIds(r)
  BY <1>9, <1>10 DEF UplinkIds
<1>12. Unknowing(s)'
  BY <1>2, <1>3, <1>8, <1>9 DEF Unknowing
<1>13. Below(s)'
  <2>1. \A k \in DOMAIN ue_ipv4_hbo2pfcp_pdr[smf'[s].address] :
           ue_ipv4_hbo2pfcp_pdr[smf'[s].address][k].seid # s
    BY <1>2, <1>4 DEF NoEntry, HasEntry
  <2>2. QED
    BY <1>5, <2>1 DEF Below, Alone, Downlinks
<1>14. NewUplink(s, o)'
  <2>1. ul_n3_teid2pfcp_pdr'[o.trxn] = <<>>
    BY <1>5, <1>6, FreshTeid
  <2>2. smf[s].precedence \in Nat
    BY SessionTypes DEF Inv, SmfContexts
  <2>3. o.ies.op = "create" /\ o.ies.far = [id |-> r.far_ul, to |-> Core]
        /\ o.ies.pdr = Pdr(s, r.pdr_ul, smf[s].precedence, r.far_ul, "access", None)
    BY <1>1, <1>6, <1>9
  <2>4. QED
    BY <1>8, <2>1, <2>2, <2>3 DEF NewUplink
<1>15. BeingCreated(s, o)'
  <2>1. ~up'[s].known
    BY <1>4, <1>5
  <2>2. QED
    BY <1>2, <1>6, <1>7, <1>8, <1>11, <1>12, <1>13, <1>14, <2>1 DEF BeingCreated
<1>16. QED
  BY <1>7, <1>15 DEF Phase

\* The answer to an establishment.
LEMMA CreationAnswerExactly ==
  ASSUME Inv, NEW m \in n4, CreationAnswer(m)
  PROVE  /\ m.dir = "response" /\ m.kind = "create" /\ m.s \in Sessions
         /\ smf'[m.s].status = "up" /\ smf'[m.s].address = smf[m.s].address
         /\ smf'[m.s].precedence = smf[m.s].precedence
         /\ smf'[m.s].rules = [smf[m.s].rules EXCEPT !.ul_fteid = m.teid]
         /\ amf'[m.s].awaits = amf[m.s].awaits
         /\ gnb'[m.s].asked = TRUE /\ gnb'[m.s].ul = m.teid /\ gnb'[m.s].dl = None
         /\ \A s \in Sessions : s # m.s => amf'[s] = amf[s] /\ gnb'[s] = gnb[s] /\ smf'[s] = smf[s]
         /\ n4' = n4 \ {m}
         /\ UNCHANGED <<upf, trxn, clean>>
<1>1. /\ m.dir = "response" /\ m.kind = "create"
      /\ smf' = [smf EXCEPT ![m.s] = [smf[m.s] EXCEPT !.status = "up", !.rules.ul_fteid = m.teid]]
      /\ amf' = [amf EXCEPT ![m.s].n2sm = m.teid]
      /\ gnb' = [gnb EXCEPT ![m.s] = [NoTunnel EXCEPT !.asked = TRUE, !.ul = m.teid]]
      /\ n4' = n4 \ {m}
      /\ UNCHANGED <<upf, trxn, clean>>
  BY DEF CreationAnswer, Response
<1>2. m.s \in Sessions
  BY MessageTypes DEF Inv
<1>3. PICK rules : rules = [smf[m.s].rules EXCEPT !.ul_fteid = m.teid]
  OBVIOUS
<1>4. PICK c : c = [smf[m.s] EXCEPT !.status = "up", !.rules.ul_fteid = m.teid]
  OBVIOUS
<1>5. c.status = "up" /\ c.address = smf[m.s].address /\ c.rules = rules /\ c.precedence = smf[m.s].precedence
  BY <1>2, <1>3, <1>4, SessionTypes DEF SmfContexts, Inv
<1>6. PICK g : g = [NoTunnel EXCEPT !.asked = TRUE, !.ul = m.teid]
  OBVIOUS
<1>7. g.asked = TRUE /\ g.ul = m.teid /\ g.dl = None
  BY <1>6 DEF NoTunnel
<1>8. smf'[m.s] = c /\ gnb'[m.s] = g
  BY <1>1, <1>2, <1>4, <1>6 DEF Inv, TypeOK
<1>9. amf'[m.s].awaits = amf[m.s].awaits
  BY <1>1, <1>2, SessionTypes DEF Inv, TypeOK, AmfContexts
<1>10. \A s \in Sessions : s # m.s => amf'[s] = amf[s] /\ gnb'[s] = gnb[s] /\ smf'[s] = smf[s]
  BY <1>1, <1>2 DEF Inv, TypeOK
<1>11. QED
  BY <1>1, <1>2, <1>3, <1>5, <1>7, <1>8, <1>9, <1>10

\* The TEID is one that the session held in the answer.
LEMMA CreationAnswerRegular ==
  ASSUME Inv, Apart, NEW m \in n4, CreationAnswer(m)
  PROVE  m.s \in Sessions /\ Regular(m.s)
<1>1. /\ m.dir = "response" /\ m.kind = "create" /\ m.s \in Sessions
      /\ smf'[m.s].address = smf[m.s].address
      /\ smf'[m.s].rules = [smf[m.s].rules EXCEPT !.ul_fteid = m.teid]
      /\ \A s \in Sessions : s # m.s => amf'[s] = amf[s] /\ gnb'[s] = gnb[s] /\ smf'[s] = smf[s]
      /\ n4' = n4 \ {m}
      /\ UNCHANGED <<upf, trxn, clean>>
  BY CreationAnswerExactly
<1>2. /\ smf'[m.s].rules.ul_fteid = m.teid
      /\ smf'[m.s].rules.far_ul = smf[m.s].rules.far_ul /\ smf'[m.s].rules.pdr_ul = smf[m.s].rules.pdr_ul
  BY <1>1, SessionTypes DEF Inv, Rules
<1>3. \A t \in Transactions : m.teid = t => Holds(m.s, t)
  BY <1>1 DEF Holds, Names
<1>4. Confined(m.s)
  BY <1>1 DEF Confined
<1>5. QED
  BY <1>1, <1>2, <1>3, <1>4 DEF Regular

\* The gNB is asked for the tunnel of the session's only rule.
LEMMA CreationAnswerGoesOn ==
  ASSUME Inv, Apart, NEW m \in n4, CreationAnswer(m), Phase(m.s)
  PROVE  Phase(m.s)'
<1>1. /\ m.dir = "response" /\ m.kind = "create" /\ m.s \in Sessions
      /\ smf'[m.s].status = "up" /\ smf'[m.s].address = smf[m.s].address
      /\ smf'[m.s].precedence = smf[m.s].precedence
      /\ smf'[m.s].rules = [smf[m.s].rules EXCEPT !.ul_fteid = m.teid]
      /\ amf'[m.s].awaits = amf[m.s].awaits
      /\ gnb'[m.s].asked = TRUE /\ gnb'[m.s].ul = m.teid /\ gnb'[m.s].dl = None
      /\ n4' = n4 \ {m}
      /\ UNCHANGED <<upf, trxn, clean>>
  BY CreationAnswerExactly
<1>2. PICK s, r, q : s = m.s /\ r = smf[s].rules /\ q = smf'[s].rules
  OBVIOUS
<1>3. q.far_ul = r.far_ul /\ q.pdr_ul = r.pdr_ul /\ q.far_dl = r.far_dl /\ q.pdr_dl = r.pdr_dl
  BY <1>1, <1>2, SessionTypes DEF Inv, Rules
<1>4. BeingCreated(s, m)
  <2>1. ~Ends(s)
    BY <1>1, <1>2 DEF Ends, Inv, Life, Creating
  <2>2. ~BeingForwarded(s, m) /\ ~BeingReleased(s, m) /\ ~BeingActivated(s, m)
    BY <1>1 DEF BeingForwarded, BeingReleased, BeingActivated
  <2>3. QED
    BY <1>1, <1>2, <2>1, <2>2, PhaseOfMessage
<1>5. Uplinked(s, r, m.teid) /\ OnlyUplink(s) /\ Below(s) /\ UplinkIds(r) /\ Unknowing(s) /\ OnlyMessage(s, m)
  BY <1>1, <1>2, <1>4 DEF BeingCreated
<1>6. Uplinked(s, q, m.teid)' /\ OnlyUplink(s)' /\ Below(s)'
  BY <1>1, <1>2, <1>3, <1>5, UpfQuiet
<1>7. UplinkIds(q)
  BY <1>3, <1>5 DEF UplinkIds
<1>8. NoMessage(s)'
  BY <1>1, <1>5 DEF OnlyMessage, NoMessage
<1>9. Ready(s)'
  BY <1>1, <1>2, <1>5 DEF Ready, Unknowing
<1>10. Asked(s)'
  BY <1>1, <1>2, <1>6, <1>7, <1>8, <1>9 DEF Asked
<1>11. QED
  BY <1>2, <1>10 DEF Phase

-----------------------------------------------------------------------------
(* The procedures of a session that is up.                                  *)

\* What the procedures do to a session's contexts.
LEMMA ForwardDownlinkExactly ==
  ASSUME Inv, NEW s \in Sessions, NEW kind, ForwardDownlink(s, kind)
  PROVE  /\ \E o, ies :
              /\ Sent(s, kind, ies, o)
              /\ ies = IF kind # "step 2" /\ smf[s].rules.far_dl # None
                       THEN [op |-> "update", far |-> [id |-> smf[s].rules.far_dl, to |-> trxn + 1],
                             pdr |-> smf[s].rules.pdr_dl, prec |-> smf[s].precedence]
                       ELSE [op |-> "create", far |-> [id |-> smf'[s].rules.far_dl, to |-> trxn + 1],
                             pdr |-> Pdr(s, smf'[s].rules.pdr_dl, smf[s].precedence, smf'[s].rules.far_dl,
                                         "core", smf[s].address)]
         /\ smf'[s].status = smf[s].status /\ smf'[s].address = smf[s].address
         /\ smf'[s].precedence = smf[s].precedence
         /\ smf'[s].rules = [smf[s].rules EXCEPT !.far_dl = Generate(smf[s].rules.far_dl),
                                                 !.pdr_dl = Generate(smf[s].rules.pdr_dl)]
         /\ amf'[s].awaits = kind /\ amf'[s].trxn = trxn + 1 /\ amf'[s].cnx = amf[s].cnx
         /\ gnb'[s].asked = FALSE /\ gnb'[s].ul = gnb[s].ul /\ gnb'[s].dl = trxn + 1
         /\ \A r \in Sessions : r # s => amf'[r] = amf[r] /\ gnb'[r] = gnb[r] /\ smf'[r] = smf[r]
         /\ UNCHANGED <<upf, clean>>
<1>1. PICK old : old = smf[s].rules
  OBVIOUS
<1>2. PICK prec : prec = smf[s].precedence
  OBVIOUS
<1>3. PICK new : new = [old EXCEPT !.far_dl = Generate(old.far_dl), !.pdr_dl = Generate(old.pdr_dl)]
  OBVIOUS
<1>4. PICK ies : ies = IF kind # "step 2" /\ old.far_dl # None
                       THEN [op |-> "update", far |-> [id |-> old.far_dl, to |-> trxn + 1],
                             pdr |-> old.pdr_dl, prec |-> prec]
                       ELSE pfcp_create(s, new, prec, "core", smf[s].address, trxn + 1)
  OBVIOUS
<1>5. /\ smf' = [smf EXCEPT ![s].rules = new]
      /\ Send(s, kind, ies)
      /\ gnb' = [gnb EXCEPT ![s] = [gnb[s] EXCEPT !.asked = FALSE, !.dl = trxn + 1]]
      /\ Awaits(s, kind)
      /\ UNCHANGED <<upf, clean>>
  BY <1>1, <1>2, <1>3, <1>4 DEF ForwardDownlink
<1>6. PICK c, g, a :
        /\ c = [smf[s] EXCEPT !.rules = new]
        /\ g = [gnb[s] EXCEPT !.asked = FALSE, !.dl = trxn + 1]
        /\ a = [amf[s] EXCEPT !.awaits = kind, !.trxn = trxn + 1]
  OBVIOUS
<1>7. c.status = smf[s].status /\ c.address = smf[s].address /\ c.precedence = prec /\ c.rules = new
  BY <1>2, <1>6, SessionTypes DEF Inv, SmfContexts
<1>8. g.asked = FALSE /\ g.ul = gnb[s].ul /\ g.dl = trxn + 1
  BY <1>6, SessionTypes DEF Inv, Tunnels
<1>9. a.awaits = kind /\ a.trxn = trxn + 1 /\ a.cnx = amf[s].cnx
  BY <1>6, SessionTypes DEF Inv, AmfContexts
<1>10. smf'[s] = c /\ gnb'[s] = g /\ amf'[s] = a
  BY <1>5, <1>6 DEF Inv, TypeOK, Awaits
<1>11. \A r \in Sessions : r # s => amf'[r] = amf[r] /\ gnb'[r] = gnb[r] /\ smf'[r] = smf[r]
  BY <1>5 DEF Inv, TypeOK, Awaits
<1>12. PICK o : Sent(s, kind, ies, o)
  BY <1>5, SendExactly
<1>13. ies = IF kind # "step 2" /\ old.far_dl # None
             THEN [op |-> "update", far |-> [id |-> old.far_dl, to |-> trxn + 1],
                   pdr |-> old.pdr_dl, prec |-> prec]
             ELSE [op |-> "create", far |-> [id |-> new.far_dl, to |-> trxn + 1],
                   pdr |-> Pdr(s, new.pdr_dl, prec, new.far_dl, "core", smf[s].address)]
  BY <1>4 DEF pfcp_create
<1>14. smf'[s].rules = new
  BY <1>7, <1>10
<1>15. ies = IF kind # "step 2" /\ smf[s].rules.far_dl # None
             THEN [op |-> "update", far |-> [id |-> smf[s].rules.far_dl, to |-> trxn + 1],
                   pdr |-> smf[s].rules.pdr_dl, prec |-> smf[s].precedence]
             ELSE [op |-> "create", far |-> [id |-> smf'[s].rules.far_dl, to |-> trxn + 1],
                   pdr |-> Pdr(s, smf'[s].rules.pdr_dl, smf[s].precedence, smf'[s].rules.far_dl,
                               "core", smf[s].address)]
  BY ONLY <1>1, <1>2, <1>13, <1>14
<1>16. QED
  BY <1>1, <1>2, <1>3, <1>5, <1>7, <1>8, <1>9, <1>10, <1>11, <1>12, <1>14, <1>15

\* A downlink rule has no TEID of the UPF.
LEMMA ForwardDownlinkRegular ==
  ASSUME Inv, Apart, NEW s \in Sessions, NEW kind, ForwardDownlink(s, kind)
  PROVE  Regular(s)
<1>1. PICK o, ies :
              /\ Sent(s, kind, ies, o)
              /\ ies = IF kind # "step 2" /\ smf[s].rules.far_dl # None
                       THEN [op |-> "update", far |-> [id |-> smf[s].rules.far_dl, to |-> trxn + 1],
                             pdr |-> smf[s].rules.pdr_dl, prec |-> smf[s].precedence]
                       ELSE [op |-> "create", far |-> [id |-> smf'[s].rules.far_dl, to |-> trxn + 1],
                             pdr |-> Pdr(s, smf'[s].rules.pdr_dl, smf[s].precedence, smf'[s].rules.far_dl,
                                         "core", smf[s].address)]
  BY ForwardDownlinkExactly
<1>2. /\ smf'[s].address = smf[s].address
      /\ smf'[s].rules = [smf[s].rules EXCEPT !.far_dl = Generate(smf[s].rules.far_dl),
                                              !.pdr_dl = Generate(smf[s].rules.pdr_dl)]
      /\ \A r \in Sessions : r # s => amf'[r] = amf[r] /\ gnb'[r] = gnb[r] /\ smf'[r] = smf[r]
      /\ UNCHANGED <<upf, clean>>
  BY ForwardDownlinkExactly
<1>3. ~(ies.op = "create" /\ ies.pdr.iface = "access")
  BY <1>1 DEF Pdr
<1>4. \A x \in n4' : \/ x \in n4
                     \/ x.s = s /\ \A t \in Transactions : Names(x, t) =>
                                     Holds(s, t) \/ (trxn' = trxn + 1 /\ t = trxn + 1)
  BY <1>1, <1>3, SentNames
<1>5. Confined(s) /\ trxn' = trxn + 1
  BY <1>1, <1>2 DEF Confined, Sent
<1>6. /\ smf'[s].rules.ul_fteid = smf[s].rules.ul_fteid
      /\ smf'[s].rules.far_ul = smf[s].rules.far_ul /\ smf'[s].rules.pdr_ul = smf[s].rules.pdr_ul
  BY <1>2, SessionTypes DEF Inv, Rules
<1>7. \A t \in Transactions : smf'[s].rules.ul_fteid = t => Holds(s, t)
  BY <1>6 DEF Holds
<1>8. QED
  BY <1>2, <1>4, <1>5, <1>6, <1>7 DEF Regular

\* A session whose set-up is answered, or that is handed over, is being forwarded then.
LEMMA ForwardDownlinkGoesOn ==
  ASSUME Inv, Apart, Drawn, NEW s \in Sessions, ResourceSetupResponse(s) \/ PathSwitchRequest(s), Phase(s)
  PROVE  Phase(s)'
<1>1. PICK kind : /\ ForwardDownlink(s, kind) /\ Ready(s)
                  /\ \/ gnb[s].asked /\ kind \in {"step 2", "establishment"}
                     \/ gnb[s].dl # None /\ kind = "path switch"
  BY DEF ResourceSetupResponse, PathSwitchRequest
<1>2. PICK o, ies :
              /\ Sent(s, kind, ies, o)
              /\ ies = IF kind # "step 2" /\ smf[s].rules.far_dl # None
                       THEN [op |-> "update", far |-> [id |-> smf[s].rules.far_dl, to |-> trxn + 1],
                             pdr |-> smf[s].rules.pdr_dl, prec |-> smf[s].precedence]
                       ELSE [op |-> "create", far |-> [id |-> smf'[s].rules.far_dl, to |-> trxn + 1],
                             pdr |-> Pdr(s, smf'[s].rules.pdr_dl, smf[s].precedence, smf'[s].rules.far_dl,
                                         "core", smf[s].address)]
  BY <1>1, ForwardDownlinkExactly
<1>3. /\ smf'[s].status = smf[s].status /\ smf'[s].address = smf[s].address
      /\ smf'[s].precedence = smf[s].precedence
      /\ smf'[s].rules = [smf[s].rules EXCEPT !.far_dl = Generate(smf[s].rules.far_dl),
                                              !.pdr_dl = Generate(smf[s].rules.pdr_dl)]
      /\ amf'[s].awaits = kind /\ amf'[s].trxn = trxn + 1 /\ amf'[s].cnx = amf[s].cnx
      /\ gnb'[s].asked = FALSE /\ gnb'[s].ul = gnb[s].ul /\ gnb'[s].dl = trxn + 1
      /\ UNCHANGED upf
  BY <1>1, ForwardDownlinkExactly
<1>4. PICK r, q : r = smf[s].rules /\ q = smf'[s].rules
  OBVIOUS
<1>5. /\ q.far_ul = r.far_ul /\ q.pdr_ul = r.pdr_ul
      /\ q.far_dl = Generate(r.far_dl) /\ q.pdr_dl = Generate(r.pdr_dl)
  BY <1>3, <1>4, SessionTypes DEF Inv, Rules
<1>6. trxn + 1 \in Transactions /\ trxn + 1 # None /\ trxn \in Nat
  <2>1. trxn + 1 \in Transactions
    BY <1>2 DEF Sent
  <2>2. trxn \in Nat
    BY DEF Transactions, None, Inv, TypeOK, Id
  <2>3. QED
    BY <2>1, <2>2 DEF None
<1>7. o.dir = "request" /\ o.kind = kind /\ o.s = s /\ o.trxn = trxn + 1 /\ o.ies = ies /\ n4' = n4 \cup {o}
  BY <1>2 DEF Sent
<1>8. NoMessage(s)
  BY <1>1, PhaseOfReady DEF Asked, Connected, Idle
<1>9. OnlyMessage(s, o)' /\ o \in n4'
  BY <1>7, <1>8 DEF OnlyMessage, NoMessage
<1>10. Waiting(s, o)'
  BY <1>1, <1>3, <1>7, <1>9 DEF Waiting, Ready
<1>11. CASE gnb[s].asked /\ kind \in {"step 2", "establishment"}
  <2>0. ~Connected(s) /\ ~Idle(s)
    <3>1. NoTunnel.asked = FALSE
      BY DEF NoTunnel
    <3>2. Connected(s) => ~gnb[s].asked
      BY DEF Connected
    <3>3. Idle(s) => gnb[s] = NoTunnel
      BY DEF Idle
    <3>4. QED
      BY <1>11, <3>1, <3>2, <3>3
  <2>1. Asked(s)
    BY <1>1, <2>0, PhaseOfReady
  <2>2. UplinkIds(r) /\ Below(s) /\ Uplinked(s, r, gnb[s].ul) /\ OnlyUplink(s)
    BY <1>4, <2>1 DEF Asked
  <2>3. Below(s)' /\ Uplinked(s, q, gnb[s].ul)' /\ OnlyUplink(s)'
    BY <1>3, <1>5, <2>2, UpfQuiet
  <2>4. r.far_dl = None /\ q.far_dl = trxn + 1 /\ q.pdr_dl = trxn + 1
    BY <1>5, <2>2 DEF UplinkIds, Generate
  <2>5. BothIds(q)
    <3>1. r.far_ul <= trxn /\ r.pdr_ul <= trxn
      BY <1>4 DEF Drawn
    <3>2. QED
      BY <1>5, <1>6, <2>2, <2>4, <3>1 DEF BothIds, UplinkIds
  <2>6. NewDownlink(s, o)'
    <3>1. ies = [op |-> "create", far |-> [id |-> q.far_dl, to |-> trxn + 1],
                 pdr |-> Pdr(s, q.pdr_dl, smf[s].precedence, q.far_dl, "core", smf[s].address)]
      BY <1>2, <1>4, <2>4
    <3>2. QED
      BY <1>3, <1>4, <1>7, <3>1 DEF NewDownlink
  <2>7. Within(s)'
    <3>1. Within(s)
      <4>1. smf[s].address \in Addresses /\ smf[s].precedence \in Nat
        BY <1>1, SessionTypes DEF Inv, Life, Addressed, Alive, Ready, SmfContexts
      <4>2. PICK list : list = Downlinks(s)
        OBVIOUS
      <4>3. list \in Seq(Pdrs)
        BY <4>1, <4>2 DEF Downlinks, Inv, TypeOK
      <4>4. \A k \in DOMAIN list : list[k] \in Pdrs
        BY <4>3
      <4>5. \A k \in DOMAIN list : list[k].prec \in Nat
        BY <4>4 DEF Pdrs
      <4>6. QED
        BY <2>2, <4>1, <4>2, <4>5 DEF Within, Below
    <3>2. QED
      BY <1>3, <3>1, UpfQuiet
  <2>8. BeingForwarded(s, o)'
    BY <1>3, <1>4, <1>6, <1>7, <1>10, <1>11, <2>3, <2>5, <2>6, <2>7 DEF BeingForwarded
  <2>9. QED
    BY <1>9, <2>8 DEF Phase
<1>12. CASE gnb[s].dl # None /\ kind = "path switch"
  <2>0. ~Asked(s) /\ ~Idle(s)
    <3>1. NoTunnel.dl = None
      BY DEF NoTunnel
    <3>2. Asked(s) => gnb[s].dl = None
      BY DEF Asked
    <3>3. Idle(s) => gnb[s] = NoTunnel
      BY DEF Idle
    <3>4. QED
      BY <1>12, <3>1, <3>2, <3>3
  <2>1. Connected(s)
    BY <1>1, <2>0, PhaseOfReady
  <2>2. /\ BothIds(r) /\ Within(s) /\ Uplinked(s, r, gnb[s].ul) /\ Downlinked(s, r)
        /\ amf[s].cnx = "ACTIVATED"
    BY <1>4, <2>1 DEF Connected
  <2>3. q.far_dl = r.far_dl /\ q.pdr_dl = r.pdr_dl /\ r.far_dl # None
    BY <1>5, <2>2 DEF BothIds, Generate
  <2>4. Within(s)' /\ Uplinked(s, q, gnb[s].ul)' /\ Downlinked(s, q)'
    BY <1>3, <1>5, <2>2, <2>3, UpfQuiet
  <2>5. BothIds(q)
    BY <1>5, <2>2, <2>3 DEF BothIds
  <2>6. NewTunnel(s, o)'
    <3>1. ies = [op |-> "update", far |-> [id |-> r.far_dl, to |-> trxn + 1],
                 pdr |-> r.pdr_dl, prec |-> smf[s].precedence]
      BY <1>2, <1>4, <1>12, <2>3
    <3>2. QED
      BY <1>3, <1>4, <1>7, <2>3, <3>1 DEF NewTunnel
  <2>7. BeingForwarded(s, o)'
    BY <1>3, <1>4, <1>6, <1>7, <1>10, <1>12, <2>2, <2>4, <2>5, <2>6 DEF BeingForwarded
  <2>8. QED
    BY <1>9, <2>7 DEF Phase
<1>13. QED
  BY <1>1, <1>11, <1>12

\* A session that has a tunnel and is ready is connected.
LEMMA TunnelIsConnected ==
  ASSUME NEW s, Phase(s), Ready(s), gnb[s].dl # None
  PROVE  Connected(s)
<1>1. NoTunnel.dl = None
  BY DEF NoTunnel
<1>2. Asked(s) => gnb[s].dl = None
  BY DEF Asked
<1>3. Idle(s) => gnb[s] = NoTunnel
  BY DEF Idle
<1>4. QED
  BY <1>1, <1>2, <1>3, PhaseOfReady

\* A session without one that the AMF takes for inactive is idle.
LEMMA NoTunnelIsIdle ==
  ASSUME NEW s, Phase(s), Ready(s), gnb[s] = NoTunnel
  PROVE  Idle(s)
<1>1. NoTunnel.dl = None /\ NoTunnel.asked = FALSE
  BY DEF NoTunnel
<1>2. Asked(s) => gnb[s].asked
  BY DEF Asked
<1>3. Connected(s) => gnb[s].dl # None
  BY DEF Connected
<1>4. QED
  BY <1>1, <1>2, <1>3, PhaseOfReady

\* The release of the access network.
LEMMA ReleaseAnExactly ==
  ASSUME Inv, NEW s \in Sessions, ReleaseAn(s)
  PROVE  /\ \E o, ies :
              /\ Sent(s, "AN release", ies, o)
              /\ ies = [op |-> "remove", pdrs |-> <<smf[s].rules.pdr_dl, smf[s].rules.pdr_ul>>,
                        fars |-> <<smf[s].rules.far_dl, smf[s].rules.far_ul>>]
         /\ Ready(s) /\ gnb[s].dl # None
         /\ smf'[s].status = smf[s].status /\ smf'[s].address = smf[s].address
         /\ smf'[s].precedence = smf[s].precedence /\ smf'[s].rules = NoRules
         /\ amf'[s].awaits = "AN release" /\ amf'[s].trxn = trxn + 1
         /\ gnb'[s] = NoTunnel
         /\ \A r \in Sessions : r # s => amf'[r] = amf[r] /\ gnb'[r] = gnb[r] /\ smf'[r] = smf[r]
         /\ UNCHANGED <<upf, clean>>
<1>1. PICK kind, ies :
        /\ kind = "AN release"
        /\ ies = [op |-> "remove", pdrs |-> <<smf[s].rules.pdr_dl, smf[s].rules.pdr_ul>>,
                  fars |-> <<smf[s].rules.far_dl, smf[s].rules.far_ul>>]
  OBVIOUS
<1>2. /\ Ready(s) /\ gnb[s].dl # None
      /\ gnb' = [gnb EXCEPT ![s] = NoTunnel]
      /\ Send(s, kind, ies)
      /\ smf' = [smf EXCEPT ![s] = [smf[s] EXCEPT !.rules = NoRules, !.cnx = "DEACTIVATED"]]
      /\ Awaits(s, "AN release")
      /\ UNCHANGED <<upf, clean>>
  BY <1>1 DEF ReleaseAn
<1>3. PICK c, a : /\ c = [smf[s] EXCEPT !.rules = NoRules, !.cnx = "DEACTIVATED"]
                  /\ a = [amf[s] EXCEPT !.awaits = "AN release", !.trxn = trxn + 1]
  OBVIOUS
<1>4. c.status = smf[s].status /\ c.address = smf[s].address /\ c.precedence = smf[s].precedence
      /\ c.rules = NoRules
  BY <1>3, SessionTypes DEF Inv, SmfContexts
<1>5. a.awaits = "AN release" /\ a.trxn = trxn + 1
  BY <1>3, SessionTypes DEF Inv, AmfContexts
<1>6. smf'[s] = c /\ gnb'[s] = NoTunnel /\ amf'[s] = a
  BY <1>2, <1>3 DEF Inv, TypeOK, Awaits
<1>7. \A r \in Sessions : r # s => amf'[r] = amf[r] /\ gnb'[r] = gnb[r] /\ smf'[r] = smf[r]
  BY <1>2 DEF Inv, TypeOK, Awaits
<1>8. PICK o : Sent(s, kind, ies, o)
  BY <1>2, SendExactly
<1>9. QED
  BY <1>1, <1>2, <1>4, <1>5, <1>6, <1>7, <1>8

\* A removal has no TEID.
LEMMA ReleaseAnRegular ==
  ASSUME Inv, Apart, NEW s \in Sessions, ReleaseAn(s)
  PROVE  Regular(s)
<1>1. PICK o, ies :
              /\ Sent(s, "AN release", ies, o)
              /\ ies = [op |-> "remove", pdrs |-> <<smf[s].rules.pdr_dl, smf[s].rules.pdr_ul>>,
                        fars |-> <<smf[s].rules.far_dl, smf[s].rules.far_ul>>]
  BY ReleaseAnExactly
<1>2. /\ smf'[s].address = smf[s].address /\ smf'[s].rules = NoRules
      /\ \A r \in Sessions : r # s => amf'[r] = amf[r] /\ gnb'[r] = gnb[r] /\ smf'[r] = smf[r]
      /\ UNCHANGED <<upf, clean>>
  BY ReleaseAnExactly
<1>3. ~(ies.op = "create" /\ ies.pdr.iface = "access")
  BY <1>1
<1>4. \A x \in n4' : \/ x \in n4
                     \/ x.s = s /\ \A t \in Transactions : Names(x, t) =>
                                     Holds(s, t) \/ (trxn' = trxn + 1 /\ t = trxn + 1)
  BY <1>1, <1>3, SentNames
<1>5. Confined(s) /\ trxn' = trxn + 1
  BY <1>1, <1>2 DEF Confined, Sent
<1>6. NoRules.ul_fteid = None /\ NoRules.far_ul = None /\ NoRules.pdr_ul = None
  BY DEF NoRules
<1>7. \A t \in Transactions : smf'[s].rules.ul_fteid # t
  BY <1>2, <1>6 DEF Transactions, None
<1>8. QED
  BY <1>2, <1>4, <1>5, <1>6, <1>7 DEF Regular

\* All the rules there are, are being removed.
LEMMA ReleaseAnGoesOn ==
  ASSUME Inv, Apart, NEW s \in Sessions, ReleaseAn(s), Phase(s)
  PROVE  Phase(s)'
<1>1. PICK o, ies :
              /\ Sent(s, "AN release", ies, o)
              /\ ies = [op |-> "remove", pdrs |-> <<smf[s].rules.pdr_dl, smf[s].rules.pdr_ul>>,
                        fars |-> <<smf[s].rules.far_dl, smf[s].rules.far_ul>>]
  BY ReleaseAnExactly
<1>2. /\ Ready(s) /\ gnb[s].dl # None
      /\ smf'[s].status = smf[s].status /\ smf'[s].address = smf[s].address
      /\ smf'[s].precedence = smf[s].precedence /\ smf'[s].rules = NoRules
      /\ amf'[s].awaits = "AN release" /\ amf'[s].trxn = trxn + 1
      /\ gnb'[s] = NoTunnel
      /\ UNCHANGED upf
  BY ReleaseAnExactly
<1>3. Connected(s)
  BY <1>2, TunnelIsConnected
<1>4. PICK r : r = smf[s].rules
  OBVIOUS
<1>5. BothIds(r) /\ Within(s) /\ Uplinked(s, r, gnb[s].ul) /\ Downlinked(s, r) /\ NoMessage(s) /\ r \in Rules
  BY <1>3, <1>4, SessionTypes DEF Connected, Inv
<1>6. o.dir = "request" /\ o.kind = "AN release" /\ o.s = s /\ o.trxn = trxn + 1 /\ o.ies = ies
      /\ n4' = n4 \cup {o}
  BY <1>1 DEF Sent
<1>7. OnlyMessage(s, o)' /\ o \in n4'
  BY <1>5, <1>6 DEF OnlyMessage, NoMessage
<1>8. Waiting(s, o)'
  BY <1>2, <1>6, <1>7 DEF Waiting, Ready
<1>9. Within(s)' /\ up'[s] = up[s]
  BY <1>2, <1>5, UpfQuiet
<1>10. /\ Len(up[s].pdrs) = 2 /\ Len(up[s].fars) = 2 /\ up[s].known
       /\ up[s].pdrs[1].id = r.pdr_ul /\ up[s].pdrs[2].id = r.pdr_dl
       /\ up[s].fars[1].id = r.far_ul /\ up[s].fars[2].id = r.far_dl
  BY <1>5 DEF Uplinked, Downlinked, Pdr
<1>11. NoRulesAnyMore(s, o)'
  <2>1. /\ o.ies.op = "remove" /\ o.ies.pdrs = <<r.pdr_dl, r.pdr_ul>>
        /\ o.ies.fars = <<r.far_dl, r.far_ul>>
    <3>1. /\ ies.op = "remove" /\ ies.pdrs = <<r.pdr_dl, r.pdr_ul>>
          /\ ies.fars = <<r.far_dl, r.far_ul>>
      BY <1>1, <1>4
    <3>2. QED
      BY <1>6, <3>1
  <2>2. r \in Rules /\ BothIds(r)
    BY <1>5
  <2>3. /\ Len(up'[s].pdrs) = 2 /\ Len(up'[s].fars) = 2 /\ up'[s].known
        /\ up'[s].pdrs[1].id = r.pdr_ul /\ up'[s].pdrs[2].id = r.pdr_dl
        /\ up'[s].fars[1].id = r.far_ul /\ up'[s].fars[2].id = r.far_dl
    BY <1>9, <1>10
  <2>4. QED
    BY <2>1, <2>2, <2>3 DEF NoRulesAnyMore
<1>12. BeingReleased(s, o)'
  BY <1>2, <1>6, <1>8, <1>9, <1>11 DEF BeingReleased
<1>13. QED
  BY <1>7, <1>12 DEF Phase

\* The activation of the user plane.
LEMMA ActivateUserPlaneExactly ==
  ASSUME Inv, NEW s \in Sessions, ActivateUserPlane(s)
  PROVE  /\ \E o, ies :
              /\ Sent(s, "step 1", ies, o)
              /\ ies = [op |-> "create", far |-> [id |-> smf'[s].rules.far_ul, to |-> Core],
                        pdr |-> Pdr(s, smf'[s].rules.pdr_ul, smf[s].precedence + 1, smf'[s].rules.far_ul,
                                    "access", smf[s].rules.ul_fteid)]
         /\ Ready(s) /\ gnb[s] = NoTunnel /\ amf[s].cnx = "DEACTIVATED"
         /\ smf'[s].status = smf[s].status /\ smf'[s].address = smf[s].address
         /\ smf'[s].precedence = smf[s].precedence + 1
         /\ smf'[s].rules = [smf[s].rules EXCEPT !.far_ul = Generate(smf[s].rules.far_ul),
                                                 !.pdr_ul = trxn + 1]
         /\ amf'[s].awaits = "step 1" /\ amf'[s].trxn = trxn + 1
         /\ \A r \in Sessions : r # s => amf'[r] = amf[r] /\ smf'[r] = smf[r]
         /\ UNCHANGED <<gnb, upf, clean>>
<1>1. PICK kind, rules, prec :
        /\ kind = "step 1" /\ prec = smf[s].precedence + 1
        /\ rules = [smf[s].rules EXCEPT !.far_ul = Generate(smf[s].rules.far_ul), !.pdr_ul = trxn + 1]
  OBVIOUS
<1>2. PICK ies : ies = pfcp_create(s, rules, prec, "access", rules.ul_fteid, Core)
  OBVIOUS
<1>3. /\ Ready(s) /\ gnb[s] = NoTunnel /\ amf[s].cnx = "DEACTIVATED"
      /\ smf' = [smf EXCEPT ![s] =
            [smf[s] EXCEPT !.rules = rules, !.precedence = prec, !.cnx = "ACTIVATING"]]
      /\ Send(s, kind, ies)
      /\ Awaits(s, "step 1")
      /\ UNCHANGED <<gnb, upf, clean>>
  BY <1>1, <1>2 DEF ActivateUserPlane
<1>4. PICK c, a : /\ c = [smf[s] EXCEPT !.rules = rules, !.precedence = prec, !.cnx = "ACTIVATING"]
                  /\ a = [amf[s] EXCEPT !.awaits = "step 1", !.trxn = trxn + 1]
  OBVIOUS
<1>5. c.status = smf[s].status /\ c.address = smf[s].address /\ c.precedence = prec /\ c.rules = rules
  BY <1>4, SessionTypes DEF Inv, SmfContexts
<1>6. a.awaits = "step 1" /\ a.trxn = trxn + 1
  BY <1>4, SessionTypes DEF Inv, AmfContexts
<1>7. smf'[s] = c /\ amf'[s] = a
  BY <1>3, <1>4 DEF Inv, TypeOK, Awaits
<1>8. \A r \in Sessions : r # s => amf'[r] = amf[r] /\ smf'[r] = smf[r]
  BY <1>3 DEF Inv, TypeOK, Awaits
<1>9. PICK o : Sent(s, kind, ies, o)
  BY <1>3, SendExactly
<1>10. rules.ul_fteid = smf[s].rules.ul_fteid
  BY <1>1, SessionTypes DEF Inv, Rules
<1>11. ies = [op |-> "create", far |-> [id |-> rules.far_ul, to |-> Core],
              pdr |-> Pdr(s, rules.pdr_ul, prec, rules.far_ul, "access", smf[s].rules.ul_fteid)]
  BY <1>2, <1>10 DEF pfcp_create
<1>12. smf'[s].rules = rules
  BY <1>5, <1>7
<1>13. ies = [op |-> "create", far |-> [id |-> smf'[s].rules.far_ul, to |-> Core],
              pdr |-> Pdr(s, smf'[s].rules.pdr_ul, smf[s].precedence + 1, smf'[s].rules.far_ul,
                          "access", smf[s].rules.ul_fteid)]
  BY ONLY <1>1, <1>11, <1>12
<1>14. QED
  BY <1>1, <1>3, <1>5, <1>6, <1>7, <1>8, <1>9, <1>12, <1>13

\* The new rule is at the session's TEID or at one that the UPF chooses.
LEMMA ActivateUserPlaneRegular ==
  ASSUME Inv, Apart, NEW s \in Sessions, ActivateUserPlane(s)
  PROVE  Regular(s)
<1>1. PICK o, ies :
              /\ Sent(s, "step 1", ies, o)
              /\ ies = [op |-> "create", far |-> [id |-> smf'[s].rules.far_ul, to |-> Core],
                        pdr |-> Pdr(s, smf'[s].rules.pdr_ul, smf[s].precedence + 1, smf'[s].rules.far_ul,
                                    "access", smf[s].rules.ul_fteid)]
  BY ActivateUserPlaneExactly
<1>2. /\ smf'[s].address = smf[s].address
      /\ smf'[s].rules = [smf[s].rules EXCEPT !.far_ul = Generate(smf[s].rules.far_ul),
                                              !.pdr_ul = trxn + 1]
      /\ \A r \in Sessions : r # s => amf'[r] = amf[r] /\ smf'[r] = smf[r]
      /\ UNCHANGED <<gnb, upf, clean>>
  BY ActivateUserPlaneExactly
<1>3. ies.pdr.key = smf[s].rules.ul_fteid
  BY <1>1 DEF Pdr
<1>4. ies.pdr.key = None \/ \A t \in Transactions : ies.pdr.key = t => Holds(s, t)
  BY <1>3 DEF Holds
<1>5. \A x \in n4' : \/ x \in n4
                     \/ x.s = s /\ \A t \in Transactions : Names(x, t) =>
                                     Holds(s, t) \/ (trxn' = trxn + 1 /\ t = trxn + 1)
  BY <1>1, <1>4, SentNames
<1>6. Confined(s) /\ trxn' = trxn + 1
  BY <1>1, <1>2 DEF Confined, Sent
<1>7. /\ smf'[s].rules.ul_fteid = smf[s].rules.ul_fteid
      /\ smf'[s].rules.far_ul = Generate(smf[s].rules.far_ul) /\ smf'[s].rules.pdr_ul = trxn + 1
  BY <1>2, SessionTypes DEF Inv, Rules
<1>8. \A t \in Transactions : smf'[s].rules.ul_fteid = t => Holds(s, t)
  BY <1>7 DEF Holds
<1>9. smf'[s].rules.far_ul \in {smf[s].rules.far_ul, trxn + 1}
  BY <1>7 DEF Generate
<1>10. QED
  BY <1>2, <1>5, <1>6, <1>7, <1>8, <1>9 DEF Regular

\* A first rule is being created again.
LEMMA ActivateUserPlaneGoesOn ==
  ASSUME Inv, Apart, NEW s \in Sessions, ActivateUserPlane(s), Phase(s)
  PROVE  Phase(s)'
<1>1. PICK o, ies :
              /\ Sent(s, "step 1", ies, o)
              /\ ies = [op |-> "create", far |-> [id |-> smf'[s].rules.far_ul, to |-> Core],
                        pdr |-> Pdr(s, smf'[s].rules.pdr_ul, smf[s].precedence + 1, smf'[s].rules.far_ul,
                                    "access", smf[s].rules.ul_fteid)]
  BY ActivateUserPlaneExactly
<1>2. /\ Ready(s) /\ gnb[s] = NoTunnel
      /\ smf'[s].status = smf[s].status /\ smf'[s].address = smf[s].address
      /\ smf'[s].precedence = smf[s].precedence + 1
      /\ smf'[s].rules = [smf[s].rules EXCEPT !.far_ul = Generate(smf[s].rules.far_ul),
                                              !.pdr_ul = trxn + 1]
      /\ amf'[s].awaits = "step 1" /\ amf'[s].trxn = trxn + 1
      /\ UNCHANGED <<gnb, upf>>
  BY ActivateUserPlaneExactly
<1>3. Idle(s)
  BY <1>2, NoTunnelIsIdle
<1>4. smf[s].rules = NoRules /\ Within(s) /\ Empty(s) /\ NoMessage(s)
  BY <1>3 DEF Idle
<1>5. PICK q : q = smf'[s].rules
  OBVIOUS
<1>6. trxn + 1 \in Transactions /\ trxn + 1 # None
  <2>1. trxn + 1 \in Transactions
    BY <1>1 DEF Sent
  <2>2. trxn \in Nat
    BY DEF Transactions, None, Inv, TypeOK, Id
  <2>3. QED
    BY <2>1, <2>2 DEF None
<1>7. q.far_ul = trxn + 1 /\ q.pdr_ul = trxn + 1 /\ q.far_dl = None /\ q.pdr_dl = None
      /\ smf[s].rules.ul_fteid = None
  <2>1. PICK r : r = smf[s].rules
    OBVIOUS
  <2>2. r.far_ul = None /\ r.far_dl = None /\ r.pdr_dl = None /\ r.ul_fteid = None
    BY <1>4, <2>1 DEF NoRules
  <2>3. q.far_ul = Generate(r.far_ul) /\ q.pdr_ul = trxn + 1 /\ q.far_dl = r.far_dl /\ q.pdr_dl = r.pdr_dl
    BY <1>2, <1>5, <2>1, SessionTypes DEF Inv, Rules
  <2>4. QED
    BY <2>1, <2>2, <2>3 DEF Generate
<1>8. UplinkIds(q)
  BY <1>6, <1>7 DEF UplinkIds
<1>9. o.dir = "request" /\ o.kind = "step 1" /\ o.s = s /\ o.trxn = trxn + 1 /\ o.ies = ies
      /\ n4' = n4 \cup {o}
  BY <1>1 DEF Sent
<1>10. OnlyMessage(s, o)' /\ o \in n4'
  BY <1>4, <1>9 DEF OnlyMessage, NoMessage
<1>11. Waiting(s, o)'
  BY <1>2, <1>9, <1>10 DEF Waiting, Ready
<1>12. smf[s].precedence \in Nat /\ smf[s].address \in Addresses
  BY <1>2, SessionTypes DEF Inv, Life, Addressed, Alive, Ready, SmfContexts
<1>13. Empty(s)' /\ Alone(s)' = Alone(s) /\ Downlinks(s)' = Downlinks(s)
  BY <1>2, <1>4, UpfQuiet
<1>14. Below(s)'
  <2>1. PICK list : list = Downlinks(s)
    OBVIOUS
  <2>2. list \in Seq(Pdrs)
    BY <1>12, <2>1 DEF Downlinks, Inv, TypeOK
  <2>3. \A k \in DOMAIN list : list[k] \in Pdrs
    BY <2>2
  <2>4. \A k \in DOMAIN list : list[k].prec \in Nat
    BY <2>3 DEF Pdrs
  <2>5. Alone(s) => \A k \in DOMAIN list : list[k].prec <= smf[s].precedence
    BY <1>4, <2>1 DEF Within
  <2>6. Alone(s) => \A k \in DOMAIN list : list[k].prec < smf[s].precedence + 1
    BY <1>12, <2>4, <2>5
  <2>7. QED
    BY <1>2, <1>13, <2>1, <2>6 DEF Below
<1>15. NewUplink(s, o)'
  <2>1. ul_n3_teid2pfcp_pdr'[o.trxn] = <<>>
    BY <1>2, <1>6, <1>9, FreshTeid DEF upf, tables
  <2>2. smf[s].precedence + 1 \in Nat
    BY <1>12
  <2>3. ies = [op |-> "create", far |-> [id |-> q.far_ul, to |-> Core],
               pdr |-> Pdr(s, q.pdr_ul, smf[s].precedence + 1, q.far_ul, "access", None)]
    BY ONLY <1>1, <1>5, <1>7
  <2>4. o.ies.op = "create" /\ o.ies.far = [id |-> q.far_ul, to |-> Core]
        /\ o.ies.pdr = Pdr(s, q.pdr_ul, smf[s].precedence + 1, q.far_ul, "access", None)
    <3>1. ies.op = "create" /\ ies.far = [id |-> q.far_ul, to |-> Core]
          /\ ies.pdr = Pdr(s, q.pdr_ul, smf[s].precedence + 1, q.far_ul, "access", None)
      BY <2>3
    <3>2. QED
      BY <1>9, <3>1
  <2>5. QED
    BY <1>5, <2>1, <2>2, <2>4 DEF NewUplink
<1>16. BeingActivated(s, o)'
  BY <1>2, <1>5, <1>8, <1>9, <1>11, <1>13, <1>14, <1>15 DEF BeingActivated
<1>17. QED
  BY <1>10, <1>16 DEF Phase

\* A release touches no rule.
LEMMA ReleaseSmContextRegular ==
  ASSUME Inv, NEW s \in Sessions, ReleaseSmContext(s)
  PROVE  Regular(s) /\ Phase(s)'
<1>1. PICK kind, ies : kind = "delete" /\ ies = [op |-> "delete"]
  OBVIOUS
<1>2. /\ smf' = [smf EXCEPT ![s].status = "releasing"]
      /\ gnb' = [gnb EXCEPT ![s] = NoTunnel]
      /\ Send(s, kind, ies)
      /\ UNCHANGED <<amf, upf, clean>>
  BY <1>1 DEF ReleaseSmContext
<1>3. PICK o : Sent(s, kind, ies, o)
  BY <1>2, SendExactly
<1>4. PICK c : c = [smf[s] EXCEPT !.status = "releasing"]
  OBVIOUS
<1>5. c.status = "releasing" /\ c.address = smf[s].address /\ c.rules = smf[s].rules
  BY <1>4, SessionTypes DEF Inv, SmfContexts
<1>6. smf'[s] = c
  BY <1>2, <1>4 DEF Inv, TypeOK
<1>7. \A r \in Sessions : r # s => gnb'[r] = gnb[r] /\ smf'[r] = smf[r]
  BY <1>2 DEF Inv, TypeOK
<1>8. ies.op # "create"
  BY <1>1
<1>9. \A x \in n4' : \/ x \in n4
                     \/ x.s = s /\ \A t \in Transactions : Names(x, t) =>
                                     Holds(s, t) \/ (trxn' = trxn + 1 /\ t = trxn + 1)
  BY <1>3, <1>8, SentNames
<1>10. Confined(s) /\ trxn' = trxn + 1
  BY <1>2, <1>3, <1>7 DEF Confined, Sent
<1>11. \A t \in Transactions : smf'[s].rules.ul_fteid = t => Holds(s, t)
  BY <1>5, <1>6 DEF Holds
<1>12. Regular(s)
  BY <1>5, <1>6, <1>9, <1>10, <1>11 DEF Regular
<1>13. Phase(s)'
  BY <1>5, <1>6 DEF Phase, Ends
<1>14. QED
  BY <1>12, <1>13

\* A message that is taken off and leaves ids and address alone.
LEMMA TakenRegular ==
  ASSUME NEW m, n4' = n4 \ {m}, NEW x, m.s = x, UNCHANGED <<upf, trxn>>, clean' \subseteq clean,
         \A s \in Sessions : s # x => amf'[s] = amf[s] /\ gnb'[s] = gnb[s] /\ smf'[s] = smf[s],
         smf'[x].rules = smf[x].rules,
         smf'[x].address = smf[x].address \/ (~up[x].known /\ smf'[x].address = NoAddress)
  PROVE  Regular(x)
<1>1. Confined(x)
  BY DEF Confined
<1>2. \A t \in Transactions : smf'[x].rules.ul_fteid = t => Holds(x, t)
  BY DEF Holds
<1>3. QED
  BY <1>1, <1>2 DEF Regular

\* The answer to a deletion frees the address of a session the UPF has forgotten.
LEMMA DeletionAnswerRegular ==
  ASSUME Inv, NEW m \in n4, DeletionAnswer(m)
  PROVE  m.s \in Sessions /\ Regular(m.s) /\ Phase(m.s)'
<1>1. /\ m.dir = "response" /\ m.kind = "delete" /\ m.s \in Sessions
      /\ smf' = [smf EXCEPT ![m.s] = [smf[m.s] EXCEPT !.status = "released", !.address = NoAddress]]
      /\ n4' = n4 \ {m}
      /\ UNCHANGED <<amf, gnb, upf, trxn, clean>>
  BY MessageTypes DEF DeletionAnswer, Response, Inv
<1>2. PICK c : c = [smf[m.s] EXCEPT !.status = "released", !.address = NoAddress]
  OBVIOUS
<1>3. c.status = "released" /\ c.address = NoAddress /\ c.rules = smf[m.s].rules
  BY <1>1, <1>2, SessionTypes DEF Inv, SmfContexts
<1>4. smf'[m.s] = c /\ \A s \in Sessions : s # m.s => smf'[s] = smf[s]
  BY <1>1, <1>2 DEF Inv, TypeOK
<1>5. ~up[m.s].known
  BY <1>1 DEF Inv, Life, Deleting
<1>6. Regular(m.s)
  BY <1>1, <1>3, <1>4, <1>5, TakenRegular
<1>7. Phase(m.s)'
  BY <1>3, <1>4 DEF Phase, Ends
<1>8. QED
  BY <1>1, <1>6, <1>7

\* What the answer to an update does, where the AMF waits for it and where not.
LEMMA UpdateAnswerExactly ==
  ASSUME Inv, NEW m \in n4, UpdateAnswer(m)
  PROVE  /\ m.dir = "response" /\ m.kind \in Updates /\ m.s \in Sessions
         /\ smf'[m.s].status = smf[m.s].status /\ smf'[m.s].address = smf[m.s].address
         /\ smf'[m.s].precedence = smf[m.s].precedence /\ smf'[m.s].rules = smf[m.s].rules
         /\ amf[m.s].trxn = m.trxn =>
              /\ amf'[m.s].awaits = "nothing"
              /\ amf'[m.s].cnx = IF ~m.ok \/ m.kind = "path switch" THEN amf[m.s].cnx
                                 ELSE IF m.kind = "AN release" THEN "DEACTIVATED" ELSE "ACTIVATED"
              /\ m.kind # "step 1" => gnb'[m.s] = gnb[m.s]
              /\ m.kind = "step 1" => gnb'[m.s].asked = TRUE /\ gnb'[m.s].ul = m.teid /\ gnb'[m.s].dl = None
         /\ \A s \in Sessions : s # m.s => amf'[s] = amf[s] /\ gnb'[s] = gnb[s] /\ smf'[s] = smf[s]
         /\ n4' = n4 \ {m} /\ clean' \subseteq clean
         /\ UNCHANGED <<upf, trxn>>
<1>1. PICK cnx : cnx = IF m.kind = "AN release" THEN "DEACTIVATED"
                       ELSE IF m.ok /\ m.kind = "establishment" THEN "ACTIVATED"
                       ELSE IF m.ok /\ m.kind = "step 1" THEN "ACTIVATING" ELSE smf[m.s].cnx
  OBVIOUS
<1>2. /\ m.dir = "response" /\ m.kind \in Updates /\ m.s \in Sessions
      /\ smf' = [smf EXCEPT ![m.s] = [smf[m.s] EXCEPT !.cnx = cnx]]
      /\ IF amf[m.s].trxn = m.trxn THEN Answered(m) ELSE UNCHANGED <<amf, gnb, clean>>
      /\ n4' = n4 \ {m}
      /\ UNCHANGED <<upf, trxn>>
  BY <1>1, MessageTypes DEF UpdateAnswer, Response, Inv
<1>3. PICK c : c = [smf[m.s] EXCEPT !.cnx = cnx]
  OBVIOUS
<1>4. c.status = smf[m.s].status /\ c.address = smf[m.s].address /\ c.precedence = smf[m.s].precedence
      /\ c.rules = smf[m.s].rules
  BY <1>2, <1>3, SessionTypes DEF Inv, SmfContexts
<1>5. smf'[m.s] = c /\ \A s \in Sessions : s # m.s => smf'[s] = smf[s]
  BY <1>2, <1>3 DEF Inv, TypeOK
<1>6. clean' \subseteq clean /\ \A s \in Sessions : s # m.s => amf'[s] = amf[s] /\ gnb'[s] = gnb[s]
  BY <1>2 DEF Answered, Inv, TypeOK
<1>7. ASSUME amf[m.s].trxn = m.trxn
      PROVE   /\ amf'[m.s].awaits = "nothing"
              /\ amf'[m.s].cnx = IF ~m.ok \/ m.kind = "path switch" THEN amf[m.s].cnx
                                 ELSE IF m.kind = "AN release" THEN "DEACTIVATED" ELSE "ACTIVATED"
              /\ m.kind # "step 1" => gnb'[m.s] = gnb[m.s]
              /\ m.kind = "step 1" => gnb'[m.s].asked = TRUE /\ gnb'[m.s].ul = m.teid /\ gnb'[m.s].dl = None
  <2>1. PICK x, n2sm :
            /\ x = IF ~m.ok \/ m.kind = "path switch" THEN amf[m.s].cnx
                   ELSE IF m.kind = "AN release" THEN "DEACTIVATED" ELSE "ACTIVATED"
            /\ n2sm = IF m.kind = "step 1" THEN m.teid ELSE amf[m.s].n2sm
    OBVIOUS
  <2>2. Answered(m)
    BY <1>2, <1>7
  <2>3. amf' = [amf EXCEPT ![m.s] = [cnx |-> x, n2sm |-> n2sm, awaits |-> "nothing", trxn |-> None]]
    BY <2>1, <2>2 DEF Answered
  <2>4. amf'[m.s] = [cnx |-> x, n2sm |-> n2sm, awaits |-> "nothing", trxn |-> None]
    BY <1>2, <2>3 DEF Inv, TypeOK
  <2>5. amf'[m.s].awaits = "nothing" /\ amf'[m.s].cnx = x
    BY <2>4
  <2>6. PICK g : g = [NoTunnel EXCEPT !.asked = TRUE, !.ul = m.teid]
    OBVIOUS
  <2>7. g.asked = TRUE /\ g.ul = m.teid /\ g.dl = None
    BY <2>6 DEF NoTunnel
  <2>8. CASE m.kind = "step 1"
    <3>1. gnb' = [gnb EXCEPT ![m.s] = g]
      BY <2>2, <2>6, <2>8 DEF Answered
    <3>2. gnb'[m.s] = g
      BY <1>2, <3>1 DEF Inv, TypeOK
    <3>3. QED
      BY <2>1, <2>5, <2>7, <2>8, <3>2
  <2>9. CASE m.kind # "step 1"
    <3>1. gnb' = gnb
      BY <2>2, <2>9 DEF Answered
    <3>2. QED
      BY <2>1, <2>5, <2>9, <3>1
  <2>10. QED
    BY <2>8, <2>9
<1>8. QED
  BY <1>2, <1>4, <1>5, <1>6, <1>7

\* An answer changes no ids.
LEMMA UpdateAnswerRegular ==
  ASSUME Inv, NEW m \in n4, UpdateAnswer(m)
  PROVE  m.s \in Sessions /\ Regular(m.s)
<1>1. /\ m.s \in Sessions /\ smf'[m.s].address = smf[m.s].address /\ smf'[m.s].rules = smf[m.s].rules
      /\ \A s \in Sessions : s # m.s => amf'[s] = amf[s] /\ gnb'[s] = gnb[s] /\ smf'[s] = smf[s]
      /\ n4' = n4 \ {m} /\ clean' \subseteq clean
      /\ UNCHANGED <<upf, trxn>>
  BY UpdateAnswerExactly
<1>2. QED
  BY <1>1, TakenRegular

\* The session is connected, idle or to be set up again then.
LEMMA UpdateAnswerGoesOn ==
  ASSUME Inv, NEW m \in n4, UpdateAnswer(m), Phase(m.s)
  PROVE  Phase(m.s)'
<1>1. /\ m.dir = "response" /\ m.kind \in Updates /\ m.s \in Sessions
      /\ smf'[m.s].status = smf[m.s].status /\ smf'[m.s].address = smf[m.s].address
      /\ smf'[m.s].precedence = smf[m.s].precedence /\ smf'[m.s].rules = smf[m.s].rules
      /\ amf[m.s].trxn = m.trxn =>
              /\ amf'[m.s].awaits = "nothing"
              /\ amf'[m.s].cnx = IF ~m.ok \/ m.kind = "path switch" THEN amf[m.s].cnx
                                 ELSE IF m.kind = "AN release" THEN "DEACTIVATED" ELSE "ACTIVATED"
              /\ m.kind # "step 1" => gnb'[m.s] = gnb[m.s]
              /\ m.kind = "step 1" => gnb'[m.s].asked = TRUE /\ gnb'[m.s].ul = m.teid /\ gnb'[m.s].dl = None
      /\ n4' = n4 \ {m}
      /\ UNCHANGED <<upf, trxn>>
  BY UpdateAnswerExactly
<1>2. PICK s, r : s = m.s /\ r = smf[s].rules
  OBVIOUS
<1>3. CASE Ends(s)
  BY <1>1, <1>2, <1>3 DEF Ends, Phase
<1>4. ~BeingCreated(s, m)
  BY <1>1 DEF BeingCreated, Updates
<1>5. ASSUME Waiting(s, m)
      PROVE  /\ NoMessage(s)' /\ Ready(s)'
             /\ amf'[s].cnx = IF ~m.ok \/ m.kind = "path switch" THEN amf[s].cnx
                              ELSE IF m.kind = "AN release" THEN "DEACTIVATED" ELSE "ACTIVATED"
             /\ m.kind # "step 1" => gnb'[s] = gnb[s]
             /\ m.kind = "step 1" => gnb'[s].asked = TRUE /\ gnb'[s].ul = m.teid /\ gnb'[s].dl = None
  <2>1. smf[s].status = "up" /\ OnlyMessage(s, m) /\ amf[s].trxn = m.trxn
    BY <1>5 DEF Waiting
  <2>2. NoMessage(s)'
    BY <1>1, <1>2, <2>1 DEF OnlyMessage, NoMessage
  <2>3. QED
    BY <1>1, <1>2, <2>1, <2>2 DEF Ready
<1>6. /\ \A t : Uplinked(s, r, t) => Uplinked(s, r, t)'
      /\ Downlinked(s, r) => Downlinked(s, r)'
      /\ Within(s)' = Within(s) /\ Below(s)' = Below(s) /\ Empty(s)' = Empty(s)
      /\ OnlyUplink(s)' = OnlyUplink(s) /\ up'[s] = up[s]
  BY <1>1, <1>2, UpfQuiet
<1>7. smf'[s].rules = r
  BY <1>1, <1>2
<1>8. CASE BeingForwarded(s, m)
  <2>1. /\ Waiting(s, m) /\ m.ok /\ Downlinked(s, r) /\ up[s].fars[2].to = gnb[s].dl
        /\ ~gnb[s].asked /\ gnb[s].dl # None
        /\ BothIds(r) /\ Within(s) /\ Uplinked(s, r, gnb[s].ul)
    BY <1>1, <1>2, <1>8 DEF BeingForwarded
  <2>2. m.kind \in {"establishment", "step 2", "path switch"} /\ (m.kind = "path switch" => amf[s].cnx = "ACTIVATED")
    BY <1>8 DEF BeingForwarded
  <2>3. amf'[s].cnx = "ACTIVATED" /\ gnb'[s] = gnb[s]
    BY <1>5, <2>1, <2>2
  <2>4. Connected(s)'
    BY <1>5, <1>6, <1>7, <2>1, <2>3 DEF Connected
  <2>5. QED
    BY <1>2, <2>4 DEF Phase
<1>9. CASE BeingReleased(s, m)
  <2>1. /\ Waiting(s, m) /\ m.kind = "AN release" /\ gnb[s] = NoTunnel /\ r = NoRules /\ Within(s)
        /\ m.ok /\ Empty(s)
    BY <1>1, <1>2, <1>9 DEF BeingReleased
  <2>2. amf'[s].cnx = "DEACTIVATED" /\ gnb'[s] = gnb[s]
    BY <1>5, <2>1
  <2>3. Idle(s)'
    BY <1>5, <1>6, <1>7, <2>1, <2>2 DEF Idle
  <2>4. QED
    BY <1>2, <2>3 DEF Phase
<1>10. CASE BeingActivated(s, m)
  <2>1. /\ Waiting(s, m) /\ m.kind = "step 1" /\ UplinkIds(r) /\ Below(s)
        /\ m.ok /\ Uplinked(s, r, m.teid) /\ OnlyUplink(s)
    BY <1>1, <1>2, <1>10 DEF BeingActivated
  <2>2. gnb'[s].asked = TRUE /\ gnb'[s].ul = m.teid /\ gnb'[s].dl = None
    BY <1>5, <2>1
  <2>3. Asked(s)'
    BY <1>5, <1>6, <1>7, <2>1, <2>2 DEF Asked
  <2>4. QED
    BY <1>2, <2>3 DEF Phase
<1>11. QED
  BY <1>1, <1>2, <1>3, <1>4, <1>8, <1>9, <1>10, PhaseOfMessage

\* A time-out, a lost connection and a repeated set-up happen to no session that was
\* well, or it is not well after.
LEMMA AccessRegular ==
  ASSUME Inv, NEW s \in Sessions, LoseAn(s) \/ ServiceRequest(s) \/ GiveUp(s)
  PROVE  Regular(s) /\ (Phase(s) => s \notin clean')
<1>1. /\ UNCHANGED <<smf, upf, n4, trxn>> /\ clean' \subseteq clean
  BY DEF LoseAn, ServiceRequest, GiveUp, Upset
<1>2. \A r \in Sessions : r # s => amf'[r] = amf[r] /\ gnb'[r] = gnb[r]
  BY DEF LoseAn, ServiceRequest, GiveUp, SetUpAgain, Inv, TypeOK
<1>3. Confined(s)
  BY <1>1, <1>2 DEF Confined
<1>4. \A t \in Transactions : smf'[s].rules.ul_fteid = t => Holds(s, t)
  BY <1>1 DEF Holds
<1>5. Regular(s)
  BY <1>1, <1>3, <1>4 DEF Regular
<1>6. ASSUME Phase(s) PROVE s \notin clean'
  <2>1. CASE LoseAn(s) \/ GiveUp(s)
    BY <2>1 DEF LoseAn, GiveUp, Upset
  <2>2. CASE ServiceRequest(s)
    <3>1. Ready(s) /\ gnb[s] = NoTunnel /\ amf[s].cnx # "DEACTIVATED"
      BY <2>2 DEF ServiceRequest
    <3>2. Idle(s)
      BY <1>6, <3>1, NoTunnelIsIdle
    <3>3. QED
      BY <3>1, <3>2 DEF Idle
  <2>3. QED
    BY <2>1, <2>2
<1>7. QED
  BY <1>5, <1>6

\* A session of which a message is lost is not well.
LEMMA LoseRegular ==
  ASSUME Inv, NEW m \in n4, Lose(m)
  PROVE  m.s \in Sessions /\ Regular(m.s) /\ m.s \notin clean'
<1>1. /\ n4' = n4 \ {m} /\ clean' = clean \ {m.s} /\ UNCHANGED <<amf, gnb, smf, upf, trxn>>
  BY DEF Lose
<1>2. m.s \in Sessions
  BY MessageTypes DEF Inv
<1>3. Regular(m.s)
  BY <1>1, TakenRegular
<1>4. QED
  BY <1>1, <1>2, <1>3

-----------------------------------------------------------------------------
(* The rules of sessions of which nothing went wrong.                       *)

\* It is preserved by every step.
WellServed == Inv /\ Apart /\ Drawn /\ Course

\* Initially there are no sessions.
LEMMA InitWellServed == Init => WellServed
<1> SUFFICES ASSUME Init PROVE WellServed
  OBVIOUS
<1>1. Inv
  BY InitInv
<1>2. UnknownIsEmpty /\ OwnKeys /\ AddressesApart
  BY DEF Init, UnknownIsEmpty, OwnKeys, AddressesApart, NoSession
<1>3. \A s \in Sessions, t \in Transactions : ~Holds(s, t)
  BY DEF Init, Holds, HasUplink, NoSession, NoRules, None, Transactions
<1>4. TeidsApart
  BY <1>3 DEF TeidsApart
<1>5. Drawn
  BY DEF Init, Drawn, NoRules, None
<1>6. \A s \in Sessions : NotYet(s)
  BY DEF Init, NotYet, Unknowing, NoRules
<1>7. clean \subseteq Sessions /\ Course
  BY <1>6 DEF Init, Course, Phase
<1>8. QED
  BY <1>1, <1>2, <1>4, <1>5, <1>7 DEF WellServed, Apart

\* A step of one session keeps every course.
LEMMA CourseGoesOn ==
  ASSUME Inv, Course, NEW x, clean' \subseteq clean, Phase(x) => Phase(x)' \/ x \notin clean',
         \A s \in Sessions : s # x => Elsewhere(s)
  PROVE  Course'
<1> SUFFICES ASSUME NEW s \in clean' PROVE Phase(s)'
  BY DEF Course
<1>1. s \in Sessions /\ Phase(s)
  BY DEF Course, Inv, TypeOK
<1>2. QED
  BY <1>1, PhaseElsewhere

\* Steps of the UPF.
LEMMA UpfWellServed ==
  ASSUME WellServed, NEW m \in n4,
         CreateRules(m) \/ DropRules(m) \/ UpdateRules(m) \/ DeleteSession(m) \/ ContextNotFound(m)
  PROVE  Apart' /\ Drawn' /\ Course'
<1> USE DEF WellServed
<1>1. UNCHANGED <<smf, trxn, clean>>
  BY DEF CreateRules, DropRules, UpdateRules, DeleteSession, ContextNotFound
<1>2. Drawn'
  BY <1>1 DEF Drawn
<1>3. Apart' /\ (Phase(m.s) => Phase(m.s)') /\ \A s \in Sessions : s # m.s => Elsewhere(s)
  <2>1. CASE CreateRules(m)
    BY <2>1, CreateRulesApart, CreateRulesGoesOn, CreateRulesElsewhere
  <2>2. CASE DropRules(m)
    BY <2>2, DropRulesApart, DropRulesGoesOn
  <2>3. CASE UpdateRules(m)
    BY <2>3, UpdateRulesApart, UpdateRulesGoesOn
  <2>4. QED
    BY <2>1, <2>2, <2>3, DeleteSessionApart, ContextNotFoundApart
<1>4. Course'
  BY <1>1, <1>3, CourseGoesOn
<1>5. QED
  BY <1>2, <1>3, <1>4

\* Steps of the AMF and the SMF.
LEMMA RegularWellServed ==
  ASSUME WellServed, NEW x \in Sessions, Regular(x), Phase(x) => Phase(x)' \/ x \notin clean'
  PROVE  Apart' /\ Drawn' /\ Course'
<1> USE DEF WellServed
<1>1. Apart' /\ Drawn' /\ \A s \in Sessions : s # x => Elsewhere(s)
  BY RegularApart
<1>2. clean' \subseteq clean
  BY DEF Regular, Confined
<1>3. QED
  BY <1>1, <1>2, CourseGoesOn

\* Every step keeps it.
LEMMA NextWellServed == WellServed /\ [Next]_vars => WellServed'
<1> SUFFICES ASSUME WellServed, [Next]_vars PROVE WellServed'
  OBVIOUS
<1>1. Inv /\ Apart /\ Drawn /\ Course
  BY DEF WellServed
<1>2. Inv'
  BY <1>1, NextInv
<1>3. ASSUME NEW m \in n4, Receive(m) \/ Lose(m) PROVE Apart' /\ Drawn' /\ Course'
  <2>1. CASE CreationAnswer(m)
    BY <1>1, <2>1, CreationAnswerRegular, CreationAnswerGoesOn, RegularWellServed
  <2>2. CASE UpdateAnswer(m)
    BY <1>1, <2>2, UpdateAnswerRegular, UpdateAnswerGoesOn, RegularWellServed
  <2>3. CASE DeletionAnswer(m)
    BY <1>1, <2>3, DeletionAnswerRegular, RegularWellServed
  <2>4. CASE Lose(m)
    BY <1>1, <2>4, LoseRegular, RegularWellServed
  <2>5. QED
    BY <1>3, <2>1, <2>2, <2>3, <2>4, UpfWellServed DEF Receive
<1>4. ASSUME NEW s \in Sessions, CreateSmContext(s) PROVE Apart' /\ Drawn' /\ Course'
  BY <1>1, <1>4, CreateSmContextRegular, CreateSmContextGoesOn, RegularWellServed
<1>5. ASSUME NEW s \in Sessions, ResourceSetupResponse(s) \/ PathSwitchRequest(s)
      PROVE  Apart' /\ Drawn' /\ Course'
  <2>1. PICK kind : ForwardDownlink(s, kind)
    BY <1>5 DEF ResourceSetupResponse, PathSwitchRequest
  <2>2. Regular(s)
    BY <1>1, <2>1, ForwardDownlinkRegular
  <2>3. Phase(s) => Phase(s)'
    BY <1>1, <1>5, ForwardDownlinkGoesOn
  <2>4. QED
    BY <2>2, <2>3, RegularWellServed
<1>6. ASSUME NEW s \in Sessions, ReleaseAn(s) PROVE Apart' /\ Drawn' /\ Course'
  BY <1>1, <1>6, ReleaseAnRegular, ReleaseAnGoesOn, RegularWellServed
<1>7. ASSUME NEW s \in Sessions, ActivateUserPlane(s) PROVE Apart' /\ Drawn' /\ Course'
  BY <1>1, <1>7, ActivateUserPlaneRegular, ActivateUserPlaneGoesOn, RegularWellServed
<1>8. ASSUME NEW s \in Sessions, LoseAn(s) \/ ServiceRequest(s) \/ GiveUp(s)
      PROVE  Apart' /\ Drawn' /\ Course'
  BY <1>1, <1>8, AccessRegular, RegularWellServed
<1>9. ASSUME NEW s \in Sessions, ReleaseSmContext(s) PROVE Apart' /\ Drawn' /\ Course'
  BY <1>1, <1>9, ReleaseSmContextRegular, RegularWellServed
<1>10. CASE UNCHANGED vars
  <2>1. UNCHANGED <<amf, gnb, smf, up, ul_n3_teid2pfcp_pdr, ue_ipv4_hbo2pfcp_pdr, n4, trxn, clean>>
    BY <1>10 DEF vars, upf, tables
  <2>2. \A s \in Sessions : Elsewhere(s)
    BY <2>1 DEF Elsewhere, Untouched, TablesStay, Alone
  <2>3. Apart' /\ Drawn'
    BY <1>1, <2>1 DEF Apart, Drawn, UnknownIsEmpty, OwnKeys, AddressesApart, TeidsApart, Holds,
                     HasUplink, Names
  <2>4. Course'
    <3>1. \A s \in clean' : s \in Sessions /\ Phase(s)
      BY <1>1, <2>1 DEF Course, Inv, TypeOK
    <3>2. QED
      BY <1>1, <2>2, <3>1, PhaseElsewhere DEF Course
  <2>5. QED
    BY <1>2, <2>3, <2>4 DEF WellServed
<1>11. QED
  BY <1>2, <1>3, <1>4, <1>5, <1>6, <1>7, <1>8, <1>9, <1>10 DEF Next, WellServed

\* Of one rule and of two, these are the ids.
LEMMA IdsOfFew ==
  ASSUME NEW S, NEW rules \in Seq(S)
  PROVE  /\ rules = <<>> => {rules[i].id : i \in DOMAIN rules} = {}
         /\ Len(rules) = 1 => {rules[i].id : i \in DOMAIN rules} = {rules[1].id}
         /\ Len(rules) = 2 => {rules[i].id : i \in DOMAIN rules} = {rules[1].id, rules[2].id}
<1>1. DOMAIN rules = 1..Len(rules)
  OBVIOUS
<1>2. 1..1 = {1} /\ 1..2 = {1, 2}
  OBVIOUS
<1>3. QED
  BY <1>1, <1>2

\* Such a session's rules are those of which the SMF has the ids.
LEMMA PhaseRulesAgree ==
  ASSUME Inv, NEW s \in Sessions, Phase(s), Ready(s)
  PROVE  NoMessage(s) =>
         /\ {up[s].fars[i].id : i \in DOMAIN up[s].fars}
              = {smf[s].rules.far_ul, smf[s].rules.far_dl} \ {None}
         /\ {up[s].pdrs[i].id : i \in DOMAIN up[s].pdrs}
              = {smf[s].rules.pdr_ul, smf[s].rules.pdr_dl} \ {None}
<1> DEFINE r == smf[s].rules
<1>1. up[s].pdrs \in Seq(Pdrs) /\ up[s].fars \in Seq(Fars)
  BY UpfSessionTypes DEF Inv
<1>2. ASSUME NEW t, Uplinked(s, r, t) PROVE up[s].pdrs[1].id = r.pdr_ul /\ up[s].fars[1].id = r.far_ul
  BY <1>2 DEF Uplinked, Pdr
<1>3. CASE Asked(s)
  <2>1. up[s].pdrs[1].id = r.pdr_ul /\ up[s].fars[1].id = r.far_ul
    BY <1>2, <1>3 DEF Asked
  <2>2. Len(up[s].pdrs) = 1 /\ Len(up[s].fars) = 1 /\ UplinkIds(r)
    BY <1>3 DEF Asked, OnlyUplink
  <2>3. QED
    BY <1>1, <2>1, <2>2, IdsOfFew DEF UplinkIds
<1>4. CASE Connected(s)
  <2>1. up[s].pdrs[1].id = r.pdr_ul /\ up[s].fars[1].id = r.far_ul
    BY <1>2, <1>4 DEF Connected
  <2>2. /\ Len(up[s].pdrs) = 2 /\ Len(up[s].fars) = 2
        /\ up[s].pdrs[2].id = r.pdr_dl /\ up[s].fars[2].id = r.far_dl /\ BothIds(r)
    BY <1>4 DEF Connected, Downlinked, Pdr
  <2>3. QED
    BY <1>1, <2>1, <2>2, IdsOfFew DEF BothIds
<1>5. CASE Idle(s)
  <2>1. up[s].pdrs = <<>> /\ up[s].fars = <<>> /\ r = NoRules
    BY <1>5 DEF Idle, Empty
  <2>2. r.far_ul = None /\ r.far_dl = None /\ r.pdr_ul = None /\ r.pdr_dl = None
    BY <2>1 DEF NoRules
  <2>3. QED
    BY <1>1, <2>1, <2>2, IdsOfFew
<1>6. QED
  BY <1>3, <1>4, <1>5, PhaseOfReady

\* What is looked up in a table is decided by its first PDR.
LEMMA LookUpFirst ==
  ASSUME NEW list, list # <<>>
  PROVE  LET fars == up[list[1].seid].fars
             i == Find(fars, list[1].far)
         IN  LookUp(list) = IF ~up[list[1].seid].known \/ i = 0 THEN Nowhere ELSE fars[i].to
BY DEF LookUp

\* A connected session's packets go to the tunnel and to the core.
LEMMA ConnectedIsServed ==
  ASSUME Inv, NEW s \in Sessions, Connected(s), Alone(s)
  PROVE  Served(s)
<1> DEFINE r == smf[s].rules
           fars == up[s].fars
<1>1. fars \in Seq(Fars) /\ Len(fars) = 2 /\ up[s].known
  BY UpfSessionTypes DEF Inv, Connected, Uplinked, Downlinked
<1>2. fars[1].id = r.far_ul /\ fars[2].id = r.far_dl /\ r.far_ul # r.far_dl
  BY DEF Connected, Uplinked, Downlinked, BothIds
<1>3. Find(fars, r.far_ul) = 1 /\ Find(fars, r.far_dl) = 2
  BY <1>1, <1>2, FindOfTwo
<1>4. fars[1].to = Core /\ fars[2].to = gnb[s].dl
  BY DEF Connected, Uplinked
<1>5. Downlink(smf[s].address) = gnb[s].dl
  <2>1. PICK list : list = ue_ipv4_hbo2pfcp_pdr[smf[s].address]
    OBVIOUS
  <2>2. list # <<>> /\ list[1] = up[s].pdrs[2]
    BY <2>1 DEF Connected, Downlinked, Downlinks
  <2>3. up[s].pdrs[2].seid = s /\ up[s].pdrs[2].far = r.far_dl
    BY DEF Connected, Downlinked, Pdr
  <2>4. LookUp(list) = fars[2].to
    BY <1>1, <1>3, <2>2, <2>3, LookUpFirst
  <2>5. QED
    BY <1>4, <2>1, <2>4 DEF Downlink
<1>6. Uplink(gnb[s].ul) = Core
  <2>1. PICK list : list = ul_n3_teid2pfcp_pdr[gnb[s].ul]
    OBVIOUS
  <2>2. list = <<up[s].pdrs[1]>>
    BY <2>1 DEF Connected, Uplinked
  <2>3. list # <<>> /\ list[1] = up[s].pdrs[1]
    BY <2>2
  <2>4. up[s].pdrs[1].seid = s /\ up[s].pdrs[1].far = r.far_ul
    BY DEF Connected, Uplinked, Pdr
  <2>5. LookUp(list) = fars[1].to
    BY <1>1, <1>3, <2>3, <2>4, LookUpFirst
  <2>6. QED
    BY <1>4, <2>1, <2>5 DEF Uplink
<1>7. QED
  BY <1>5, <1>6 DEF Served

\* An idle session's packets go nowhere.
LEMMA IdleIsNotServed ==
  ASSUME Inv, Apart, NEW s \in Sessions, Idle(s)
  PROVE  /\ Downlink(smf[s].address) = Nowhere
         /\ \A t \in Transactions : HasUplink(t, s) => Uplink(t) = Nowhere
<1>1. up[s].fars = <<>> /\ smf[s].address \in Addresses
  BY DEF Idle, Empty, Ready, Inv, Life, Addressed, Alive
<1>2. \A id : Find(up[s].fars, id) = 0
  <2>1. <<>> \in Seq(Fars) /\ DOMAIN <<>> = {}
    OBVIOUS
  <2>2. QED
    BY <1>1, <2>1, FindNone
<1>3. ASSUME NEW list, list # <<>>, list[1].seid = s \/ ~up[list[1].seid].known
      PROVE  LookUp(list) = Nowhere
  BY <1>2, <1>3, LookUpFirst
<1>4. Downlink(smf[s].address) = Nowhere
  <2>1. PICK list : list = ue_ipv4_hbo2pfcp_pdr[smf[s].address]
    OBVIOUS
  <2>2. CASE list = <<>>
    BY <2>1, <2>2 DEF Downlink, LookUp
  <2>3. CASE list # <<>>
    <3>1. list \in Seq(Pdrs)
      BY <1>1, <2>1 DEF Inv, TypeOK
    <3>2. 1 \in DOMAIN list /\ list[1].seid \in Sessions
      <4>1. 1 \in DOMAIN list /\ list[1] \in Pdrs
        BY <2>3, <3>1
      <4>2. QED
        BY <4>1 DEF Pdrs
    <3>3. HasEntry(smf[s].address, list[1].seid)
      BY <2>1, <3>2 DEF HasEntry
    <3>4. up[list[1].seid].known => smf[list[1].seid].address = smf[s].address
      BY <1>1, <3>2, <3>3 DEF Inv, Life, OwnEntries
    <3>5. smf[s].address # NoAddress
      BY <1>1
    <3>6. up[list[1].seid].known => list[1].seid = s
      BY <3>2, <3>4, <3>5 DEF Apart, AddressesApart
    <3>7. QED
      BY <1>3, <2>1, <2>3, <3>6 DEF Downlink
  <2>4. QED
    BY <2>2, <2>3
<1>5. ASSUME NEW t \in Transactions, HasUplink(t, s) PROVE Uplink(t) = Nowhere
  <2>1. PICK list : list = ul_n3_teid2pfcp_pdr[t]
    OBVIOUS
  <2>2. list \in Seq(Pdrs)
    BY <2>1 DEF Inv, TypeOK
  <2>3. list # <<>>
    BY <1>5, <2>1, <2>2 DEF HasUplink
  <2>4. 1 \in DOMAIN list /\ list[1].seid \in Sessions
    <3>1. 1 \in DOMAIN list /\ list[1] \in Pdrs
      BY <2>2, <2>3
    <3>2. QED
      BY <3>1 DEF Pdrs
  <2>5. Holds(list[1].seid, t) /\ Holds(s, t)
    BY <1>5, <2>1, <2>4 DEF Holds, HasUplink
  <2>6. list[1].seid = s
    BY <2>4, <2>5 DEF Apart, TeidsApart
  <2>7. QED
    BY <1>3, <2>1, <2>3, <2>6 DEF Uplink
<1>6. QED
  BY <1>4, <1>5

\* When nothing is on its way, the UPF's session has the rules of which the SMF has the
\* ids, and no other, however often it was set up, handed over and idle.
THEOREM NoRuleIsLeft == Spec => []RulesAgree
<1>1. WellServed => RulesAgree
  <2> SUFFICES ASSUME WellServed, NEW s \in clean, Ready(s), \A m \in n4 : m.s # s
               PROVE  /\ {up[s].fars[i].id : i \in DOMAIN up[s].fars}
                           = {smf[s].rules.far_ul, smf[s].rules.far_dl} \ {None}
                      /\ {up[s].pdrs[i].id : i \in DOMAIN up[s].pdrs}
                           = {smf[s].rules.pdr_ul, smf[s].rules.pdr_dl} \ {None}
    BY DEF RulesAgree
  <2>1. Inv /\ s \in Sessions /\ Phase(s) /\ NoMessage(s)
    BY DEF WellServed, Course, Inv, TypeOK, NoMessage
  <2>2. QED
    BY <2>1, PhaseRulesAgree
<1>2. QED
  BY <1>1, InitWellServed, NextWellServed, PTL DEF Spec

\* An active session's packets reach the gNB's present tunnel and the core; an idle one's
\* go nowhere, whatever the UPF's tables still hold.
THEOREM SessionsAreServed == Spec => []ServedExactlyWhenActive
<1>1. WellServed => ServedExactlyWhenActive
  <2> SUFFICES ASSUME WellServed, NEW s \in clean
               PROVE  /\ Active(s) /\ Alone(s) => Served(s)
                      /\ Ready(s) /\ amf[s].cnx = "DEACTIVATED" /\ gnb[s] = NoTunnel
                         => /\ Downlink(smf[s].address) = Nowhere
                            /\ \A t \in Transactions : HasUplink(t, s) => Uplink(t) = Nowhere
    BY DEF ServedExactlyWhenActive, HasUplink
  <2>1. Inv /\ Apart /\ s \in Sessions /\ Phase(s)
    BY DEF WellServed, Course, Inv, TypeOK
  <2>2. ASSUME Active(s), Alone(s) PROVE Served(s)
    <3>1. Connected(s)
      BY <2>1, <2>2, TunnelIsConnected DEF Active
    <3>2. QED
      BY <2>1, <2>2, <3>1, ConnectedIsServed
  <2>3. ASSUME Ready(s), gnb[s] = NoTunnel
        PROVE  /\ Downlink(smf[s].address) = Nowhere
               /\ \A t \in Transactions : HasUplink(t, s) => Uplink(t) = Nowhere
    <3>1. Idle(s)
      BY <2>1, <2>3, NoTunnelIsIdle
    <3>2. QED
      BY <2>1, <3>1, IdleIsNotServed
  <2>4. QED
    BY <2>2, <2>3
<1>2. QED
  BY <1>1, InitWellServed, NextWellServed, PTL DEF Spec

=============================================================================
