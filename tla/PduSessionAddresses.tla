------------------------ MODULE PduSessionAddresses ------------------------
(***************************************************************************)
(* The IPv4 addresses of PDU sessions in the SMF: the pool of a DNN         *)
(* (paa_dynamic, ipv4_pool) and the handlers that take addresses from it    *)
(* and give them back.  A Create SM Context request runs in a thread of the *)
(* HTTP server and is cut where another thread can come between; N4         *)
(* responses are handled in the SMF_APP task.                               *)
(*                                                                          *)
(* Addresses are positions in the pool: 0 is ue_pool_range_low.  The DNN is *)
(* of type IPv4, whose pool operations run under m_ipv4_pools.              *)
(***************************************************************************)
EXTENDS Integers, Sequences, FiniteSets

CONSTANTS
    Keys,         \* PDU sessions: a SUPI and a PDU session id
    Static,       \* per key: {} or the static address of its subscription
    num,          \* ue_pool_range_high - ue_pool_range_low
    WordBits,     \* 32 in the code
    MaxCreates,   \* bound of the Create requests
    MaxReleases,  \* bound of the Release requests
    Overlap,      \* whether two Create requests for a key may be handled at once
    UpfAbsent,    \* whether select_up_node may find no UPF
    UpfRejects,   \* whether the UPF may reject an establishment
    InOrder       \* whether N4 responses come in the order of the requests

ASSUME PoolAssumption ==
    num \in Nat /\ WordBits \in Nat \ {0}
ASSUME StaticAssumption ==
    Static \in [Keys -> SUBSET Int] /\ \A k \in Keys : Cardinality(Static[k]) <= 1
ASSUME BoundsAssumption == MaxCreates \in Nat /\ MaxReleases \in Nat
ASSUME SwitchAssumption ==
    {Overlap, UpfAbsent, UpfRejects, InOrder} \subseteq BOOLEAN

Creates == 1..MaxCreates     \* Create requests; r also names the session object
Releases == 1..MaxReleases   \* that request r constructs
NoObject == 0

VARIABLES
    taken,         \* the positions whose bit is set in alloc
    words,         \* number of words of alloc with an index >= 0
    below,         \* the negative indices in alloc
    scids,         \* keys with an entry in scid2smf_context; none is ever erased
    pdu_sessions,  \* per key: the object in the smf_context, or NoObject
    sp,            \* the smf_pdu_session objects
    create,        \* the Create requests
    release,       \* the Release requests
    n4,            \* N4 requests sent and not answered, oldest first
    told           \* history, per object: addresses its UE was told and may use

pool == <<taken, words, below>>
vars == <<pool, scids, pdu_sessions, sp, create, release, n4, told>>

\* The positions of the last word past the end, which the pool marks as taken
\* when it is made; the faults of marking one too many, and none.
PastEndOneMore == num..((num + WordBits - 1) \div WordBits) * WordBits
PastEndUnmarked == {}
PastEnd == num..((num + WordBits - 1) \div WordBits) * WordBits - 1

TypeOK ==
    /\ words \in Nat
    /\ taken \subseteq 0..words * WordBits - 1
    /\ below \subseteq {i \in Int : i < 0}
    /\ scids \subseteq Keys
    /\ pdu_sessions \in [Keys -> Creates \cup {NoObject}]
    /\ sp \in [Creates -> [paa : SUBSET Int, named : BOOLEAN, graph : BOOLEAN]]
    /\ create \in [Creates -> [pc : {"unused", "find", "add", "allocate", "run", "check", "done"},
                               key : Keys, obj : Creates \cup {NoObject},
                               paa : SUBSET Int, accepted : BOOLEAN]]
    /\ release \in [Releases -> [sent : BOOLEAN, obj : Creates \cup {NoObject}, named : BOOLEAN]]
    /\ n4 \in Seq({"create"} \X Creates \cup {"release"} \X Releases)
    /\ told \in [Creates -> SUBSET Int]

Init ==
    /\ taken = PastEnd
    /\ words = (num + WordBits - 1) \div WordBits
    /\ below = {}
    /\ scids = {}
    /\ pdu_sessions = [k \in Keys |-> NoObject]
    /\ sp = [o \in Creates |-> [paa |-> {}, named |-> FALSE, graph |-> FALSE]]
    /\ create \in [Creates -> {[pc |-> "unused", key |-> k, obj |-> NoObject,
                                paa |-> {}, accepted |-> TRUE] : k \in Keys}]
    /\ release = [q \in Releases |-> [sent |-> FALSE, obj |-> NoObject, named |-> FALSE]]
    /\ n4 = <<>>
    /\ told = [o \in Creates |-> {}]

-----------------------------------------------------------------------------
(* ipv4_pool.                                                               *)

\* The positions alloc_free_bit finds clear in the words it has.
FreePositions == (0..words * WordBits - 1) \ taken

\* get_free_paa: the lowest free position.  With a negative index in alloc,
\* alloc.size() is larger than the number of words, and the scan adds one.
alloc_address(p) ==
    \/ /\ p \in FreePositions /\ \A q \in FreePositions : p <= q
       /\ taken' = taken \cup {p}
       /\ UNCHANGED <<words, below>>
    \/ /\ FreePositions = {} /\ below # {}
       /\ p = words * WordBits
       /\ taken' = taken \cup {p}
       /\ words' = words + 1
       /\ UNCHANGED below

\* The fault of an in_pool that leaves the last address out.
release_paa_but_last(addresses) ==
    /\ taken' = taken \ {p \in addresses : p < num - 1}
    /\ UNCHANGED <<words, below>>

\* release_paa: in_pool compares with the upper end alone, so that an address
\* below the pool makes free_bit add a word with a negative index.
release_paa(addresses) ==
    /\ taken' = taken \ {p \in addresses : p < num}
    /\ below' = below \cup {p \div WordBits : p \in {q \in addresses : q < 0}}
    /\ UNCHANGED words

-----------------------------------------------------------------------------
(* Create SM Context.                                                       *)

Handled(r) == create[r].pc \notin {"unused", "done"}

\* smf_app, up to the look-up of the subscription: a session with the same key
\* is dropped from the context.  Its UE has given up the old address.
CreateLookup(r) ==
    LET k == create[r].key IN
    /\ create[r].pc = "unused"
    /\ \A s \in 1..r-1 : create[s].pc # "unused"
    /\ Overlap \/ \A s \in Creates : create[s].key = k => ~Handled(s)
    /\ pdu_sessions' = IF k \in scids THEN [pdu_sessions EXCEPT ![k] = NoObject] ELSE pdu_sessions
    /\ told' = [o \in Creates |-> IF create[o].key = k THEN {} ELSE told[o]]
    /\ create' = [create EXCEPT ![r].pc = "find"]
    /\ UNCHANGED <<pool, scids, sp, release, n4>>

\* The subscription was there: an scid, and find_pdu_session.
CreateFind(r) ==
    LET found == pdu_sessions[create[r].key] IN
    /\ create[r].pc = "find"
    /\ scids' = scids \cup {create[r].key}
    /\ create' = [create EXCEPT ![r].obj = found,
                                ![r].pc = IF found = NoObject THEN "add" ELSE "allocate"]
    /\ UNCHANGED <<pool, pdu_sessions, sp, release, n4, told>>

\* It was not: the request is refused before anything is kept.
CreateRefused(r) ==
    /\ create[r].pc = "find"
    /\ create' = [create EXCEPT ![r].pc = "done"]
    /\ UNCHANGED <<pool, scids, pdu_sessions, sp, release, n4, told>>

\* A new object; add_pdu_session keeps the one that is there, if there is one.
CreateAdd(r) ==
    /\ create[r].pc = "add"
    /\ sp' = [sp EXCEPT ![r].named = TRUE]
    /\ pdu_sessions' = [pdu_sessions EXCEPT ![create[r].key] = IF @ = NoObject THEN r ELSE @]
    /\ create' = [create EXCEPT ![r].obj = r, ![r].pc = "allocate"]
    /\ UNCHANGED <<pool, scids, release, n4, told>>

\* Step 7, and sp->set(paa).  The answer of the PCF was awaited before.
CreateAllocate(r) ==
    LET c == create[r]
        Given(addresses) ==
            /\ sp' = [sp EXCEPT ![c.obj].paa = addresses]
            /\ create' = [create EXCEPT ![r].paa = addresses, ![r].pc = "run"]
    IN
    /\ c.pc = "allocate"
    /\ \/ /\ Static[c.key] # {}
          /\ Given(Static[c.key])
          /\ UNCHANGED pool
       \/ /\ Static[c.key] = {}
          /\ \E p \in 0..words * WordBits : alloc_address(p) /\ Given({p})
       \/ /\ Static[c.key] = {} /\ FreePositions = {} /\ below = {}
          /\ create' = [create EXCEPT ![r].pc = "done"]
          /\ UNCHANGED <<pool, sp>>
    /\ UNCHANGED <<scids, pdu_sessions, release, n4, told>>

\* session_create_sm_context_procedure::run: the graph is given to the session
\* of the context, the request is sent on the graph of the procedure's own.
CreateRun(r) ==
    LET c == create[r]
        s == pdu_sessions[c.key]
        Failed == /\ create' = [create EXCEPT ![r].accepted = FALSE, ![r].pc = "check"]
                  /\ UNCHANGED n4
        Sent == /\ create' = [create EXCEPT ![r].pc = "check"]
                /\ n4' = Append(n4, <<"create", r>>)
    IN
    /\ c.pc = "run"
    /\ \/ s = NoObject /\ Failed /\ UNCHANGED sp
       \/ s # NoObject /\ UpfAbsent /\ Failed /\ UNCHANGED sp
       \/ /\ s # NoObject
          /\ sp' = [sp EXCEPT ![s].graph = TRUE]
          /\ IF s = c.obj \/ sp[c.obj].graph THEN Sent ELSE Failed
    /\ UNCHANGED <<pool, scids, pdu_sessions, release, told>>

\* Step 10: the handler reads the cause of the response it shares with the
\* procedure, which may have been answered already, and frees the address.
CreateCheck(r) ==
    /\ create[r].pc = "check"
    /\ IF create[r].accepted THEN UNCHANGED pool ELSE release_paa(create[r].paa)
    /\ create' = [create EXCEPT ![r].pc = "done"]
    /\ UNCHANGED <<scids, pdu_sessions, sp, release, n4, told>>

-----------------------------------------------------------------------------
(* N4 responses and Release SM Context.                                     *)

\* The answer to the i-th request arrives, or one that overtakes it was lost.
Answered(i) ==
    n4' = IF InOrder THEN SubSeq(n4, i + 1, Len(n4))
                     ELSE SubSeq(n4, 1, i - 1) \o SubSeq(n4, i + 1, Len(n4))

EstablishmentResponse(i, r) ==
    /\ n4[i] = <<"create", r>>
    /\ Answered(i)
    /\ \/ told' = [told EXCEPT ![create[r].obj] = @ \cup create[r].paa] /\ UNCHANGED create
       \/ /\ UpfRejects
          /\ create' = [create EXCEPT ![r].accepted = FALSE]
          /\ UNCHANGED told
    /\ UNCHANGED <<pool, scids, pdu_sessions, sp, release>>

\* Accepted when the session has a graph; any number may be under way.
ReleaseRequest(q, k) ==
    LET o == pdu_sessions[k] IN
    /\ ~release[q].sent
    /\ \A s \in 1..q-1 : release[s].sent
    /\ k \in scids /\ o # NoObject /\ sp[o].graph
    /\ release' = [release EXCEPT ![q] = [sent |-> TRUE, obj |-> o, named |-> sp[o].named]]
    /\ n4' = Append(n4, <<"release", q>>)
    /\ UNCHANGED <<pool, scids, pdu_sessions, sp, create, told>>

\* smf_pdu_session::clear(); and the fault of forgetting the address in it.
NotCleared(o) == sp
Cleared(o) == [sp EXCEPT ![o].paa = {}, ![o].named = FALSE]

\* Whatever the cause in it: deallocate_ressources and clear().  The session
\* stays in the context; without its DNN's name its address stays in the pool.
DeletionResponse(i, q) ==
    LET o == release[q].obj IN
    /\ n4[i] = <<"release", q>>
    /\ Answered(i)
    /\ IF release[q].named THEN release_paa(sp[o].paa) ELSE UNCHANGED pool
    /\ sp' = Cleared(o)
    /\ told' = [told EXCEPT ![o] = {}]
    /\ UNCHANGED <<scids, pdu_sessions, create, release>>

-----------------------------------------------------------------------------
Next ==
    \/ \E r \in Creates :
         \/ CreateLookup(r) \/ CreateFind(r) \/ CreateRefused(r) \/ CreateAdd(r)
         \/ CreateAllocate(r) \/ CreateRun(r) \/ CreateCheck(r)
    \/ \E q \in Releases, k \in Keys : ReleaseRequest(q, k)
    \/ \E i \in 1..Len(n4) :
         \/ \E r \in Creates : EstablishmentResponse(i, r)
         \/ \E q \in Releases : DeletionResponse(i, q)

Spec == Init /\ [][Next]_vars

-----------------------------------------------------------------------------
(* Properties.                                                              *)

\* Two PDU sessions that were both told an address, and may use it, never have
\* the same one: no address goes back to the pool under a session in use.
NoSharedAddress ==
    \A o, p \in Creates :
      create[o].key # create[p].key => told[o] \cap told[p] = {}

\* Every address of the pool that is out is recorded by a session object, so
\* that releasing that session can bring it back: no order of requests, of
\* rejections and of releases makes one unreachable in the tables themselves.
TakenIsRecorded ==
    taken \cap 0..num-1 \subseteq UNION {sp[o].paa : o \in Creates}

\* No UE gets an address past the end of the pool, however addresses come and
\* go and whatever static addresses are released into it.
StaysInPool ==
    \A r \in Creates : Static[create[r].key] = {} => create[r].paa \subseteq 0..num-1

\* What the code says of a colliding request ("Delete the local context
\* (including and any associated resources in the UPF and PCF)"): an address
\* that is out of the pool belongs to a session of a context, or to a request
\* that is still being handled or answered.
NothingIsLeaked ==
    taken \ PastEnd \subseteq
        UNION ({sp[pdu_sessions[k]].paa : k \in {l \in Keys : pdu_sessions[l] # NoObject}} \cup
               {create[r].paa : r \in {s \in Creates : Handled(s)}} \cup
               {create[r].paa : r \in {s \in Creates : <<"create", s>> \in {n4[i] : i \in DOMAIN n4}}})

\* "First UE IPv4 ... Last UE IPv4": the pool turns a request down only when all
\* its addresses, first to last, are with a session.
WholeRangeIsUsed ==
    FreePositions = {} => 0..num \subseteq UNION {sp[o].paa : o \in Creates}
=============================================================================
