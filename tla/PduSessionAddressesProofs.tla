---------------------- MODULE PduSessionAddressesProofs ----------------------
(***************************************************************************)
(* Proofs about PduSessionAddresses, for any pool, sessions and numbers of  *)
(* requests: addresses stay in the pool, are recorded while they are out,   *)
(* and are not shared.                                                      *)
(***************************************************************************)
EXTENDS PduSessionAddresses, SequenceTheorems, TLAPS

USE PoolAssumption, StaticAssumption, BoundsAssumption, SwitchAssumption

-----------------------------------------------------------------------------
(* Whatever the switches.                                                   *)

\* Words of the pool when it is made.
FirstWords == (num + WordBits - 1) \div WordBits

SomeStaticBelow == \E k \in Keys : \E p \in Static[k] : p < 0

\* What is to be released has an object.
Referred ==
    /\ \A q \in Releases : release[q].sent => release[q].obj \in Creates
    /\ \A i \in DOMAIN n4 : n4[i][1] = "release" => release[n4[i][2]].sent
    /\ \A r \in Creates : create[r].pc \in {"allocate", "run", "check"} => create[r].obj \in Creates

\* The pool keeps its end closed and grows by addresses below it alone, which only a
\* subscription gives.
PoolKept ==
    /\ PastEnd \subseteq taken
    /\ below = {} => words = FirstWords
    /\ below # {} => SomeStaticBelow
    /\ \A r \in Creates : \A p \in sp[r].paa \cup create[r].paa : p < 0 => SomeStaticBelow

InPool == ~SomeStaticBelow => StaysInPool

Base == Referred /\ PoolKept /\ InPool

-----------------------------------------------------------------------------
(* One Create request at a time for a key.                                  *)

\* A request works on an object of its own, which the context has.
OwnObject ==
    /\ \A r \in Creates : create[r].obj \in {r, NoObject}
    /\ \A k \in Keys : pdu_sessions[k] # NoObject =>
         /\ k \in scids /\ create[pdu_sessions[k]].key = k
         /\ create[pdu_sessions[k]].pc \notin {"unused", "find", "add"}
    /\ \A r \in Creates : create[r].pc \in {"find", "add"} => pdu_sessions[create[r].key] = NoObject
    /\ \A r \in Creates : create[r].pc = "add" => create[r].key \in scids
    /\ \A r \in Creates : create[r].pc \in {"allocate", "run"} =>
         create[r].obj = r /\ pdu_sessions[create[r].key] = r
    /\ \A r, s \in Creates : Handled(r) /\ Handled(s) /\ create[r].key = create[s].key => r = s

\* A session keeps its DNN's name as long as it has an address.
Named ==
    /\ \A r \in Creates : create[r].pc \in {"unused", "find", "add", "allocate"} => sp[r].paa = {}
    /\ \A r \in Creates : create[r].pc = "allocate" \/ sp[r].paa # {} => sp[r].named
    /\ \A r \in Creates : sp[r].graph => create[r].pc \in {"check", "done"}
    /\ \A q \in Releases : release[q].sent =>
         /\ create[release[q].obj].pc \in {"check", "done"}
         /\ ~release[q].named => sp[release[q].obj].paa = {}

Serial == OwnObject /\ Named /\ TakenIsRecorded

-----------------------------------------------------------------------------
(* And no UPF rejects, or answers out of order; subscriptions share nothing. *)

\* Static addresses are apart from each other, from the pool, and from what it grows by.
StaticsApart ==
    /\ \A k, l \in Keys : k # l => Static[k] \cap Static[l] = {}
    /\ \A k \in Keys : \A p \in Static[k] : p \notin 0..num-1
    /\ SomeStaticBelow => \A k \in Keys : \A p \in Static[k] : p < 0

\* The addresses the object of r still has out.
Held(r) == IF ~create[r].accepted /\ create[r].pc = "done" THEN {} ELSE sp[r].paa

\* A request that failed was never sent: its object cannot be released.
Accepting ==
    /\ \A r \in Creates : ~create[r].accepted =>
         create[r].pc \in {"check", "done"} /\ ~sp[r].graph /\ sp[r].paa = create[r].paa
    /\ \A r \in Creates : create[r].pc = "run" => sp[r].paa = create[r].paa
    /\ \A q \in Releases : release[q].sent => create[release[q].obj].accepted

\* What was sent and not answered still has its address: its release comes after it.
SentInOrder ==
    /\ \A i \in DOMAIN n4 : n4[i][1] = "create" =>
         /\ create[n4[i][2]].accepted /\ create[n4[i][2]].pc \in {"check", "done"}
         /\ sp[n4[i][2]].paa = create[n4[i][2]].paa
    /\ \A i, j \in DOMAIN n4 :
         n4[i][1] = "create" /\ n4[j][1] = "release" /\ release[n4[j][2]].obj = n4[i][2] => i < j

\* Addresses of different objects are different, and a UE was told only those of its object.
Apart ==
    /\ \A r \in Creates : told[r] \subseteq Held(r)
    /\ \A r \in Creates : told[r] # {} => create[r].accepted /\ create[r].pc \in {"check", "done"}
    /\ \A r \in Creates : Static[create[r].key] # {} => sp[r].paa \subseteq Static[create[r].key]
    /\ \A r \in Creates : Static[create[r].key] = {} =>
         /\ Held(r) \subseteq taken
         /\ \A k \in Keys : sp[r].paa \cap Static[k] = {}
    /\ \A r, s \in Creates :
         Static[create[r].key] = {} /\ Static[create[s].key] = {} /\ r # s => Held(r) \cap Held(s) = {}

-----------------------------------------------------------------------------
(* Words and addresses.                                                     *)

\* The pool is made with whole words, and what follows its end in the last is no address
\* of it; a position below the pool is in a word below it.
LEMMA Words ==
  /\ FirstWords \in Nat
  /\ FirstWords * WordBits \in Nat /\ FirstWords * WordBits <= num + WordBits - 1 /\ num <= FirstWords * WordBits
  /\ PastEnd = num..FirstWords * WordBits - 1
  /\ \A p \in Int : p < 0 => p \div WordBits \in {i \in Int : i < 0}
  /\ \A w \in Nat : w * WordBits \in Nat /\ (w + 1) * WordBits = w * WordBits + WordBits
<1>1. ASSUME NEW p \in Int
      PROVE  /\ p \div WordBits \in Int
             /\ WordBits * (p \div WordBits) \in Int
             /\ WordBits * (p \div WordBits) <= p /\ p < WordBits * (p \div WordBits) + WordBits
  OBVIOUS
<1>2. ASSUME NEW p \in Int, p < 0
      PROVE  p \div WordBits < 0
  <2>1. PICK d \in Int : d = p \div WordBits
    BY <1>1
  <2>2. WordBits * d <= p
    BY <1>1, <2>1
  <2>3. ASSUME d >= 0 PROVE WordBits * d >= 0
    BY <2>3
  <2>4. QED
    BY <1>2, <2>1, <2>2, <2>3
<1>3. PICK n \in Int : n = FirstWords
  BY <1>1 DEF FirstWords
<1>4. WordBits * n \in Int /\ WordBits * n <= num + WordBits - 1 /\ num + WordBits - 1 < WordBits * n + WordBits
  BY <1>1, <1>3 DEF FirstWords
<1>5. n >= 0
  <2>1. ASSUME n <= -1 PROVE FALSE
    <3>1. WordBits * n <= -WordBits
      BY <2>1
    <3>2. QED
      BY <1>4, <3>1
  <2>2. QED
    BY <2>1
<1>6. n * WordBits = WordBits * n
  OBVIOUS
<1>7. PastEnd = num..n * WordBits - 1
  BY <1>3 DEF PastEnd, FirstWords
<1>8. \A w \in Nat : w * WordBits \in Nat /\ (w + 1) * WordBits = w * WordBits + WordBits
  OBVIOUS
<1>9. QED
  BY <1>1, <1>2, <1>3, <1>4, <1>5, <1>6, <1>7, <1>8

\* An allocated position was free; the pool keeps its end, and grows only past it.
LEMMA Allocated ==
  ASSUME TypeOK, PoolKept, NEW p \in 0..words * WordBits, alloc_address(p)
  PROVE  /\ p \in Nat /\ p \notin taken /\ taken' = taken \cup {p} /\ below' = below
         /\ words' \in Nat /\ taken' \subseteq 0..words' * WordBits - 1
         /\ PastEnd \subseteq taken' /\ (below = {} => words' = words)
         /\ p \in 0..num-1 \/ (p >= num /\ SomeStaticBelow)
<1>1. words \in Nat /\ taken \subseteq 0..words * WordBits - 1 /\ words * WordBits \in Nat
  BY Words DEF TypeOK
<1>2. CASE /\ p \in FreePositions /\ taken' = taken \cup {p} /\ UNCHANGED <<words, below>>
  <2>1. p \in 0..words * WordBits - 1 /\ p \notin taken
    BY <1>2 DEF FreePositions
  <2>2. p \in 0..num-1 \/ (p >= num /\ SomeStaticBelow)
    <3>1. CASE below = {}
      BY <1>1, <2>1, <3>1, Words DEF PoolKept
    <3>2. CASE below # {}
      BY <1>1, <2>1, <3>2 DEF PoolKept
    <3>3. QED
      BY <3>1, <3>2
  <2>3. QED
    BY <1>1, <1>2, <2>1, <2>2 DEF PoolKept
<1>3. CASE /\ FreePositions = {} /\ below # {} /\ p = words * WordBits
           /\ taken' = taken \cup {p} /\ words' = words + 1 /\ UNCHANGED below
  <2>1. p \in Nat /\ p \notin taken
    BY <1>1, <1>3
  <2>2. words' \in Nat /\ words' * WordBits = words * WordBits + WordBits
    BY <1>1, <1>3, Words
  <2>3. taken' \subseteq 0..words' * WordBits - 1
    <3>1. PICK m \in Nat : m = words * WordBits
      BY <1>1
    <3>2. words' * WordBits = m + WordBits
      BY <2>2, <3>1
    <3>3. ASSUME NEW x \in taken' PROVE x \in 0..m + WordBits - 1
      <4>1. x \in 0..m - 1 \/ x = m
        BY <1>1, <1>3, <3>1, <3>3
      <4>2. QED
        BY <3>1, <4>1
    <3>4. QED
      BY <3>2, <3>3
  <2>4. QED
    BY <1>3, <2>1, <2>2, <2>3 DEF PoolKept
<1>4. QED
  BY <1>2, <1>3 DEF alloc_address

\* What is released leaves the pool's end closed.
LEMMA Freed ==
  ASSUME TypeOK, PoolKept, NEW addresses \in SUBSET Int, release_paa(addresses)
  PROVE  /\ taken' = taken \ {p \in addresses : p < num} /\ words' = words
         /\ below' \subseteq {i \in Int : i < 0} /\ below \subseteq below'
         /\ below' # below => \E p \in addresses : p < 0
         /\ PastEnd \subseteq taken'
<1>1. /\ taken' = taken \ {p \in addresses : p < num} /\ words' = words
      /\ below' = below \cup {p \div WordBits : p \in {q \in addresses : q < 0}}
  BY DEF release_paa
<1>2. {p \div WordBits : p \in {q \in addresses : q < 0}} \subseteq {i \in Int : i < 0}
  BY Words
<1>3. below' \subseteq {i \in Int : i < 0} /\ below \subseteq below'
  BY <1>1, <1>2 DEF TypeOK
<1>4. below' # below => \E p \in addresses : p < 0
  BY <1>1
<1>5. PastEnd \subseteq taken'
  BY <1>1, Words DEF PoolKept
<1>6. QED
  BY <1>1, <1>3, <1>4, <1>5

\* What is left of the N4 requests when one is answered.
LEMMA QueueAnswered ==
  ASSUME TypeOK, NEW i \in 1..Len(n4), Answered(i)
  PROVE  /\ n4' \in Seq({"create"} \X Creates \cup {"release"} \X Releases)
         /\ \A j \in DOMAIN n4' : \E k \in DOMAIN n4 : n4'[j] = n4[k]
         /\ InOrder => \A j \in DOMAIN n4' : j \in Nat /\ j > 0 /\ j + i \in DOMAIN n4 /\ n4'[j] = n4[j + i]
<1> DEFINE M == {"create"} \X Creates \cup {"release"} \X Releases
<1>1. n4 \in Seq(M) /\ i \in Nat \ {0} /\ Len(n4) \in Nat /\ i <= Len(n4) /\ InOrder \in BOOLEAN
      /\ DOMAIN n4 = 1..Len(n4)
  BY DEF TypeOK
<1> HIDE DEF M
<1>2. CASE InOrder
  <2>1. n4' = SubSeq(n4, i + 1, Len(n4))
    BY <1>2 DEF Answered
  <2>2. n4' \in Seq(M) /\ DOMAIN n4' = 1..Len(n4) - i /\ \A j \in 1..Len(n4) - i : n4'[j] = n4[j + i]
    BY <1>1, <2>1
  <2>3. \A j \in 1..Len(n4) - i : j \in Nat /\ j > 0 /\ j + i \in DOMAIN n4
    BY <1>1
  <2>4. QED
    BY <2>2, <2>3 DEF M
<1>3. CASE ~InOrder
  <2>1. PICK a, b : /\ a = SubSeq(n4, 1, i - 1) /\ b = SubSeq(n4, i + 1, Len(n4)) /\ n4' = a \o b
    BY <1>3 DEF Answered
  <2>2. /\ a \in Seq(M) /\ Len(a) = i - 1 /\ \A j \in 1..i - 1 : a[j] = n4[j]
    BY <1>1, <2>1
  <2>3. /\ b \in Seq(M) /\ Len(b) = Len(n4) - i /\ \A j \in 1..Len(n4) - i : b[j] = n4[j + i]
    <3>1. \A j \in i + 1..Len(n4) : n4[j] \in M
      BY <1>1
    <3>2. b = SubSeq(n4, i + 1, Len(n4)) /\ i + 1 \in Int /\ Len(n4) \in Int
      BY <1>1, <2>1
    <3>3. /\ b \in Seq(M) /\ Len(b) = IF i + 1 <= Len(n4) THEN Len(n4) - (i + 1) + 1 ELSE 0
          /\ \A j \in 1..Len(n4) - (i + 1) + 1 : b[j] = n4[(i + 1) + j - 1]
      BY <3>1, <3>2, SubSeqProperties
    <3>4. Len(b) = Len(n4) - i
      <4>1. CASE i + 1 <= Len(n4)
        <5>1. Len(b) = Len(n4) - (i + 1) + 1
          BY <3>3, <4>1
        <5>2. QED
          BY <1>1, <5>1
      <4>2. CASE ~(i + 1 <= Len(n4))
        <5>1. Len(b) = 0
          BY <3>3, <4>2
        <5>2. PICK n \in Nat : n = Len(n4)
          BY <1>1
        <5>3. i \in Nat /\ i <= n /\ ~(i + 1 <= n)
          BY <1>1, <4>2, <5>2
        <5>4. n - i = 0
          BY <5>3
        <5>5. QED
          BY <5>1, <5>2, <5>4
      <4>3. QED
        BY <4>1, <4>2
    <3>5. ASSUME NEW j \in 1..Len(n4) - i PROVE b[j] = n4[j + i]
      <4>1. j \in 1..Len(n4) - (i + 1) + 1 /\ (i + 1) + j - 1 = j + i
        BY <1>1
      <4>2. QED
        BY <3>3, <4>1
    <3>6. QED
      BY <3>3, <3>4, <3>5
  <2>4. /\ n4' \in Seq(M) /\ DOMAIN n4' = 1..Len(n4) - 1
        /\ \A j \in 1..Len(n4) - 1 : n4'[j] = IF j <= i - 1 THEN a[j] ELSE b[j - (i - 1)]
    <3>1. n4' \in Seq(M) /\ Len(n4') = Len(a) + Len(b)
          /\ \A j \in 1..Len(a) + Len(b) : n4'[j] = IF j <= Len(a) THEN a[j] ELSE b[j - Len(a)]
      <4>1. a \in Seq(M) /\ b \in Seq(M) /\ n4' = a \o b
        BY <2>1, <2>2, <2>3
      <4>2. QED
        BY <4>1, ConcatProperties
    <3>2. Len(a) + Len(b) = Len(n4) - 1
      BY <1>1, <2>2, <2>3
    <3>3. QED
      BY <2>2, <3>1, <3>2
  <2>5. ASSUME NEW j \in 1..Len(n4) - 1 PROVE \E k \in DOMAIN n4 : n4'[j] = n4[k]
    <3>1. CASE j <= i - 1
      <4>1. j \in 1..i - 1 /\ j \in DOMAIN n4
        BY <1>1, <3>1
      <4>2. n4'[j] = a[j] /\ a[j] = n4[j]
        BY <2>2, <2>4, <3>1, <4>1
      <4>3. QED
        BY <4>1, <4>2
    <3>2. CASE ~(j <= i - 1)
      <4>1. j - (i - 1) \in 1..Len(n4) - i /\ j - (i - 1) + i \in DOMAIN n4
        BY <1>1, <3>2
      <4>2. QED
        BY <2>3, <2>4, <3>2, <4>1
    <3>3. QED
      BY <3>1, <3>2
  <2>6. QED
    BY <1>3, <2>4, <2>5 DEF M
<1>4. QED
  BY <1>2, <1>3

-----------------------------------------------------------------------------
(* Types.                                                                   *)

\* The requests and session objects start, and stay, in their types.
LEMMA InitBase == Init => TypeOK /\ Base
<1> SUFFICES ASSUME Init PROVE TypeOK /\ Base
  OBVIOUS
<1>1. words \in Nat /\ taken \subseteq 0..words * WordBits - 1 /\ words = FirstWords /\ taken = PastEnd
  <2>1. words = FirstWords /\ taken = PastEnd
    BY DEF Init, FirstWords
  <2>2. QED
    BY <2>1, Words
<1>2. create \in [Creates -> {[pc |-> "unused", key |-> k, obj |-> NoObject, paa |-> {}, accepted |-> TRUE] : k \in Keys}]
  BY DEF Init
<1>3. \A r \in Creates : create[r].pc = "unused" /\ create[r].paa = {} /\ sp[r].paa = {}
  BY <1>2 DEF Init
<1>4. create \in [Creates -> [pc : {"unused", "find", "add", "allocate", "run", "check", "done"},
                              key : Keys, obj : Creates \cup {NoObject},
                              paa : SUBSET Int, accepted : BOOLEAN]]
  <2>1. PICK S, R : /\ S = {[pc |-> "unused", key |-> k, obj |-> NoObject, paa |-> {}, accepted |-> TRUE] : k \in Keys}
                    /\ R = [pc : {"unused", "find", "add", "allocate", "run", "check", "done"},
                            key : Keys, obj : Creates \cup {NoObject}, paa : SUBSET Int, accepted : BOOLEAN]
    OBVIOUS
  <2>2. ASSUME NEW x \in S PROVE x \in R
    <3>1. PICK k \in Keys : x = [pc |-> "unused", key |-> k, obj |-> NoObject, paa |-> {}, accepted |-> TRUE]
      BY <2>1
    <3>2. {} \in SUBSET Int /\ TRUE \in BOOLEAN
      OBVIOUS
    <3>3. QED
      BY <2>1, <3>1, <3>2
  <2>3. create \in [Creates -> S]
    BY <1>2, <2>1
  <2>4. create \in [Creates -> R]
    BY <2>2, <2>3
  <2>5. QED
    BY <2>1, <2>4
<1>5. /\ below = {} /\ scids = {} /\ pdu_sessions \in [Keys -> Creates \cup {NoObject}]
      /\ sp \in [Creates -> [paa : SUBSET Int, named : BOOLEAN, graph : BOOLEAN]]
      /\ told \in [Creates -> SUBSET Int]
  BY DEF Init
<1>6. /\ release \in [Releases -> [sent : BOOLEAN, obj : Creates \cup {NoObject}, named : BOOLEAN]]
      /\ \A q \in Releases : ~release[q].sent
  BY DEF Init
<1>7. n4 \in Seq({"create"} \X Creates \cup {"release"} \X Releases) /\ DOMAIN n4 = {}
  BY DEF Init
<1>8. TypeOK
  BY <1>1, <1>4, <1>5, <1>6, <1>7 DEF TypeOK
<1>9. Referred
  BY <1>3, <1>6, <1>7 DEF Referred
<1>10. PoolKept
  BY <1>1, <1>3, <1>5 DEF PoolKept
<1>11. InPool
  BY <1>3 DEF InPool, StaysInPool
<1>12. QED
  BY <1>8, <1>9, <1>10, <1>11 DEF Base

\* The fields of a request and of its object.
LEMMA Fields ==
  ASSUME TypeOK
  PROVE  /\ \A r \in Creates :
              /\ create[r].pc \in {"unused", "find", "add", "allocate", "run", "check", "done"}
              /\ create[r].key \in Keys /\ create[r].obj \in Creates \cup {NoObject}
              /\ create[r].paa \in SUBSET Int /\ create[r].accepted \in BOOLEAN
              /\ sp[r].paa \in SUBSET Int /\ sp[r].named \in BOOLEAN /\ sp[r].graph \in BOOLEAN
              /\ told[r] \in SUBSET Int /\ r # NoObject
         /\ \A k \in Keys : pdu_sessions[k] \in Creates \cup {NoObject} /\ Static[k] \in SUBSET Int
         /\ \A q \in Releases : release[q].sent \in BOOLEAN /\ release[q].obj \in Creates \cup {NoObject}
                                /\ release[q].named \in BOOLEAN
<1>1. \A r \in Creates :
        /\ create[r].pc \in {"unused", "find", "add", "allocate", "run", "check", "done"}
        /\ create[r].key \in Keys /\ create[r].obj \in Creates \cup {NoObject}
        /\ create[r].paa \in SUBSET Int /\ create[r].accepted \in BOOLEAN
  BY DEF TypeOK
<1>2. \A r \in Creates : sp[r].paa \in SUBSET Int /\ sp[r].named \in BOOLEAN /\ sp[r].graph \in BOOLEAN
  BY DEF TypeOK
<1>3. \A r \in Creates : told[r] \in SUBSET Int /\ r # NoObject
  BY DEF TypeOK, Creates, NoObject
<1>4. \A k \in Keys : pdu_sessions[k] \in Creates \cup {NoObject} /\ Static[k] \in SUBSET Int
  BY DEF TypeOK
<1>5. \A q \in Releases : release[q].sent \in BOOLEAN /\ release[q].obj \in Creates \cup {NoObject}
                          /\ release[q].named \in BOOLEAN
  BY DEF TypeOK
<1>6. QED
  BY <1>1, <1>2, <1>3, <1>4, <1>5

\* The requests an answer may be for.
LEMMA QueueEntry ==
  ASSUME TypeOK, NEW i \in DOMAIN n4
  PROVE  \/ n4[i][1] = "create" /\ n4[i][2] \in Creates /\ n4[i] = <<"create", n4[i][2]>>
         \/ n4[i][1] = "release" /\ n4[i][2] \in Releases /\ n4[i] = <<"release", n4[i][2]>>
<1>1. n4[i] \in {"create"} \X Creates \cup {"release"} \X Releases
  BY DEF TypeOK
<1>2. QED
  BY <1>1

\* What a step makes of a request, and of a session object; the others stay.
CreateRec == [pc : {"unused", "find", "add", "allocate", "run", "check", "done"},
              key : Keys, obj : Creates \cup {NoObject}, paa : SUBSET Int, accepted : BOOLEAN]
SessionRec == [paa : SUBSET Int, named : BOOLEAN, graph : BOOLEAN]

CreateBecomes(r, pc, obj, paa, accepted) ==
    /\ create' \in [Creates -> CreateRec]
    /\ \A s \in Creates : s # r => create'[s] = create[s]
    /\ \A s \in Creates : create'[s].key = create[s].key
    /\ create'[r].pc = pc /\ create'[r].obj = obj /\ create'[r].paa = paa /\ create'[r].accepted = accepted

SessionBecomes(o, paa, named, graph) ==
    /\ sp' \in [Creates -> SessionRec]
    /\ \A s \in Creates : s # o => sp'[s] = sp[s]
    /\ sp'[o].paa = paa /\ sp'[o].named = named /\ sp'[o].graph = graph

\* A request is replaced by one with the same key.
LEMMA Replaced ==
  ASSUME TypeOK, NEW r \in Creates, NEW c \in CreateRec, c.key = create[r].key, create' = [create EXCEPT ![r] = c]
  PROVE  CreateBecomes(r, c.pc, c.obj, c.paa, c.accepted)
<1>1. create \in [Creates -> CreateRec]
  BY DEF TypeOK, CreateRec
<1>2. create' \in [Creates -> CreateRec] /\ \A s \in Creates : create'[s] = IF s = r THEN c ELSE create[s]
  BY <1>1
<1>3. QED
  BY <1>2 DEF CreateBecomes

\* What each update of a request makes of it.
LEMMA CreateUpdates ==
  ASSUME TypeOK, NEW r \in Creates
  PROVE  /\ \A pc \in {"find", "check", "done"} :
              create' = [create EXCEPT ![r].pc = pc] =>
                CreateBecomes(r, pc, create[r].obj, create[r].paa, create[r].accepted)
         /\ \A pc \in {"add", "allocate"}, o \in Creates \cup {NoObject} :
              create' = [create EXCEPT ![r].obj = o, ![r].pc = pc] =>
                CreateBecomes(r, pc, o, create[r].paa, create[r].accepted)
         /\ \A paa \in SUBSET Int :
              create' = [create EXCEPT ![r].paa = paa, ![r].pc = "run"] =>
                CreateBecomes(r, "run", create[r].obj, paa, create[r].accepted)
         /\ create' = [create EXCEPT ![r].accepted = FALSE, ![r].pc = "check"] =>
              CreateBecomes(r, "check", create[r].obj, create[r].paa, FALSE)
         /\ create' = [create EXCEPT ![r].accepted = FALSE] =>
              CreateBecomes(r, create[r].pc, create[r].obj, create[r].paa, FALSE)
<1>1. create[r] \in CreateRec
  BY DEF TypeOK, CreateRec
<1>2. ASSUME NEW pc \in {"find", "check", "done"}, create' = [create EXCEPT ![r].pc = pc]
      PROVE  CreateBecomes(r, pc, create[r].obj, create[r].paa, create[r].accepted)
  <2>1. PICK c : c = [create[r] EXCEPT !.pc = pc]
    OBVIOUS
  <2>2. create' = [create EXCEPT ![r] = c]
    BY <1>2, <2>1
  <2>3. /\ c \in CreateRec /\ c.pc = pc /\ c.key = create[r].key
        /\ c.obj = create[r].obj /\ c.paa = create[r].paa /\ c.accepted = create[r].accepted
    BY <1>1, <2>1 DEF CreateRec
  <2>4. QED
    BY <2>2, <2>3, Replaced
<1>3. ASSUME NEW pc \in {"add", "allocate"}, NEW o \in Creates \cup {NoObject},
             create' = [create EXCEPT ![r].obj = o, ![r].pc = pc]
      PROVE  CreateBecomes(r, pc, o, create[r].paa, create[r].accepted)
  <2>1. PICK c : c = [create[r] EXCEPT !.obj = o, !.pc = pc]
    OBVIOUS
  <2>2. create' = [create EXCEPT ![r] = c]
    BY <1>3, <2>1
  <2>3. /\ c \in CreateRec /\ c.pc = pc /\ c.key = create[r].key
        /\ c.obj = o /\ c.paa = create[r].paa /\ c.accepted = create[r].accepted
    BY <1>1, <2>1 DEF CreateRec
  <2>4. QED
    BY <2>2, <2>3, Replaced
<1>4. ASSUME NEW paa \in SUBSET Int, create' = [create EXCEPT ![r].paa = paa, ![r].pc = "run"]
      PROVE  CreateBecomes(r, "run", create[r].obj, paa, create[r].accepted)
  <2>1. PICK c : c = [create[r] EXCEPT !.paa = paa, !.pc = "run"]
    OBVIOUS
  <2>2. create' = [create EXCEPT ![r] = c]
    BY <1>4, <2>1
  <2>3. /\ c \in CreateRec /\ c.pc = "run" /\ c.key = create[r].key
        /\ c.obj = create[r].obj /\ c.paa = paa /\ c.accepted = create[r].accepted
    BY <1>1, <2>1 DEF CreateRec
  <2>4. QED
    BY <2>2, <2>3, Replaced
<1>5. ASSUME create' = [create EXCEPT ![r].accepted = FALSE, ![r].pc = "check"]
      PROVE  CreateBecomes(r, "check", create[r].obj, create[r].paa, FALSE)
  <2>1. PICK c : c = [create[r] EXCEPT !.accepted = FALSE, !.pc = "check"]
    OBVIOUS
  <2>2. create' = [create EXCEPT ![r] = c]
    BY <1>5, <2>1
  <2>3. /\ c \in CreateRec /\ c.pc = "check" /\ c.key = create[r].key
        /\ c.obj = create[r].obj /\ c.paa = create[r].paa /\ c.accepted = FALSE
    BY <1>1, <2>1 DEF CreateRec
  <2>4. QED
    BY <2>2, <2>3, Replaced
<1>6. ASSUME create' = [create EXCEPT ![r].accepted = FALSE]
      PROVE  CreateBecomes(r, create[r].pc, create[r].obj, create[r].paa, FALSE)
  <2>1. PICK c : c = [create[r] EXCEPT !.accepted = FALSE]
    OBVIOUS
  <2>2. create' = [create EXCEPT ![r] = c]
    BY <1>6, <2>1
  <2>3. /\ c \in CreateRec /\ c.pc = create[r].pc /\ c.key = create[r].key
        /\ c.obj = create[r].obj /\ c.paa = create[r].paa /\ c.accepted = FALSE
    BY <1>1, <2>1 DEF CreateRec
  <2>4. QED
    BY <2>2, <2>3, Replaced
<1>7. QED
  BY <1>2, <1>3, <1>4, <1>5, <1>6

\* What each update of a session object makes of it.
LEMMA SessionUpdates ==
  ASSUME TypeOK, NEW o \in Creates
  PROVE  /\ sp' = [sp EXCEPT ![o].named = TRUE] => SessionBecomes(o, sp[o].paa, TRUE, sp[o].graph)
         /\ sp' = [sp EXCEPT ![o].graph = TRUE] => SessionBecomes(o, sp[o].paa, sp[o].named, TRUE)
         /\ \A paa \in SUBSET Int :
              sp' = [sp EXCEPT ![o].paa = paa] => SessionBecomes(o, paa, sp[o].named, sp[o].graph)
         /\ sp' = [sp EXCEPT ![o].paa = {}, ![o].named = FALSE] => SessionBecomes(o, {}, FALSE, sp[o].graph)
<1>1. sp \in [Creates -> SessionRec]
  BY DEF TypeOK, SessionRec
<1>2. ASSUME NEW c \in SessionRec, sp' = [sp EXCEPT ![o] = c]
      PROVE  SessionBecomes(o, c.paa, c.named, c.graph)
  <2>1. sp' \in [Creates -> SessionRec] /\ \A s \in Creates : sp'[s] = IF s = o THEN c ELSE sp[s]
    BY <1>1, <1>2
  <2>2. QED
    BY <2>1 DEF SessionBecomes
<1>3. ASSUME sp' = [sp EXCEPT ![o].named = TRUE]
      PROVE  SessionBecomes(o, sp[o].paa, TRUE, sp[o].graph)
  <2>1. PICK c : c = [sp[o] EXCEPT !.named = TRUE]
    OBVIOUS
  <2>2. sp' = [sp EXCEPT ![o] = c]
    BY <1>3, <2>1
  <2>3. c \in SessionRec /\ c.paa = sp[o].paa /\ c.named = TRUE /\ c.graph = sp[o].graph
    BY <1>1, <2>1 DEF SessionRec
  <2>4. QED
    BY <1>2, <2>2, <2>3
<1>4. ASSUME sp' = [sp EXCEPT ![o].graph = TRUE]
      PROVE  SessionBecomes(o, sp[o].paa, sp[o].named, TRUE)
  <2>1. PICK c : c = [sp[o] EXCEPT !.graph = TRUE]
    OBVIOUS
  <2>2. sp' = [sp EXCEPT ![o] = c]
    BY <1>4, <2>1
  <2>3. c \in SessionRec /\ c.paa = sp[o].paa /\ c.named = sp[o].named /\ c.graph = TRUE
    BY <1>1, <2>1 DEF SessionRec
  <2>4. QED
    BY <1>2, <2>2, <2>3
<1>5. ASSUME NEW paa \in SUBSET Int, sp' = [sp EXCEPT ![o].paa = paa]
      PROVE  SessionBecomes(o, paa, sp[o].named, sp[o].graph)
  <2>1. PICK c : c = [sp[o] EXCEPT !.paa = paa]
    OBVIOUS
  <2>2. sp' = [sp EXCEPT ![o] = c]
    BY <1>5, <2>1
  <2>3. c \in SessionRec /\ c.paa = paa /\ c.named = sp[o].named /\ c.graph = sp[o].graph
    BY <1>1, <2>1 DEF SessionRec
  <2>4. QED
    BY <1>2, <2>2, <2>3
<1>6. ASSUME sp' = [sp EXCEPT ![o].paa = {}, ![o].named = FALSE]
      PROVE  SessionBecomes(o, {}, FALSE, sp[o].graph)
  <2>1. PICK c : c = [sp[o] EXCEPT !.paa = {}, !.named = FALSE]
    OBVIOUS
  <2>2. sp' = [sp EXCEPT ![o] = c]
    BY <1>6, <2>1
  <2>3. c \in SessionRec /\ c.paa = {} /\ c.named = FALSE /\ c.graph = sp[o].graph
    BY <1>1, <2>1 DEF SessionRec
  <2>4. QED
    BY <1>2, <2>2, <2>3
<1>7. QED
  BY <1>3, <1>4, <1>5, <1>6

-----------------------------------------------------------------------------
(* The steps.                                                               *)

\* The look-up drops the session of the key, and a late UE's claim to its address.
LEMMA LookupStep ==
  ASSUME TypeOK, NEW r \in Creates, CreateLookup(r)
  PROVE  /\ CreateBecomes(r, "find", create[r].obj, create[r].paa, create[r].accepted)
         /\ UNCHANGED <<pool, scids, sp, release, n4>>
         /\ \A k \in Keys : pdu_sessions'[k] = pdu_sessions[k] \/ pdu_sessions'[k] = NoObject
         /\ create[r].key \in scids => pdu_sessions'[create[r].key] = NoObject
         /\ pdu_sessions' \in [Keys -> Creates \cup {NoObject}]
         /\ \A k \in Keys : k # create[r].key => pdu_sessions'[k] = pdu_sessions[k]
         /\ told' \in [Creates -> SUBSET Int] /\ \A o \in Creates : told'[o] \subseteq told[o]
         /\ create[r].pc = "unused"
         /\ ~Overlap => \A s \in Creates : create[s].key = create[r].key => ~Handled(s)
<1>1. /\ create' = [create EXCEPT ![r].pc = "find"] /\ UNCHANGED <<pool, scids, sp, release, n4>>
      /\ create[r].pc = "unused"
      /\ ~Overlap => \A s \in Creates : create[s].key = create[r].key => ~Handled(s)
  BY DEF CreateLookup
<1>2. CreateBecomes(r, "find", create[r].obj, create[r].paa, create[r].accepted)
  BY <1>1, CreateUpdates
<1>3. /\ pdu_sessions' \in [Keys -> Creates \cup {NoObject}]
      /\ \A k \in Keys : pdu_sessions'[k] = IF k = create[r].key /\ k \in scids THEN NoObject ELSE pdu_sessions[k]
  <2>1. PICK k : k = create[r].key
    OBVIOUS
  <2>2. k \in Keys /\ pdu_sessions \in [Keys -> Creates \cup {NoObject}]
    BY <2>1 DEF TypeOK
  <2>3. pdu_sessions' = IF k \in scids THEN [pdu_sessions EXCEPT ![k] = NoObject] ELSE pdu_sessions
    BY <2>1 DEF CreateLookup
  <2>4. QED
    BY <2>1, <2>2, <2>3
<1>4. told' \in [Creates -> SUBSET Int] /\ \A o \in Creates : told'[o] \subseteq told[o]
  <2>1. told' = [o \in Creates |-> IF create[o].key = create[r].key THEN {} ELSE told[o]]
    BY DEF CreateLookup
  <2>2. told \in [Creates -> SUBSET Int]
    BY DEF TypeOK
  <2>3. QED
    BY <2>1, <2>2
<1>5. create[r].key \in Keys
  BY Fields
<1>6. QED
  BY <1>1, <1>2, <1>3, <1>4, <1>5

\* Finding the session, or refusing the request.
LEMMA FindStep ==
  ASSUME TypeOK, NEW r \in Creates, CreateFind(r)
  PROVE  /\ CreateBecomes(r, IF pdu_sessions[create[r].key] = NoObject THEN "add" ELSE "allocate",
                          pdu_sessions[create[r].key], create[r].paa, create[r].accepted)
         /\ scids' = scids \cup {create[r].key} /\ scids' \subseteq Keys
         /\ UNCHANGED <<pool, pdu_sessions, sp, release, n4, told>>
         /\ create[r].pc = "find"
<1>1. PICK o : o = pdu_sessions[create[r].key]
  OBVIOUS
<1>2. PICK pc : pc = IF o = NoObject THEN "add" ELSE "allocate"
  OBVIOUS
<1>3. o \in Creates \cup {NoObject} /\ create[r].key \in Keys /\ pc \in {"add", "allocate"}
  BY <1>1, <1>2, Fields
<1>4. create' = [create EXCEPT ![r].obj = o, ![r].pc = pc]
  BY <1>1, <1>2 DEF CreateFind
<1>5. CreateBecomes(r, pc, o, create[r].paa, create[r].accepted)
  BY <1>3, <1>4, CreateUpdates
<1>6. /\ scids' = scids \cup {create[r].key} /\ UNCHANGED <<pool, pdu_sessions, sp, release, n4, told>>
      /\ create[r].pc = "find"
  BY DEF CreateFind
<1>7. scids' \subseteq Keys
  BY <1>3, <1>6 DEF TypeOK
<1>8. QED
  BY <1>1, <1>2, <1>5, <1>6, <1>7

\* Adding an object, which is the request's own.
LEMMA AddStep ==
  ASSUME TypeOK, NEW r \in Creates, CreateAdd(r)
  PROVE  /\ CreateBecomes(r, "allocate", r, create[r].paa, create[r].accepted)
         /\ SessionBecomes(r, sp[r].paa, TRUE, sp[r].graph)
         /\ UNCHANGED <<pool, scids, release, n4, told>>
         /\ pdu_sessions' \in [Keys -> Creates \cup {NoObject}]
         /\ \A k \in Keys : pdu_sessions'[k] = IF k = create[r].key /\ pdu_sessions[k] = NoObject THEN r ELSE pdu_sessions[k]
         /\ create[r].pc = "add"
<1>1. /\ create' = [create EXCEPT ![r].obj = r, ![r].pc = "allocate"]
      /\ sp' = [sp EXCEPT ![r].named = TRUE] /\ UNCHANGED <<pool, scids, release, n4, told>>
      /\ create[r].pc = "add"
  BY DEF CreateAdd
<1>2. CreateBecomes(r, "allocate", r, create[r].paa, create[r].accepted)
  BY <1>1, CreateUpdates
<1>3. SessionBecomes(r, sp[r].paa, TRUE, sp[r].graph)
  BY <1>1, SessionUpdates
<1>4. /\ pdu_sessions' \in [Keys -> Creates \cup {NoObject}]
      /\ \A k \in Keys : pdu_sessions'[k] = IF k = create[r].key /\ pdu_sessions[k] = NoObject THEN r ELSE pdu_sessions[k]
  <2>1. PICK k : k = create[r].key
    OBVIOUS
  <2>2. k \in Keys /\ pdu_sessions \in [Keys -> Creates \cup {NoObject}]
    BY <2>1 DEF TypeOK
  <2>3. pdu_sessions' = [pdu_sessions EXCEPT ![k] = IF @ = NoObject THEN r ELSE @]
    BY <2>1 DEF CreateAdd
  <2>4. QED
    BY <2>1, <2>2, <2>3
<1>5. QED
  BY <1>1, <1>2, <1>3, <1>4

\* An address for the object: the static one, one of the pool, or none.
LEMMA AllocateStep ==
  ASSUME TypeOK, PoolKept, NEW r \in Creates, CreateAllocate(r), create[r].obj \in Creates
  PROVE  /\ UNCHANGED <<scids, pdu_sessions, release, n4, told>> /\ create[r].pc = "allocate"
         /\ \/ /\ UNCHANGED pool /\ sp' = sp
               /\ CreateBecomes(r, "done", create[r].obj, create[r].paa, create[r].accepted)
            \/ \E paa \in SUBSET Int :
                 /\ CreateBecomes(r, "run", create[r].obj, paa, create[r].accepted)
                 /\ SessionBecomes(create[r].obj, paa, sp[create[r].obj].named, sp[create[r].obj].graph)
                 /\ \/ paa = Static[create[r].key] /\ Static[create[r].key] # {} /\ UNCHANGED pool
                    \/ /\ Static[create[r].key] = {}
                       /\ \E p \in 0..words * WordBits : paa = {p} /\ alloc_address(p)
<1>1. UNCHANGED <<scids, pdu_sessions, release, n4, told>> /\ create[r].pc = "allocate"
  BY DEF CreateAllocate
<1>2. ASSUME NEW paa \in SUBSET Int, sp' = [sp EXCEPT ![create[r].obj].paa = paa],
             create' = [create EXCEPT ![r].paa = paa, ![r].pc = "run"]
      PROVE  /\ CreateBecomes(r, "run", create[r].obj, paa, create[r].accepted)
             /\ SessionBecomes(create[r].obj, paa, sp[create[r].obj].named, sp[create[r].obj].graph)
  BY <1>2, CreateUpdates, SessionUpdates
<1>3. CASE /\ sp' = [sp EXCEPT ![create[r].obj].paa = Static[create[r].key]]
           /\ create' = [create EXCEPT ![r].paa = Static[create[r].key], ![r].pc = "run"]
           /\ UNCHANGED pool /\ Static[create[r].key] # {}
  <2>1. Static[create[r].key] \in SUBSET Int
    BY Fields
  <2>2. QED
    BY <1>1, <1>2, <1>3, <2>1
<1>4. ASSUME NEW p \in 0..words * WordBits, alloc_address(p), Static[create[r].key] = {},
             sp' = [sp EXCEPT ![create[r].obj].paa = {p}],
             create' = [create EXCEPT ![r].paa = {p}, ![r].pc = "run"]
      PROVE  \E paa \in SUBSET Int :
                 /\ CreateBecomes(r, "run", create[r].obj, paa, create[r].accepted)
                 /\ SessionBecomes(create[r].obj, paa, sp[create[r].obj].named, sp[create[r].obj].graph)
                 /\ \/ paa = Static[create[r].key] /\ Static[create[r].key] # {} /\ UNCHANGED pool
                    \/ /\ Static[create[r].key] = {}
                       /\ \E q \in 0..words * WordBits : paa = {q} /\ alloc_address(q)
  <2>1. {p} \in SUBSET Int
    BY <1>4, Allocated
  <2>2. QED
    BY <1>2, <1>4, <2>1
<1>5. CASE create' = [create EXCEPT ![r].pc = "done"] /\ UNCHANGED <<pool, sp>>
  BY <1>1, <1>5, CreateUpdates
<1>6. QED
  BY <1>1, <1>3, <1>4, <1>5 DEF CreateAllocate

\* Sending the establishment, or failing to.
LEMMA RunStep ==
  ASSUME TypeOK, NEW r \in Creates, CreateRun(r)
  PROVE  /\ UNCHANGED <<pool, scids, pdu_sessions, release, told>> /\ create[r].pc = "run"
         /\ \/ /\ CreateBecomes(r, "check", create[r].obj, create[r].paa, FALSE) /\ n4' = n4
               /\ \/ sp' = sp
                  \/ create[r].obj # pdu_sessions[create[r].key]
            \/ /\ CreateBecomes(r, "check", create[r].obj, create[r].paa, create[r].accepted)
               /\ n4' = Append(n4, <<"create", r>>)
         /\ \/ sp' = sp
            \/ \E o \in Creates : o = pdu_sessions[create[r].key] /\ SessionBecomes(o, sp[o].paa, sp[o].named, TRUE)
<1>1. PICK s : s = pdu_sessions[create[r].key]
  OBVIOUS
<1>2. s \in Creates \cup {NoObject}
  BY <1>1, Fields
<1>3. /\ UNCHANGED <<pool, scids, pdu_sessions, release, told>> /\ create[r].pc = "run"
      /\ \/ /\ create' = [create EXCEPT ![r].accepted = FALSE, ![r].pc = "check"] /\ n4' = n4
            /\ \/ sp' = sp
               \/ create[r].obj # s
         \/ /\ create' = [create EXCEPT ![r].pc = "check"]
            /\ n4' = Append(n4, <<"create", r>>)
      /\ sp' = sp \/ (s # NoObject /\ sp' = [sp EXCEPT ![s].graph = TRUE])
  BY <1>1 DEF CreateRun
<1>4. sp' = sp \/ \E o \in Creates : o = s /\ SessionBecomes(o, sp[o].paa, sp[o].named, TRUE)
  BY <1>2, <1>3, SessionUpdates
<1>5. \/ /\ CreateBecomes(r, "check", create[r].obj, create[r].paa, FALSE) /\ n4' = n4
         /\ \/ sp' = sp
            \/ create[r].obj # s
      \/ /\ CreateBecomes(r, "check", create[r].obj, create[r].paa, create[r].accepted)
         /\ n4' = Append(n4, <<"create", r>>)
  BY <1>3, CreateUpdates
<1>6. QED
  BY <1>1, <1>3, <1>4, <1>5

\* A release is asked for of a session that has a graph.
LEMMA ReleaseStep ==
  ASSUME TypeOK, NEW q \in Releases, NEW k \in Keys, ReleaseRequest(q, k)
  PROVE  /\ pdu_sessions[k] \in Creates /\ sp[pdu_sessions[k]].graph /\ ~release[q].sent
         /\ n4' = Append(n4, <<"release", q>>)
         /\ UNCHANGED <<pool, scids, pdu_sessions, sp, create, told>>
         /\ release' \in [Releases -> [sent : BOOLEAN, obj : Creates \cup {NoObject}, named : BOOLEAN]]
         /\ \A x \in Releases : x # q => release'[x] = release[x]
         /\ release'[q].sent /\ release'[q].obj = pdu_sessions[k] /\ release'[q].named = sp[pdu_sessions[k]].named
<1>1. /\ release' = [release EXCEPT ![q] = [sent |-> TRUE, obj |-> pdu_sessions[k], named |-> sp[pdu_sessions[k]].named]]
      /\ pdu_sessions[k] # NoObject /\ sp[pdu_sessions[k]].graph /\ ~release[q].sent
      /\ n4' = Append(n4, <<"release", q>>)
      /\ UNCHANGED <<pool, scids, pdu_sessions, sp, create, told>>
  BY DEF ReleaseRequest
<1>2. PICK x : x = [sent |-> TRUE, obj |-> pdu_sessions[k], named |-> sp[pdu_sessions[k]].named]
  OBVIOUS
<1>3. pdu_sessions[k] \in Creates
  BY <1>1, Fields
<1>4. /\ x \in [sent : BOOLEAN, obj : Creates \cup {NoObject}, named : BOOLEAN]
      /\ x.sent /\ x.obj = pdu_sessions[k] /\ x.named = sp[pdu_sessions[k]].named
  BY <1>2, <1>3, Fields
<1>5. release' = [release EXCEPT ![q] = x]
  BY <1>1, <1>2
<1>6. release \in [Releases -> [sent : BOOLEAN, obj : Creates \cup {NoObject}, named : BOOLEAN]]
  BY DEF TypeOK
<1>7. /\ release' \in [Releases -> [sent : BOOLEAN, obj : Creates \cup {NoObject}, named : BOOLEAN]]
      /\ \A y \in Releases : y # q => release'[y] = release[y]
      /\ release'[q] = x
  BY <1>4, <1>5, <1>6
<1>8. QED
  BY <1>1, <1>3, <1>4, <1>7

\* An establishment is answered.
LEMMA EstablishmentStep ==
  ASSUME TypeOK, NEW i \in 1..Len(n4), NEW r \in Creates, EstablishmentResponse(i, r)
  PROVE  /\ i \in DOMAIN n4 /\ n4[i] = <<"create", r>> /\ Answered(i)
         /\ UNCHANGED <<pool, scids, pdu_sessions, sp, release>>
         /\ told' \in [Creates -> SUBSET Int]
         /\ \/ /\ create' = create
               /\ \A o \in Creates : told'[o] = IF o = create[r].obj THEN told[o] \cup create[r].paa ELSE told[o]
            \/ /\ UpfRejects /\ told' = told
               /\ CreateBecomes(r, create[r].pc, create[r].obj, create[r].paa, FALSE)
<1>1. /\ n4[i] = <<"create", r>> /\ Answered(i) /\ UNCHANGED <<pool, scids, pdu_sessions, sp, release>>
      /\ \/ told' = [told EXCEPT ![create[r].obj] = @ \cup create[r].paa] /\ create' = create
         \/ UpfRejects /\ told' = told /\ create' = [create EXCEPT ![r].accepted = FALSE]
  BY DEF EstablishmentResponse
<1>2. told \in [Creates -> SUBSET Int] /\ i \in DOMAIN n4
  BY DEF TypeOK
<1>3. PICK o, a : o = create[r].obj /\ a = create[r].paa
  OBVIOUS
<1>4. a \in SUBSET Int
  BY <1>3, Fields
<1>5. CASE told' = [told EXCEPT ![create[r].obj] = @ \cup create[r].paa] /\ create' = create
  <2>1. told' = [told EXCEPT ![o] = @ \cup a]
    BY <1>3, <1>5
  <2>2. /\ told' \in [Creates -> SUBSET Int]
        /\ \A x \in Creates : told'[x] = IF x = o THEN told[x] \cup a ELSE told[x]
    BY <1>2, <1>4, <2>1
  <2>3. QED
    BY <1>1, <1>2, <1>3, <1>5, <2>2
<1>6. CASE UpfRejects /\ told' = told /\ create' = [create EXCEPT ![r].accepted = FALSE]
  BY <1>1, <1>2, <1>6, CreateUpdates
<1>7. QED
  BY <1>1, <1>5, <1>6

\* A deletion is answered: the object loses its address, and the pool gets it back.
LEMMA DeletionStep ==
  ASSUME TypeOK, Referred, NEW i \in 1..Len(n4), NEW q \in Releases, DeletionResponse(i, q)
  PROVE  /\ i \in DOMAIN n4 /\ n4[i] = <<"release", q>> /\ Answered(i) /\ release[q].sent
         /\ release[q].obj \in Creates
         /\ UNCHANGED <<scids, pdu_sessions, create, release>>
         /\ SessionBecomes(release[q].obj, {}, FALSE, sp[release[q].obj].graph)
         /\ told' \in [Creates -> SUBSET Int]
         /\ \A o \in Creates : told'[o] = IF o = release[q].obj THEN {} ELSE told[o]
         /\ IF release[q].named THEN release_paa(sp[release[q].obj].paa) ELSE UNCHANGED pool
<1>1. /\ n4[i] = <<"release", q>> /\ Answered(i) /\ UNCHANGED <<scids, pdu_sessions, create, release>>
      /\ sp' = [sp EXCEPT ![release[q].obj].paa = {}, ![release[q].obj].named = FALSE]
      /\ told' = [told EXCEPT ![release[q].obj] = {}]
      /\ IF release[q].named THEN release_paa(sp[release[q].obj].paa) ELSE UNCHANGED pool
  BY DEF DeletionResponse, Cleared
<1>2. told \in [Creates -> SUBSET Int] /\ i \in DOMAIN n4
  BY DEF TypeOK
<1>3. release[q].sent /\ release[q].obj \in Creates
  <2>1. n4[i][1] = "release" /\ n4[i][2] = q
    BY <1>1
  <2>2. QED
    BY <1>2, <2>1 DEF Referred
<1>4. SessionBecomes(release[q].obj, {}, FALSE, sp[release[q].obj].graph)
  BY <1>1, <1>3, SessionUpdates
<1>5. /\ told' \in [Creates -> SUBSET Int]
      /\ \A o \in Creates : told'[o] = IF o = release[q].obj THEN {} ELSE told[o]
  <2>1. PICK o : o = release[q].obj
    OBVIOUS
  <2>2. told' = [told EXCEPT ![o] = {}]
    BY <1>1, <2>1
  <2>3. QED
    BY <1>2, <2>1, <2>2
<1>6. QED
  BY <1>1, <1>2, <1>3, <1>4, <1>5

\* Each step is one of those, or the check of a request, whose address it may free.
LEMMA CheckStep ==
  ASSUME TypeOK, PoolKept, NEW r \in Creates, CreateCheck(r)
  PROVE  /\ CreateBecomes(r, "done", create[r].obj, create[r].paa, create[r].accepted)
         /\ UNCHANGED <<scids, pdu_sessions, sp, release, n4, told>> /\ create[r].pc = "check"
         /\ IF create[r].accepted THEN UNCHANGED pool ELSE release_paa(create[r].paa)
<1>1. create' = [create EXCEPT ![r].pc = "done"]
  BY DEF CreateCheck
<1>2. QED
  BY <1>1, CreateUpdates DEF CreateCheck

\* So does the refusal of one.
LEMMA RefusedStep ==
  ASSUME TypeOK, NEW r \in Creates, CreateRefused(r)
  PROVE  /\ CreateBecomes(r, "done", create[r].obj, create[r].paa, create[r].accepted)
         /\ UNCHANGED <<pool, scids, pdu_sessions, sp, release, n4, told>> /\ create[r].pc = "find"
<1>1. create' = [create EXCEPT ![r].pc = "done"]
  BY DEF CreateRefused
<1>2. QED
  BY <1>1, CreateUpdates DEF CreateRefused

\* A set of addresses, freed or not, leaves the pool in its types.
LEMMA PoolTyped ==
  ASSUME TypeOK, PoolKept, UNCHANGED pool \/ \E a \in SUBSET Int : release_paa(a)
  PROVE  words' \in Nat /\ taken' \subseteq 0..words' * WordBits - 1 /\ below' \subseteq {i \in Int : i < 0}
<1>1. CASE UNCHANGED pool
  BY <1>1 DEF pool, TypeOK
<1>2. ASSUME NEW a \in SUBSET Int, release_paa(a)
      PROVE  words' \in Nat /\ taken' \subseteq 0..words' * WordBits - 1 /\ below' \subseteq {i \in Int : i < 0}
  BY <1>2, Freed DEF TypeOK
<1>3. QED
  BY <1>1, <1>2

\* A request that goes on the wire, at the end of the queue.
LEMMA QueueAppended ==
  ASSUME TypeOK, NEW e \in {"create"} \X Creates \cup {"release"} \X Releases, n4' = Append(n4, e)
  PROVE  /\ n4' \in Seq({"create"} \X Creates \cup {"release"} \X Releases)
         /\ Len(n4) + 1 \in DOMAIN n4' /\ n4'[Len(n4) + 1] = e
         /\ \A j \in DOMAIN n4' : j = Len(n4) + 1 \/ (j \in DOMAIN n4 /\ n4'[j] = n4[j])
         /\ \A j \in DOMAIN n4 : j \in Nat /\ j < Len(n4) + 1
<1>1. n4 \in Seq({"create"} \X Creates \cup {"release"} \X Releases)
  BY DEF TypeOK
<1>2. QED
  BY <1>1

\* Every step keeps the types.
LEMMA NextTypes ==
  ASSUME TypeOK, Base, [Next]_vars
  PROVE  TypeOK'
<1>1. Referred /\ PoolKept
  BY DEF Base
<1>2. ASSUME NEW r \in Creates, CreateLookup(r) PROVE TypeOK'
  BY <1>2, LookupStep DEF CreateBecomes, CreateRec, TypeOK, pool
<1>3. ASSUME NEW r \in Creates, CreateFind(r) \/ CreateRefused(r) PROVE TypeOK'
  <2>1. /\ create' \in [Creates -> CreateRec] /\ scids' \subseteq Keys
        /\ UNCHANGED <<pool, pdu_sessions, sp, release, n4, told>>
    BY <1>3, FindStep, RefusedStep DEF CreateBecomes, TypeOK
  <2>2. QED
    BY <2>1 DEF CreateRec, TypeOK, pool
<1>4. ASSUME NEW r \in Creates, CreateAdd(r) PROVE TypeOK'
  <2>1. /\ create' \in [Creates -> CreateRec] /\ sp' \in [Creates -> SessionRec]
        /\ pdu_sessions' \in [Keys -> Creates \cup {NoObject}]
        /\ UNCHANGED <<pool, scids, release, n4, told>>
    BY <1>4, AddStep DEF CreateBecomes, SessionBecomes
  <2>2. QED
    BY <2>1 DEF CreateRec, SessionRec, TypeOK, pool
<1>5. ASSUME NEW r \in Creates, CreateAllocate(r) PROVE TypeOK'
  <2>1. create[r].obj \in Creates
    BY <1>1, <1>5 DEF CreateAllocate, Referred
  <2>2. /\ UNCHANGED <<scids, pdu_sessions, release, n4, told>>
        /\ create' \in [Creates -> CreateRec]
        /\ sp' \in [Creates -> SessionRec] \/ sp' = sp
        /\ UNCHANGED pool \/ \E p \in 0..words * WordBits : alloc_address(p)
    BY <1>1, <1>5, <2>1, AllocateStep DEF CreateBecomes, SessionBecomes
  <2>3. words' \in Nat /\ taken' \subseteq 0..words' * WordBits - 1 /\ below' \subseteq {i \in Int : i < 0}
    <3>1. CASE UNCHANGED pool
      BY <3>1 DEF TypeOK, pool
    <3>2. ASSUME NEW p \in 0..words * WordBits, alloc_address(p)
          PROVE  words' \in Nat /\ taken' \subseteq 0..words' * WordBits - 1 /\ below' \subseteq {i \in Int : i < 0}
      BY <1>1, <3>2, Allocated DEF TypeOK
    <3>3. QED
      BY <2>2, <3>1, <3>2
  <2>4. QED
    BY <2>2, <2>3 DEF CreateRec, SessionRec, TypeOK
<1>6. ASSUME NEW r \in Creates, CreateRun(r) PROVE TypeOK'
  <2>1. /\ UNCHANGED <<pool, scids, pdu_sessions, release, told>>
        /\ create' \in [Creates -> CreateRec]
        /\ sp' \in [Creates -> SessionRec] \/ sp' = sp
        /\ n4' = n4 \/ n4' = Append(n4, <<"create", r>>)
    BY <1>6, RunStep DEF CreateBecomes, SessionBecomes
  <2>2. n4' \in Seq({"create"} \X Creates \cup {"release"} \X Releases)
    <3>1. PICK e : e = <<"create", r>>
      OBVIOUS
    <3>2. e \in {"create"} \X Creates \cup {"release"} \X Releases
      BY <3>1
    <3>3. QED
      BY <2>1, <3>1, <3>2, QueueAppended DEF TypeOK
  <2>3. QED
    BY <2>1, <2>2 DEF CreateRec, SessionRec, TypeOK, pool
<1>7. ASSUME NEW r \in Creates, CreateCheck(r) PROVE TypeOK'
  <2>1. create[r].paa \in SUBSET Int
    BY Fields
  <2>2. /\ create' \in [Creates -> CreateRec] /\ UNCHANGED <<scids, pdu_sessions, sp, release, n4, told>>
        /\ UNCHANGED pool \/ release_paa(create[r].paa)
    BY <1>1, <1>7, CheckStep DEF CreateBecomes
  <2>3. words' \in Nat /\ taken' \subseteq 0..words' * WordBits - 1 /\ below' \subseteq {i \in Int : i < 0}
    BY <1>1, <2>1, <2>2, PoolTyped
  <2>4. QED
    BY <2>2, <2>3 DEF CreateRec, TypeOK
<1>8. ASSUME NEW q \in Releases, NEW k \in Keys, ReleaseRequest(q, k) PROVE TypeOK'
  <2>1. n4' \in Seq({"create"} \X Creates \cup {"release"} \X Releases)
    <3>1. PICK e : e = <<"release", q>>
      OBVIOUS
    <3>2. e \in {"create"} \X Creates \cup {"release"} \X Releases /\ n4' = Append(n4, e)
      BY <1>8, <3>1, ReleaseStep
    <3>3. QED
      BY <3>2, QueueAppended
  <2>2. /\ UNCHANGED <<pool, scids, pdu_sessions, sp, create, told>>
        /\ release' \in [Releases -> [sent : BOOLEAN, obj : Creates \cup {NoObject}, named : BOOLEAN]]
    BY <1>8, ReleaseStep
  <2>3. QED
    BY <2>1, <2>2 DEF TypeOK, pool
<1>9. ASSUME NEW i \in 1..Len(n4), NEW r \in Creates, EstablishmentResponse(i, r) PROVE TypeOK'
  <2>1. n4' \in Seq({"create"} \X Creates \cup {"release"} \X Releases)
    BY <1>9, EstablishmentStep, QueueAnswered
  <2>2. /\ UNCHANGED <<pool, scids, pdu_sessions, sp, release>> /\ told' \in [Creates -> SUBSET Int]
        /\ create' = create \/ create' \in [Creates -> CreateRec]
    BY <1>9, EstablishmentStep DEF CreateBecomes
  <2>3. QED
    BY <2>1, <2>2 DEF CreateRec, TypeOK, pool
<1>10. ASSUME NEW i \in 1..Len(n4), NEW q \in Releases, DeletionResponse(i, q) PROVE TypeOK'
  <2>1. /\ Answered(i) /\ UNCHANGED <<scids, pdu_sessions, create, release>> /\ told' \in [Creates -> SUBSET Int]
        /\ sp' \in [Creates -> SessionRec]
        /\ release_paa(sp[release[q].obj].paa) \/ UNCHANGED pool
        /\ release[q].obj \in Creates
    BY <1>1, <1>10, DeletionStep DEF SessionBecomes
  <2>2. n4' \in Seq({"create"} \X Creates \cup {"release"} \X Releases)
    BY <2>1, QueueAnswered
  <2>3. sp[release[q].obj].paa \in SUBSET Int
    BY <2>1, Fields
  <2>4. words' \in Nat /\ taken' \subseteq 0..words' * WordBits - 1 /\ below' \subseteq {j \in Int : j < 0}
    BY <1>1, <2>1, <2>3, PoolTyped
  <2>5. QED
    BY <2>1, <2>2, <2>4 DEF SessionRec, TypeOK
<1>11. CASE UNCHANGED vars
  BY <1>11 DEF vars, pool, TypeOK
<1>12. QED
  BY <1>2, <1>3, <1>4, <1>5, <1>6, <1>7, <1>8, <1>9, <1>10, <1>11 DEF Next

\* Every step keeps what refers to an object referring to one.
LEMMA NextReferred ==
  ASSUME TypeOK, Base, [Next]_vars
  PROVE  Referred'
<1> USE Fields
<1>1. Referred /\ PoolKept
  BY DEF Base
<1>2. ASSUME UNCHANGED <<release, n4>>, NEW r \in Creates,
             \A s \in Creates : s # r => create'[s] = create[s],
             create'[r].pc \in {"allocate", "run", "check"} => create'[r].obj \in Creates
      PROVE  Referred'
  BY <1>1, <1>2 DEF Referred
<1>3. ASSUME NEW r \in Creates, CreateLookup(r) PROVE Referred'
  BY <1>2, <1>3, LookupStep DEF CreateBecomes
<1>4. ASSUME NEW r \in Creates, CreateFind(r) PROVE Referred'
  BY <1>2, <1>4, FindStep DEF CreateBecomes
<1>5. ASSUME NEW r \in Creates, CreateRefused(r) PROVE Referred'
  BY <1>2, <1>5, RefusedStep DEF CreateBecomes
<1>6. ASSUME NEW r \in Creates, CreateAdd(r) PROVE Referred'
  <2>1. CreateBecomes(r, "allocate", r, create[r].paa, create[r].accepted) /\ UNCHANGED <<release, n4>>
    BY <1>6, AddStep
  <2>2. QED
    BY <1>2, <2>1 DEF CreateBecomes
<1>7. ASSUME NEW r \in Creates, CreateAllocate(r) PROVE Referred'
  <2>1. create[r].obj \in Creates
    BY <1>1, <1>7 DEF CreateAllocate, Referred
  <2>2. QED
    BY <1>1, <1>2, <1>7, <2>1, AllocateStep DEF CreateBecomes
<1>8. ASSUME NEW i \in 1..Len(n4), Answered(i), release' = release
      PROVE  \A j \in DOMAIN n4' : n4'[j][1] = "release" => release'[n4'[j][2]].sent
  <2>1. \A j \in DOMAIN n4' : \E k \in DOMAIN n4 : n4'[j] = n4[k]
    BY <1>8, QueueAnswered
  <2>2. QED
    BY <1>1, <1>8, <2>1 DEF Referred
<1>9. ASSUME NEW r \in Creates, CreateRun(r) PROVE Referred'
  <2>1. /\ release' = release
        /\ \A s \in Creates : create'[s].pc \in {"allocate", "run", "check"} => create'[s].obj \in Creates
    <3>1. create[r].pc = "run" /\ release' = release
      BY <1>9, RunStep
    <3>2. (\A s \in Creates : s # r => create'[s] = create[s]) /\ create'[r].obj = create[r].obj
      BY <1>9, RunStep DEF CreateBecomes
    <3>3. QED
      BY <1>1, <3>1, <3>2 DEF Referred
  <2>2. \A j \in DOMAIN n4' : n4'[j][1] = "release" => release[n4'[j][2]].sent
    <3>1. CASE n4' = n4
      BY <1>1, <3>1 DEF Referred
    <3>2. CASE n4' = Append(n4, <<"create", r>>)
      <4>1. PICK e : e = <<"create", r>>
        OBVIOUS
      <4>2. e \in {"create"} \X Creates \cup {"release"} \X Releases /\ e[1] = "create"
        BY <4>1
      <4>3. QED
        BY <1>1, <3>2, <4>1, <4>2, QueueAppended DEF Referred
    <3>3. QED
      BY <1>9, <3>1, <3>2, RunStep
  <2>3. QED
    BY <1>1, <2>1, <2>2 DEF Referred
<1>10. ASSUME NEW r \in Creates, CreateCheck(r) PROVE Referred'
  BY <1>1, <1>2, <1>10, CheckStep DEF CreateBecomes
<1>11. ASSUME NEW q \in Releases, NEW k \in Keys, ReleaseRequest(q, k) PROVE Referred'
  <2>1. /\ pdu_sessions[k] \in Creates /\ create' = create /\ n4' = Append(n4, <<"release", q>>)
        /\ \A x \in Releases : x # q => release'[x] = release[x]
        /\ release'[q].sent /\ release'[q].obj = pdu_sessions[k]
    BY <1>11, ReleaseStep
  <2>2. \A j \in DOMAIN n4' : n4'[j][1] = "release" => release'[n4'[j][2]].sent
    <3>1. PICK e : e = <<"release", q>>
      OBVIOUS
    <3>2. e \in {"create"} \X Creates \cup {"release"} \X Releases /\ e[1] = "release" /\ e[2] = q
      BY <3>1
    <3>3. n4' = Append(n4, e)
      BY <2>1, <3>1
    <3>4. ASSUME NEW j \in DOMAIN n4', n4'[j][1] = "release" PROVE release'[n4'[j][2]].sent
      <4>1. CASE j = Len(n4) + 1
        BY <2>1, <3>2, <3>3, <4>1, QueueAppended
      <4>2. CASE j \in DOMAIN n4 /\ n4'[j] = n4[j]
        <5>1. n4[j][2] \in Releases /\ release[n4[j][2]].sent
          BY <1>1, <3>4, <4>2, QueueEntry DEF Referred
        <5>2. QED
          BY <2>1, <4>2, <5>1
      <4>3. QED
        BY <3>2, <3>3, <4>1, <4>2, QueueAppended
    <3>5. QED
      BY <3>4
  <2>3. \A x \in Releases : release'[x].sent => release'[x].obj \in Creates
    BY <1>1, <2>1 DEF Referred
  <2>4. QED
    BY <1>1, <2>1, <2>2, <2>3 DEF Referred
<1>12. ASSUME NEW i \in 1..Len(n4), NEW r \in Creates, EstablishmentResponse(i, r) PROVE Referred'
  <2>1. /\ release' = release /\ Answered(i)
        /\ \A s \in Creates : create'[s].pc = create[s].pc /\ create'[s].obj = create[s].obj
    BY <1>12, EstablishmentStep DEF CreateBecomes
  <2>2. QED
    BY <1>1, <1>8, <2>1 DEF Referred
<1>13. ASSUME NEW i \in 1..Len(n4), NEW q \in Releases, DeletionResponse(i, q) PROVE Referred'
  <2>1. release' = release /\ create' = create /\ Answered(i)
    BY <1>1, <1>13, DeletionStep
  <2>2. QED
    BY <1>1, <1>8, <2>1 DEF Referred
<1>14. CASE UNCHANGED vars
  BY <1>1, <1>14 DEF vars, Referred
<1>15. QED
  BY <1>3, <1>4, <1>5, <1>6, <1>7, <1>9, <1>10, <1>11, <1>12, <1>13, <1>14 DEF Next

\* Freeing addresses that were given out keeps the pool as it is to be.
LEMMA PoolStep ==
  ASSUME TypeOK, PoolKept, UNCHANGED pool \/ \E a \in SUBSET Int : release_paa(a) /\ \A p \in a : p < 0 => SomeStaticBelow
  PROVE  /\ PastEnd \subseteq taken' /\ (below' = {} => words' = FirstWords) /\ (below' # {} => SomeStaticBelow)
<1>1. CASE UNCHANGED pool
  BY <1>1 DEF pool, PoolKept
<1>2. ASSUME NEW a \in SUBSET Int, release_paa(a), \A p \in a : p < 0 => SomeStaticBelow
      PROVE  /\ PastEnd \subseteq taken' /\ (below' = {} => words' = FirstWords) /\ (below' # {} => SomeStaticBelow)
  <2>1. /\ words' = words /\ below \subseteq below' /\ PastEnd \subseteq taken'
        /\ below' # below => \E p \in a : p < 0
    BY <1>2, Freed
  <2>2. QED
    BY <1>2, <2>1 DEF PoolKept
<1>3. QED
  BY <1>1, <1>2

\* Every step keeps the pool, and the dynamic addresses in it.
LEMMA NextPool ==
  ASSUME TypeOK, Base, [Next]_vars
  PROVE  PoolKept' /\ InPool'
<1> USE Fields
<1>1. Referred /\ PoolKept /\ InPool
  BY DEF Base
<1>2. SomeStaticBelow' <=> SomeStaticBelow
  BY DEF SomeStaticBelow
<1>3. ASSUME UNCHANGED pool \/ \E a \in SUBSET Int : release_paa(a) /\ \A p \in a : p < 0 => SomeStaticBelow,
             \A r \in Creates : create'[r].key = create[r].key /\ create'[r].paa \subseteq create[r].paa,
             \A r \in Creates : sp'[r].paa \subseteq sp[r].paa
      PROVE  PoolKept' /\ InPool'
  <2>1. /\ PastEnd \subseteq taken' /\ (below' = {} => words' = FirstWords) /\ (below' # {} => SomeStaticBelow)
    BY <1>1, <1>3, PoolStep
  <2>2. \A r \in Creates : \A p \in sp'[r].paa \cup create'[r].paa : p < 0 => SomeStaticBelow
    BY <1>1, <1>3 DEF PoolKept
  <2>3. PoolKept'
    BY <1>2, <2>1, <2>2 DEF PoolKept, PastEnd, FirstWords
  <2>4. InPool'
    <3>1. ASSUME ~SomeStaticBelow, NEW r \in Creates, Static[create'[r].key] = {} PROVE create'[r].paa \subseteq 0..num-1
      BY <1>1, <1>3, <3>1 DEF InPool, StaysInPool
    <3>2. QED
      BY <1>2, <3>1 DEF InPool, StaysInPool
  <2>5. QED
    BY <2>3, <2>4
<1>4. ASSUME NEW r \in Creates, CreateLookup(r) PROVE PoolKept' /\ InPool'
  BY <1>3, <1>4, LookupStep DEF CreateBecomes
<1>5. ASSUME NEW r \in Creates, CreateFind(r) PROVE PoolKept' /\ InPool'
  BY <1>3, <1>5, FindStep DEF CreateBecomes
<1>6. ASSUME NEW r \in Creates, CreateRefused(r) PROVE PoolKept' /\ InPool'
  BY <1>3, <1>6, RefusedStep DEF CreateBecomes
<1>7. ASSUME NEW r \in Creates, CreateAdd(r) PROVE PoolKept' /\ InPool'
  <2>1. CreateBecomes(r, "allocate", r, create[r].paa, create[r].accepted) /\ UNCHANGED pool
        /\ SessionBecomes(r, sp[r].paa, TRUE, sp[r].graph)
    BY <1>7, AddStep
  <2>2. QED
    BY <1>3, <2>1 DEF CreateBecomes, SessionBecomes
<1>8. ASSUME NEW r \in Creates, CreateAllocate(r) PROVE PoolKept' /\ InPool'
  <2>1. PICK o : o = create[r].obj
    OBVIOUS
  <2>2. o \in Creates
    BY <1>1, <1>8, <2>1 DEF CreateAllocate, Referred
  <2>3. CASE /\ UNCHANGED pool /\ sp' = sp
             /\ CreateBecomes(r, "done", create[r].obj, create[r].paa, create[r].accepted)
    BY <1>3, <2>3 DEF CreateBecomes
  <2>4. ASSUME NEW paa \in SUBSET Int,
               CreateBecomes(r, "run", o, paa, create[r].accepted),
               SessionBecomes(o, paa, sp[o].named, sp[o].graph),
               \/ paa = Static[create[r].key] /\ Static[create[r].key] # {} /\ UNCHANGED pool
               \/ /\ Static[create[r].key] = {}
                  /\ \E p \in 0..words * WordBits : paa = {p} /\ alloc_address(p)
        PROVE  PoolKept' /\ InPool'
    <3>1. /\ \A s \in Creates : s # r => create'[s] = create[s]
          /\ \A s \in Creates : create'[s].key = create[s].key
          /\ create'[r].paa = paa
      BY <2>4 DEF CreateBecomes
    <3>2. (\A s \in Creates : s # o => sp'[s] = sp[s]) /\ sp'[o].paa = paa
      BY <2>4 DEF SessionBecomes
    <3>3. CASE paa = Static[create[r].key] /\ Static[create[r].key] # {} /\ UNCHANGED pool
      <4>1. \A p \in paa : p < 0 => SomeStaticBelow
        BY <3>3 DEF SomeStaticBelow
      <4>2. PoolKept'
        BY <1>1, <1>2, <2>2, <3>1, <3>2, <3>3, <4>1 DEF PoolKept, pool, PastEnd, FirstWords
      <4>3. ASSUME ~SomeStaticBelow, NEW s \in Creates, Static[create'[s].key] = {} PROVE create'[s].paa \subseteq 0..num-1
        <5>1. s # r
          BY <3>1, <3>3, <4>3
        <5>2. QED
          BY <1>1, <3>1, <4>3, <5>1 DEF InPool, StaysInPool
      <4>4. QED
        BY <1>2, <4>2, <4>3 DEF InPool, StaysInPool
    <3>4. ASSUME NEW p \in 0..words * WordBits, paa = {p}, alloc_address(p), Static[create[r].key] = {}
          PROVE  PoolKept' /\ InPool'
      <4>1. /\ p \in Nat /\ below' = below /\ PastEnd \subseteq taken' /\ (below = {} => words' = words)
            /\ p \in 0..num-1 \/ (p >= num /\ SomeStaticBelow)
        BY <1>1, <3>4, Allocated
      <4>2. PoolKept'
        <5>1. \A s \in Creates : \A x \in sp'[s].paa \cup create'[s].paa : x < 0 => SomeStaticBelow
          BY <1>1, <2>2, <3>1, <3>2, <3>4, <4>1 DEF PoolKept
        <5>2. QED
          BY <1>1, <1>2, <4>1, <5>1 DEF PoolKept, PastEnd, FirstWords
      <4>3. ASSUME ~SomeStaticBelow, NEW s \in Creates, Static[create'[s].key] = {} PROVE create'[s].paa \subseteq 0..num-1
        <5>1. CASE s = r
          BY <3>1, <3>4, <4>1, <4>3, <5>1
        <5>2. CASE s # r
          BY <1>1, <3>1, <4>3, <5>2 DEF InPool, StaysInPool
        <5>3. QED
          BY <5>1, <5>2
      <4>4. QED
        BY <1>2, <4>2, <4>3 DEF InPool, StaysInPool
    <3>5. QED
      BY <2>4, <3>3, <3>4
  <2>5. QED
    BY <1>1, <1>8, <2>1, <2>2, <2>3, <2>4, AllocateStep
<1>9. ASSUME NEW r \in Creates, CreateRun(r) PROVE PoolKept' /\ InPool'
  <2>1. /\ UNCHANGED pool
        /\ \A s \in Creates : create'[s].key = create[s].key /\ create'[s].paa = create[s].paa
        /\ \A s \in Creates : sp'[s].paa = sp[s].paa
    BY <1>9, RunStep DEF CreateBecomes, SessionBecomes
  <2>2. QED
    BY <1>3, <2>1
<1>10. ASSUME NEW r \in Creates, CreateCheck(r) PROVE PoolKept' /\ InPool'
  <2>1. /\ UNCHANGED pool \/ release_paa(create[r].paa)
        /\ \A s \in Creates : create'[s].key = create[s].key /\ create'[s].paa = create[s].paa
        /\ sp' = sp
    BY <1>1, <1>10, CheckStep DEF CreateBecomes
  <2>2. create[r].paa \in SUBSET Int /\ \A p \in create[r].paa : p < 0 => SomeStaticBelow
    BY <1>1 DEF PoolKept
  <2>3. QED
    BY <1>3, <2>1, <2>2
<1>11. ASSUME NEW q \in Releases, NEW k \in Keys, ReleaseRequest(q, k) PROVE PoolKept' /\ InPool'
  <2>1. UNCHANGED <<pool, sp, create>>
    BY <1>11, ReleaseStep
  <2>2. QED
    BY <1>3, <2>1
<1>12. ASSUME NEW i \in 1..Len(n4), NEW r \in Creates, EstablishmentResponse(i, r) PROVE PoolKept' /\ InPool'
  <2>1. /\ UNCHANGED <<pool, sp>>
        /\ \A s \in Creates : create'[s].key = create[s].key /\ create'[s].paa = create[s].paa
    BY <1>12, EstablishmentStep DEF CreateBecomes
  <2>2. QED
    BY <1>3, <2>1
<1>13. ASSUME NEW i \in 1..Len(n4), NEW q \in Releases, DeletionResponse(i, q) PROVE PoolKept' /\ InPool'
  <2>1. PICK o : o = release[q].obj
    OBVIOUS
  <2>2. /\ o \in Creates /\ create' = create /\ SessionBecomes(o, {}, FALSE, sp[o].graph)
        /\ UNCHANGED pool \/ release_paa(sp[o].paa)
    BY <1>1, <1>13, <2>1, DeletionStep
  <2>3. sp[o].paa \in SUBSET Int /\ \A p \in sp[o].paa : p < 0 => SomeStaticBelow
    BY <1>1, <2>2 DEF PoolKept
  <2>4. \A s \in Creates : sp'[s].paa \subseteq sp[s].paa
    BY <2>2 DEF SessionBecomes
  <2>5. QED
    BY <1>3, <2>2, <2>3, <2>4
<1>14. CASE UNCHANGED vars
  BY <1>3, <1>14 DEF vars
<1>15. QED
  BY <1>4, <1>5, <1>6, <1>7, <1>8, <1>9, <1>10, <1>11, <1>12, <1>13, <1>14 DEF Next

\* The base invariant.
LEMMA NextBase ==
  ASSUME TypeOK, Base, [Next]_vars
  PROVE  TypeOK' /\ Base'
BY NextTypes, NextReferred, NextPool DEF Base

\* Every variable stays in its type.
THEOREM TypeCorrect == Spec => []TypeOK
<1>1. Init => TypeOK /\ Base
  BY InitBase
<1>2. TypeOK /\ Base /\ [Next]_vars => (TypeOK /\ Base)'
  BY NextBase
<1>3. QED
  BY <1>1, <1>2, PTL DEF Spec

\* As long as no subscription has an address below the pool, no UE is given an address
\* past its end, whatever requests overlap and whatever UPFs answer.
THEOREM AddressesStayInPool ==
  ASSUME \A k \in Keys : Static[k] \subseteq Nat
  PROVE  Spec => []StaysInPool
<1>1. Init => TypeOK /\ Base
  BY InitBase
<1>2. TypeOK /\ Base /\ [Next]_vars => (TypeOK /\ Base)'
  BY NextBase
<1>3. ~SomeStaticBelow
  BY DEF SomeStaticBelow
<1>4. Base => StaysInPool
  BY <1>3 DEF Base, InPool
<1>5. QED
  BY <1>1, <1>2, <1>4, PTL DEF Spec

-----------------------------------------------------------------------------
(* One Create request at a time for a key.                                  *)

\* A request that neither looks up nor adds a session leaves the sessions as they are.
LEMMA OwnKept ==
  ASSUME TypeOK, OwnObject, NEW r \in Creates, NEW pc, NEW obj, NEW paa, NEW accepted,
         CreateBecomes(r, pc, obj, paa, accepted), pdu_sessions' = pdu_sessions, scids \subseteq scids',
         obj \in {r, NoObject}, Handled(r),
         pc \in {"find", "add"} => create[r].pc \in {"find", "add"},
         pc = "add" => create[r].key \in scids',
         pc \in {"allocate", "run"} => create[r].pc \in {"allocate", "run"} /\ obj = create[r].obj,
         pc \in {"unused", "find", "add"} => create[r].pc \in {"unused", "find", "add"}
  PROVE  OwnObject'
<1>1. /\ \A s \in Creates : s # r => create'[s] = create[s]
      /\ \A s \in Creates : create'[s].key = create[s].key
      /\ create'[r].pc = pc /\ create'[r].obj = obj
  BY DEF CreateBecomes
<1>2. \A s \in Creates : create'[s].obj \in {s, NoObject}
  BY <1>1 DEF OwnObject
<1>3. ASSUME NEW k \in Keys, pdu_sessions[k] # NoObject, NEW o \in Creates, o = pdu_sessions[k]
      PROVE  k \in scids' /\ create'[o].key = k /\ create'[o].pc \notin {"unused", "find", "add"}
  BY <1>1, <1>3 DEF OwnObject
<1>4. ASSUME NEW s \in Creates, create'[s].pc \in {"find", "add"} PROVE pdu_sessions[create'[s].key] = NoObject
  BY <1>1, <1>4 DEF OwnObject
<1>5. ASSUME NEW s \in Creates, create'[s].pc \in {"allocate", "run"}
      PROVE  create'[s].obj = s /\ pdu_sessions[create'[s].key] = s
  BY <1>1, <1>5 DEF OwnObject
<1>6. ASSUME NEW s \in Creates, NEW t \in Creates, Handled(s)', Handled(t)', create'[s].key = create'[t].key
      PROVE  s = t
  BY <1>1, <1>6 DEF OwnObject, Handled
<1>7. \A k \in Keys : pdu_sessions[k] # NoObject => pdu_sessions[k] \in Creates
  BY Fields
<1>8. ASSUME NEW s \in Creates, create'[s].pc = "add" PROVE create'[s].key \in scids'
  BY <1>1, <1>8 DEF OwnObject
<1>9. QED
  BY <1>2, <1>3, <1>4, <1>5, <1>6, <1>7, <1>8 DEF OwnObject

\* Every step keeps a request to its own object.
LEMMA NextOwnObject ==
  ASSUME Overlap = FALSE, TypeOK, Base, OwnObject, [Next]_vars
  PROVE  OwnObject'
<1> USE Fields
<1>1. Referred /\ PoolKept
  BY DEF Base
<1>2. ASSUME UNCHANGED <<pdu_sessions, scids>>,
             \A s \in Creates : create'[s].key = create[s].key /\ create'[s].pc = create[s].pc /\ create'[s].obj = create[s].obj
      PROVE  OwnObject'
  BY <1>2 DEF OwnObject, Handled
<1>3. ASSUME NEW r \in Creates, CreateLookup(r) PROVE OwnObject'
  <2>1. PICK k : k = create[r].key
    OBVIOUS
  <2>2. /\ CreateBecomes(r, "find", create[r].obj, create[r].paa, create[r].accepted)
        /\ create[r].pc = "unused" /\ scids' = scids /\ k \in Keys
        /\ \A s \in Creates : create[s].key = k => ~Handled(s)
        /\ \A l \in Keys : l # k => pdu_sessions'[l] = pdu_sessions[l]
        /\ pdu_sessions' \in [Keys -> Creates \cup {NoObject}]
    BY <1>3, <2>1, LookupStep
  <2>3. pdu_sessions'[k] = NoObject
    <3>1. CASE k \in scids
      BY <1>3, <2>1, <3>1, LookupStep
    <3>2. CASE k \notin scids
      <4>1. pdu_sessions[k] = NoObject
        BY <2>2, <3>2 DEF OwnObject
      <4>2. QED
        BY <1>3, <2>2, <4>1, LookupStep
    <3>3. QED
      BY <3>1, <3>2
  <2>4. /\ \A s \in Creates : s # r => create'[s] = create[s]
        /\ \A s \in Creates : create'[s].key = create[s].key
        /\ create'[r].pc = "find" /\ create'[r].obj = create[r].obj
    BY <2>2 DEF CreateBecomes
  <2>5. \A s \in Creates : create'[s].obj \in {s, NoObject}
    BY <2>4 DEF OwnObject
  <2>6. ASSUME NEW l \in Keys, pdu_sessions'[l] # NoObject
        PROVE  /\ l \in scids' /\ create'[pdu_sessions'[l]].key = l
               /\ create'[pdu_sessions'[l]].pc \notin {"unused", "find", "add"}
    <3>1. l # k /\ pdu_sessions'[l] = pdu_sessions[l]
      BY <2>2, <2>3, <2>6
    <3>2. PICK o : o = pdu_sessions[l]
      OBVIOUS
    <3>3. o \in Creates /\ o # r /\ create[o].key = l /\ l \in scids /\ create[o].pc \notin {"unused", "find", "add"}
      BY <2>2, <2>6, <3>1, <3>2 DEF OwnObject
    <3>4. QED
      BY <2>2, <2>4, <3>1, <3>2, <3>3
  <2>7. ASSUME NEW s \in Creates, create'[s].pc \in {"find", "add"} PROVE pdu_sessions'[create'[s].key] = NoObject
    <3>1. CASE s = r
      BY <2>1, <2>3, <2>4, <3>1
    <3>2. CASE s # r
      <4>1. create[s].key \in Keys /\ create[s].key # k
        BY <2>2, <2>4, <2>7, <3>2 DEF Handled
      <4>2. QED
        BY <2>2, <2>4, <2>7, <3>2, <4>1 DEF OwnObject
    <3>3. QED
      BY <3>1, <3>2
  <2>8. ASSUME NEW s \in Creates, create'[s].pc \in {"allocate", "run"}
        PROVE  create'[s].obj = s /\ pdu_sessions'[create'[s].key] = s
    <3>1. s # r
      BY <2>4, <2>8
    <3>2. create[s].key \in Keys /\ create[s].key # k
      BY <2>2, <2>4, <2>8, <3>1 DEF Handled
    <3>3. QED
      BY <2>2, <2>4, <2>8, <3>1, <3>2 DEF OwnObject
  <2>9. ASSUME NEW s \in Creates, NEW t \in Creates, Handled(s)', Handled(t)', create'[s].key = create'[t].key
        PROVE  s = t
    BY <2>1, <2>2, <2>4, <2>9 DEF OwnObject, Handled
  <2>10. ASSUME NEW s \in Creates, create'[s].pc = "add" PROVE create'[s].key \in scids'
    BY <2>2, <2>4, <2>10 DEF OwnObject
  <2>11. QED
    BY <2>5, <2>6, <2>7, <2>8, <2>9, <2>10 DEF OwnObject
<1>4. ASSUME NEW r \in Creates, CreateFind(r) PROVE OwnObject'
  <2>1. create[r].pc = "find" /\ pdu_sessions' = pdu_sessions /\ scids \subseteq scids'
    BY <1>4, FindStep
  <2>2. pdu_sessions[create[r].key] = NoObject
    BY <2>1 DEF OwnObject
  <2>3. CreateBecomes(r, "add", NoObject, create[r].paa, create[r].accepted) /\ create[r].key \in scids'
    BY <1>4, <2>2, FindStep
  <2>4. QED
    BY <2>1, <2>3, OwnKept DEF Handled
<1>5. ASSUME NEW r \in Creates, CreateRefused(r) PROVE OwnObject'
  <2>1. /\ create[r].pc = "find" /\ pdu_sessions' = pdu_sessions /\ scids \subseteq scids'
        /\ CreateBecomes(r, "done", create[r].obj, create[r].paa, create[r].accepted)
        /\ create[r].obj \in {r, NoObject}
    BY <1>5, RefusedStep DEF OwnObject
  <2>2. QED
    BY <2>1, OwnKept DEF Handled
<1>6. ASSUME NEW r \in Creates, CreateAdd(r) PROVE OwnObject'
  <2>1. PICK k : k = create[r].key
    OBVIOUS
  <2>2. /\ CreateBecomes(r, "allocate", r, create[r].paa, create[r].accepted)
        /\ create[r].pc = "add" /\ scids' = scids /\ k \in Keys
        /\ \A l \in Keys : pdu_sessions'[l] = IF l = k /\ pdu_sessions[l] = NoObject THEN r ELSE pdu_sessions[l]
    <3>1. /\ CreateBecomes(r, "allocate", r, create[r].paa, create[r].accepted)
          /\ create[r].pc = "add" /\ scids' = scids
          /\ \A l \in Keys : pdu_sessions'[l] =
                IF l = create[r].key /\ pdu_sessions[l] = NoObject THEN r ELSE pdu_sessions[l]
      BY <1>6, AddStep
    <3>2. QED
      BY <2>1, <3>1
  <2>3. /\ \A s \in Creates : s # r => create'[s] = create[s]
        /\ \A s \in Creates : create'[s].key = create[s].key
        /\ create'[r].pc = "allocate" /\ create'[r].obj = r
    BY <2>2 DEF CreateBecomes
  <2>4. pdu_sessions[k] = NoObject /\ pdu_sessions'[k] = r
    BY <2>1, <2>2 DEF OwnObject
  <2>5. \A s \in Creates : create'[s].obj \in {s, NoObject}
    BY <2>3 DEF OwnObject
  <2>6. ASSUME NEW l \in Keys, pdu_sessions'[l] # NoObject
        PROVE  /\ l \in scids' /\ create'[pdu_sessions'[l]].key = l
               /\ create'[pdu_sessions'[l]].pc \notin {"unused", "find", "add"}
    <3>1. CASE l = k
      <4>1. l \in scids
        BY <2>1, <2>2, <3>1 DEF OwnObject
      <4>2. QED
        BY <2>1, <2>2, <2>3, <2>4, <3>1, <4>1
    <3>2. CASE l # k
      <4>1. PICK o : o = pdu_sessions[l]
        OBVIOUS
      <4>2. o \in Creates /\ o # r /\ create[o].key = l /\ l \in scids /\ create[o].pc \notin {"unused", "find", "add"}
        BY <2>2, <2>6, <3>2, <4>1 DEF OwnObject
      <4>3. QED
        BY <2>2, <2>3, <3>2, <4>1, <4>2
    <3>3. QED
      BY <3>1, <3>2
  <2>7. ASSUME NEW s \in Creates, create'[s].pc \in {"find", "add"} PROVE pdu_sessions'[create'[s].key] = NoObject
    <3>1. s # r
      BY <2>3, <2>7
    <3>2. create[s].key \in Keys /\ create[s].key # k
      BY <2>1, <2>2, <2>3, <2>7, <3>1 DEF Handled, OwnObject
    <3>3. QED
      BY <2>2, <2>3, <2>7, <3>1, <3>2 DEF OwnObject
  <2>8. ASSUME NEW s \in Creates, create'[s].pc \in {"allocate", "run"}
        PROVE  create'[s].obj = s /\ pdu_sessions'[create'[s].key] = s
    <3>1. CASE s = r
      BY <2>1, <2>3, <2>4, <3>1
    <3>2. CASE s # r
      BY <2>2, <2>3, <2>8, <3>2 DEF OwnObject
    <3>3. QED
      BY <3>1, <3>2
  <2>9. ASSUME NEW s \in Creates, NEW t \in Creates, Handled(s)', Handled(t)', create'[s].key = create'[t].key
        PROVE  s = t
    BY <2>2, <2>3, <2>9 DEF OwnObject, Handled
  <2>10. ASSUME NEW s \in Creates, create'[s].pc = "add" PROVE create'[s].key \in scids'
    BY <2>2, <2>3, <2>10 DEF OwnObject
  <2>11. QED
    BY <2>5, <2>6, <2>7, <2>8, <2>9, <2>10 DEF OwnObject
<1>7. ASSUME NEW r \in Creates, CreateAllocate(r) PROVE OwnObject'
  <2>1. /\ create[r].pc = "allocate" /\ pdu_sessions' = pdu_sessions /\ scids \subseteq scids'
        /\ create[r].obj \in {r, NoObject} /\ create[r].obj \in Creates
    BY <1>1, <1>7 DEF CreateAllocate, Referred, OwnObject
  <2>2. \E pc \in {"done", "run"} : \E paa : CreateBecomes(r, pc, create[r].obj, paa, create[r].accepted)
    BY <1>1, <1>7, <2>1, AllocateStep
  <2>3. QED
    BY <2>1, <2>2, OwnKept DEF Handled
<1>8. ASSUME NEW r \in Creates, CreateRun(r) PROVE OwnObject'
  <2>1. /\ create[r].pc = "run" /\ pdu_sessions' = pdu_sessions /\ scids \subseteq scids'
        /\ create[r].obj \in {r, NoObject}
    BY <1>8 DEF CreateRun, OwnObject
  <2>2. \E accepted : CreateBecomes(r, "check", create[r].obj, create[r].paa, accepted)
    BY <1>8, RunStep
  <2>3. QED
    BY <2>1, <2>2, OwnKept DEF Handled
<1>9. ASSUME NEW r \in Creates, CreateCheck(r) PROVE OwnObject'
  <2>1. /\ create[r].pc = "check" /\ pdu_sessions' = pdu_sessions /\ scids \subseteq scids'
        /\ CreateBecomes(r, "done", create[r].obj, create[r].paa, create[r].accepted)
        /\ create[r].obj \in {r, NoObject}
    BY <1>1, <1>9, CheckStep DEF OwnObject
  <2>2. QED
    BY <2>1, OwnKept DEF Handled
<1>10. ASSUME NEW q \in Releases, NEW k \in Keys, ReleaseRequest(q, k) PROVE OwnObject'
  <2>1. UNCHANGED <<pdu_sessions, scids, create>>
    BY <1>10, ReleaseStep
  <2>2. QED
    BY <1>2, <2>1
<1>11. ASSUME NEW i \in 1..Len(n4), NEW r \in Creates, EstablishmentResponse(i, r) PROVE OwnObject'
  <2>1. /\ UNCHANGED <<pdu_sessions, scids>>
        /\ \A s \in Creates : create'[s].key = create[s].key /\ create'[s].pc = create[s].pc /\ create'[s].obj = create[s].obj
    BY <1>11, EstablishmentStep DEF CreateBecomes
  <2>2. QED
    BY <1>2, <2>1
<1>12. ASSUME NEW i \in 1..Len(n4), NEW q \in Releases, DeletionResponse(i, q) PROVE OwnObject'
  <2>1. UNCHANGED <<pdu_sessions, scids, create>>
    BY <1>1, <1>12, DeletionStep
  <2>2. QED
    BY <1>2, <2>1
<1>13. CASE UNCHANGED vars
  BY <1>2, <1>13 DEF vars
<1>14. QED
  BY <1>3, <1>4, <1>5, <1>6, <1>7, <1>8, <1>9, <1>10, <1>11, <1>12, <1>13 DEF Next

\* A request that gets on without touching a session keeps the sessions named.
LEMMA NamedKept ==
  ASSUME TypeOK, Referred, Named, NEW r \in Creates, NEW pc, NEW obj, NEW paa, NEW accepted,
         CreateBecomes(r, pc, obj, paa, accepted), sp' = sp, release' = release,
         pc \in {"unused", "find", "add"} => create[r].pc \in {"unused", "find", "add"},
         create[r].pc \in {"check", "done"} => pc \in {"check", "done"},
         pc # "allocate"
  PROVE  Named'
<1>1. /\ \A s \in Creates : s # r => create'[s] = create[s]
      /\ create'[r].pc = pc
  BY DEF CreateBecomes
<1>2. ASSUME NEW s \in Creates, create'[s].pc \in {"unused", "find", "add", "allocate"} PROVE sp[s].paa = {}
  BY <1>1, <1>2 DEF Named
<1>3. ASSUME NEW s \in Creates, create'[s].pc = "allocate" \/ sp[s].paa # {} PROVE sp[s].named
  BY <1>1, <1>3 DEF Named
<1>4. ASSUME NEW s \in Creates, sp[s].graph PROVE create'[s].pc \in {"check", "done"}
  BY <1>1, <1>4 DEF Named
<1>5. ASSUME NEW q \in Releases, release[q].sent
      PROVE  /\ create'[release[q].obj].pc \in {"check", "done"}
             /\ ~release[q].named => sp[release[q].obj].paa = {}
  <2>1. /\ create[release[q].obj].pc \in {"check", "done"}
        /\ ~release[q].named => sp[release[q].obj].paa = {}
    BY <1>5 DEF Named
  <2>2. PICK o \in Creates : o = release[q].obj
    BY <1>5 DEF Referred
  <2>3. create'[o].pc \in {"check", "done"}
    BY <1>1, <2>1, <2>2
  <2>4. QED
    BY <2>1, <2>2, <2>3
<1>6. QED
  BY <1>2, <1>3, <1>4, <1>5 DEF Named

\* Every step keeps the sessions with an address named.
LEMMA NextNamed ==
  ASSUME Overlap = FALSE, TypeOK, Base, OwnObject, Named, [Next]_vars
  PROVE  Named'
<1> USE Fields
<1>1. Referred /\ PoolKept
  BY DEF Base
<1>2. \A q \in Releases : release[q].sent =>
        /\ release[q].obj \in Creates /\ create[release[q].obj].pc \in {"check", "done"}
        /\ ~release[q].named => sp[release[q].obj].paa = {}
  BY <1>1 DEF Named, Referred
<1>3. ASSUME NEW r \in Creates, CreateLookup(r) PROVE Named'
  BY <1>1, <1>3, LookupStep, NamedKept
<1>4. ASSUME NEW r \in Creates, CreateFind(r) PROVE Named'
  <2>1. /\ create[r].pc = "find" /\ sp' = sp /\ release' = release
        /\ pdu_sessions[create[r].key] = NoObject
    BY <1>4, FindStep DEF OwnObject
  <2>2. CreateBecomes(r, "add", NoObject, create[r].paa, create[r].accepted)
    BY <1>4, <2>1, FindStep
  <2>3. QED
    BY <1>1, <2>1, <2>2, NamedKept
<1>5. ASSUME NEW r \in Creates, CreateRefused(r) PROVE Named'
  BY <1>1, <1>5, RefusedStep, NamedKept
<1>6. ASSUME NEW r \in Creates, CreateAdd(r) PROVE Named'
  <2>1. /\ CreateBecomes(r, "allocate", r, create[r].paa, create[r].accepted)
        /\ SessionBecomes(r, sp[r].paa, TRUE, sp[r].graph)
        /\ release' = release /\ create[r].pc = "add"
    BY <1>6, AddStep
  <2>2. /\ \A s \in Creates : s # r => create'[s] = create[s] /\ sp'[s] = sp[s]
        /\ create'[r].pc = "allocate" /\ sp'[r].paa = sp[r].paa /\ sp'[r].named /\ sp'[r].graph = sp[r].graph
    BY <2>1 DEF CreateBecomes, SessionBecomes
  <2>3. sp[r].paa = {} /\ ~sp[r].graph
    BY <2>1 DEF Named
  <2>4. \A s \in Creates : create'[s].pc \in {"unused", "find", "add", "allocate"} => sp'[s].paa = {}
    BY <2>2, <2>3 DEF Named
  <2>5. \A s \in Creates : create'[s].pc = "allocate" \/ sp'[s].paa # {} => sp'[s].named
    BY <2>2, <2>3 DEF Named
  <2>6. \A s \in Creates : sp'[s].graph => create'[s].pc \in {"check", "done"}
    BY <2>2, <2>3 DEF Named
  <2>7. ASSUME NEW q \in Releases, release[q].sent
        PROVE  /\ create'[release[q].obj].pc \in {"check", "done"}
               /\ ~release[q].named => sp'[release[q].obj].paa = {}
    BY <1>2, <2>1, <2>2, <2>7
  <2>8. QED
    BY <2>1, <2>4, <2>5, <2>6, <2>7 DEF Named
<1>7. ASSUME NEW r \in Creates, CreateAllocate(r) PROVE Named'
  <2>1. create[r].pc = "allocate" /\ create[r].obj = r /\ sp[r].named /\ ~sp[r].graph
    BY <1>7 DEF CreateAllocate, OwnObject, Named
  <2>2. release' = release
    BY <1>1, <1>7, <2>1, AllocateStep
  <2>3. CASE sp' = sp /\ CreateBecomes(r, "done", create[r].obj, create[r].paa, create[r].accepted)
    BY <1>1, <2>1, <2>2, <2>3, NamedKept
  <2>4. ASSUME NEW paa \in SUBSET Int, CreateBecomes(r, "run", r, paa, create[r].accepted),
               SessionBecomes(r, paa, sp[r].named, sp[r].graph)
        PROVE  Named'
    <3>1. /\ \A s \in Creates : s # r => create'[s] = create[s] /\ sp'[s] = sp[s]
          /\ create'[r].pc = "run" /\ sp'[r].named /\ ~sp'[r].graph
      BY <2>1, <2>4 DEF CreateBecomes, SessionBecomes
    <3>2. \A s \in Creates : create'[s].pc \in {"unused", "find", "add", "allocate"} => sp'[s].paa = {}
      BY <3>1 DEF Named
    <3>3. \A s \in Creates : create'[s].pc = "allocate" \/ sp'[s].paa # {} => sp'[s].named
      BY <3>1 DEF Named
    <3>4. \A s \in Creates : sp'[s].graph => create'[s].pc \in {"check", "done"}
      BY <3>1 DEF Named
    <3>5. ASSUME NEW q \in Releases, release[q].sent
          PROVE  /\ create'[release[q].obj].pc \in {"check", "done"}
                 /\ ~release[q].named => sp'[release[q].obj].paa = {}
      BY <1>2, <2>1, <3>1, <3>5
    <3>6. QED
      BY <2>2, <3>2, <3>3, <3>4, <3>5 DEF Named
  <2>5. QED
    <3>1. \/ sp' = sp /\ CreateBecomes(r, "done", create[r].obj, create[r].paa, create[r].accepted)
          \/ \E paa \in SUBSET Int :
               /\ CreateBecomes(r, "run", create[r].obj, paa, create[r].accepted)
               /\ SessionBecomes(create[r].obj, paa, sp[create[r].obj].named, sp[create[r].obj].graph)
      <4>1. create[r].obj \in Creates
        BY <2>1
      <4>2. QED
        BY <1>1, <1>7, <4>1, AllocateStep
    <3>2. ASSUME NEW paa \in SUBSET Int,
                 CreateBecomes(r, "run", create[r].obj, paa, create[r].accepted),
                 SessionBecomes(create[r].obj, paa, sp[create[r].obj].named, sp[create[r].obj].graph)
          PROVE  Named'
      <4>1. CreateBecomes(r, "run", r, paa, create[r].accepted) /\ SessionBecomes(r, paa, sp[r].named, sp[r].graph)
        BY <2>1, <3>2 DEF CreateBecomes, SessionBecomes
      <4>2. QED
        BY <2>4, <4>1
    <3>3. QED
      BY <2>3, <3>1, <3>2
<1>8. ASSUME NEW r \in Creates, CreateRun(r) PROVE Named'
  <2>1. /\ create[r].pc = "run" /\ pdu_sessions[create[r].key] = r /\ release' = release
        /\ \E accepted : CreateBecomes(r, "check", create[r].obj, create[r].paa, accepted)
        /\ sp' = sp \/ SessionBecomes(r, sp[r].paa, sp[r].named, TRUE)
    <3>1. create[r].pc = "run" /\ release' = release
      BY <1>8, RunStep
    <3>2. \E accepted : CreateBecomes(r, "check", create[r].obj, create[r].paa, accepted)
      BY <1>8, RunStep
    <3>3. sp' = sp \/ \E o \in Creates : o = pdu_sessions[create[r].key] /\ SessionBecomes(o, sp[o].paa, sp[o].named, TRUE)
      BY <1>8, RunStep
    <3>4. pdu_sessions[create[r].key] = r
      BY <3>1 DEF OwnObject
    <3>5. QED
      BY <3>1, <3>2, <3>3, <3>4
  <2>2. CASE sp' = sp
    BY <1>1, <2>1, <2>2, NamedKept
  <2>3. CASE SessionBecomes(r, sp[r].paa, sp[r].named, TRUE)
    <3>1. /\ \A s \in Creates : s # r => create'[s] = create[s]
          /\ \A s \in Creates : sp'[s].paa = sp[s].paa /\ sp'[s].named = sp[s].named
          /\ \A s \in Creates : s # r => sp'[s].graph = sp[s].graph
          /\ create'[r].pc = "check"
      BY <2>1, <2>3 DEF CreateBecomes, SessionBecomes
    <3>2. \A s \in Creates : create'[s].pc \in {"unused", "find", "add", "allocate"} => sp'[s].paa = {}
      BY <3>1 DEF Named
    <3>3. \A s \in Creates : create'[s].pc = "allocate" \/ sp'[s].paa # {} => sp'[s].named
      BY <3>1 DEF Named
    <3>4. \A s \in Creates : sp'[s].graph => create'[s].pc \in {"check", "done"}
      BY <3>1 DEF Named
    <3>5. ASSUME NEW q \in Releases, release[q].sent
          PROVE  /\ create'[release[q].obj].pc \in {"check", "done"}
                 /\ ~release[q].named => sp'[release[q].obj].paa = {}
      <4>1. PICK o \in Creates : o = release[q].obj
        BY <1>2, <3>5
      <4>2. create[o].pc \in {"check", "done"} /\ (~release[q].named => sp[o].paa = {})
        BY <1>2, <3>5, <4>1
      <4>3. create'[o].pc \in {"check", "done"} /\ sp'[o].paa = sp[o].paa
        BY <3>1, <4>2
      <4>4. QED
        BY <4>1, <4>2, <4>3
    <3>6. QED
      BY <2>1, <3>2, <3>3, <3>4, <3>5 DEF Named
  <2>4. QED
    BY <2>1, <2>2, <2>3
<1>9. ASSUME NEW r \in Creates, CreateCheck(r) PROVE Named'
  BY <1>1, <1>9, CheckStep, NamedKept
<1>10. ASSUME NEW q \in Releases, NEW k \in Keys, ReleaseRequest(q, k) PROVE Named'
  <2>1. PICK o \in Creates : o = pdu_sessions[k]
    BY <1>10, ReleaseStep
  <2>2. /\ sp[o].graph /\ sp' = sp /\ create' = create
        /\ \A x \in Releases : x # q => release'[x] = release[x]
        /\ release'[q].obj = o /\ release'[q].named = sp[o].named
    BY <1>10, <2>1, ReleaseStep
  <2>3. ASSUME NEW x \in Releases, release'[x].sent
        PROVE  /\ create[release'[x].obj].pc \in {"check", "done"}
               /\ ~release'[x].named => sp[release'[x].obj].paa = {}
    <3>1. CASE x = q
      BY <2>2, <3>1 DEF Named
    <3>2. CASE x # q
      BY <1>2, <2>2, <2>3, <3>2
    <3>3. QED
      BY <3>1, <3>2
  <2>4. QED
    BY <2>2, <2>3 DEF Named
<1>11. ASSUME NEW i \in 1..Len(n4), NEW r \in Creates, EstablishmentResponse(i, r) PROVE Named'
  <2>1. sp' = sp /\ release' = release
    BY <1>11, EstablishmentStep
  <2>2. \A s \in Creates : create'[s].pc = create[s].pc
    BY <1>11, EstablishmentStep DEF CreateBecomes
  <2>3. ASSUME NEW q \in Releases, release[q].sent
        PROVE  /\ create'[release[q].obj].pc \in {"check", "done"}
               /\ ~release[q].named => sp[release[q].obj].paa = {}
    BY <1>2, <2>2, <2>3
  <2>4. QED
    BY <2>1, <2>2, <2>3 DEF Named
<1>12. ASSUME NEW i \in 1..Len(n4), NEW q \in Releases, DeletionResponse(i, q) PROVE Named'
  <2>1. PICK o \in Creates : o = release[q].obj
    BY <1>1, <1>12, DeletionStep
  <2>2. /\ create' = create /\ release' = release /\ release[q].sent
        /\ SessionBecomes(o, {}, FALSE, sp[o].graph)
    BY <1>1, <1>12, <2>1, DeletionStep
  <2>3. /\ \A s \in Creates : s # o => sp'[s] = sp[s]
        /\ sp'[o].paa = {} /\ sp'[o].graph = sp[o].graph
        /\ create[o].pc \in {"check", "done"}
    BY <1>2, <2>1, <2>2 DEF SessionBecomes
  <2>4. \A s \in Creates : create[s].pc \in {"unused", "find", "add", "allocate"} => sp'[s].paa = {}
    BY <2>3 DEF Named
  <2>5. \A s \in Creates : create[s].pc = "allocate" \/ sp'[s].paa # {} => sp'[s].named
    BY <2>3 DEF Named
  <2>6. \A s \in Creates : sp'[s].graph => create[s].pc \in {"check", "done"}
    BY <2>3 DEF Named
  <2>7. ASSUME NEW x \in Releases, release[x].sent
        PROVE  /\ create[release[x].obj].pc \in {"check", "done"}
               /\ ~release[x].named => sp'[release[x].obj].paa = {}
    BY <1>2, <2>3, <2>7
  <2>8. QED
    BY <2>2, <2>4, <2>5, <2>6, <2>7 DEF Named
<1>13. CASE UNCHANGED vars
  BY <1>13 DEF vars, Named
<1>14. QED
  BY <1>3, <1>4, <1>5, <1>6, <1>7, <1>8, <1>9, <1>10, <1>11, <1>12, <1>13 DEF Next

\* Every step keeps the addresses that are out recorded.
LEMMA NextRecorded ==
  ASSUME Overlap = FALSE, TypeOK, Base, Serial, [Next]_vars
  PROVE  TakenIsRecorded'
<1> USE Fields
<1>1. Referred /\ PoolKept /\ OwnObject /\ Named
  BY DEF Base, Serial
<1>2. \A p \in 0..num-1 : p \in taken => \E s \in Creates : p \in sp[s].paa
  BY DEF Serial, TakenIsRecorded
<1>3. ASSUME \A p \in 0..num-1 : p \in taken' => \E s \in Creates : p \in sp'[s].paa
      PROVE  TakenIsRecorded'
  BY <1>3 DEF TakenIsRecorded
<1>4. ASSUME taken' \subseteq taken, \A s \in Creates : sp[s].paa \subseteq sp'[s].paa
      PROVE  TakenIsRecorded'
  BY <1>2, <1>3, <1>4
<1>5. ASSUME NEW r \in Creates, CreateLookup(r) \/ CreateFind(r) \/ CreateRefused(r) PROVE TakenIsRecorded'
  <2>1. taken' = taken /\ sp' = sp
    BY <1>5 DEF CreateLookup, CreateFind, CreateRefused, pool
  <2>2. QED
    BY <1>4, <2>1
<1>6. ASSUME NEW r \in Creates, CreateAdd(r) PROVE TakenIsRecorded'
  <2>1. taken' = taken /\ \A s \in Creates : sp'[s].paa = sp[s].paa
    BY <1>6, AddStep DEF SessionBecomes, pool
  <2>2. QED
    BY <1>4, <2>1
<1>7. ASSUME NEW r \in Creates, CreateAllocate(r) PROVE TakenIsRecorded'
  <2>1. create[r].pc = "allocate" /\ create[r].obj = r /\ sp[r].paa = {}
    BY <1>1, <1>7 DEF CreateAllocate, OwnObject, Named
  <2>2. CASE taken' = taken /\ sp' = sp
    BY <1>4, <2>2
  <2>3. ASSUME NEW paa \in SUBSET Int, taken' \subseteq taken \cup paa, SessionBecomes(r, paa, sp[r].named, sp[r].graph)
        PROVE  TakenIsRecorded'
    <3>1. (\A s \in Creates : s # r => sp'[s] = sp[s]) /\ sp'[r].paa = paa
      BY <2>3 DEF SessionBecomes
    <3>2. ASSUME NEW p \in 0..num-1, p \in taken' PROVE \E s \in Creates : p \in sp'[s].paa
      <4>1. CASE p \in paa
        BY <3>1, <4>1
      <4>2. CASE p \notin paa
        <5>1. PICK s \in Creates : p \in sp[s].paa
          BY <1>2, <2>3, <3>2, <4>2
        <5>2. QED
          BY <2>1, <3>1, <5>1
      <4>3. QED
        BY <4>1, <4>2
    <3>3. QED
      BY <1>3, <3>2
  <2>4. \A p : alloc_address(p) => taken' = taken \cup {p}
    BY DEF alloc_address
  <2>5. UNCHANGED pool => taken' = taken
    BY DEF pool
  <2>6. QED
    BY <1>1, <1>7, <2>1, <2>2, <2>3, <2>4, <2>5, AllocateStep
<1>8. ASSUME NEW r \in Creates, CreateRun(r) PROVE TakenIsRecorded'
  <2>1. taken' = taken /\ \A s \in Creates : sp'[s].paa = sp[s].paa
    BY <1>8, RunStep DEF SessionBecomes, pool
  <2>2. QED
    BY <1>4, <2>1
<1>9. ASSUME NEW r \in Creates, CreateCheck(r) PROVE TakenIsRecorded'
  <2>1. taken' \subseteq taken /\ sp' = sp
    BY <1>1, <1>9, CheckStep DEF pool, release_paa
  <2>2. QED
    BY <1>4, <2>1
<1>10. ASSUME NEW q \in Releases, NEW k \in Keys, ReleaseRequest(q, k) PROVE TakenIsRecorded'
  <2>1. taken' = taken /\ sp' = sp
    BY <1>10 DEF ReleaseRequest, pool
  <2>2. QED
    BY <1>4, <2>1
<1>11. ASSUME NEW i \in 1..Len(n4), NEW r \in Creates, EstablishmentResponse(i, r) PROVE TakenIsRecorded'
  <2>1. taken' = taken /\ sp' = sp
    BY <1>11 DEF EstablishmentResponse, pool
  <2>2. QED
    BY <1>4, <2>1
<1>12. ASSUME NEW i \in 1..Len(n4), NEW q \in Releases, DeletionResponse(i, q) PROVE TakenIsRecorded'
  <2>1. PICK o \in Creates : o = release[q].obj
    BY <1>1, <1>12, DeletionStep
  <2>2. /\ release[q].sent /\ SessionBecomes(o, {}, FALSE, sp[o].graph)
        /\ IF release[q].named THEN release_paa(sp[o].paa) ELSE UNCHANGED pool
    BY <1>1, <1>12, <2>1, DeletionStep
  <2>3. (\A s \in Creates : s # o => sp'[s] = sp[s]) /\ (~release[q].named => sp[o].paa = {})
    BY <1>1, <2>1, <2>2 DEF SessionBecomes, Named
  <2>4. taken' \subseteq taken /\ \A p \in 0..num-1 : p \in taken' => p \notin sp[o].paa
    BY <2>2, <2>3 DEF release_paa, pool
  <2>5. QED
    BY <1>2, <1>3, <2>3, <2>4
<1>13. CASE UNCHANGED vars
  <2>1. taken' = taken /\ sp' = sp
    BY <1>13 DEF vars, pool
  <2>2. QED
    BY <1>4, <2>1
<1>14. QED
  BY <1>5, <1>6, <1>7, <1>8, <1>9, <1>10, <1>11, <1>12, <1>13 DEF Next

\* No request has an object at first, and no address is out.
LEMMA InitSerial == Init => Serial
<1> SUFFICES ASSUME Init PROVE Serial
  OBVIOUS
<1>1. \A r \in Creates : create[r].pc = "unused" /\ create[r].obj = NoObject
  BY DEF Init
<1>2. \A r \in Creates : sp[r].paa = {} /\ ~sp[r].graph
  BY DEF Init
<1>3. (\A k \in Keys : pdu_sessions[k] = NoObject) /\ (\A q \in Releases : ~release[q].sent)
  BY DEF Init
<1>4. OwnObject
  BY <1>1, <1>3, InitBase, Fields DEF OwnObject, Handled
<1>5. Named
  BY <1>1, <1>2, <1>3 DEF Named
<1>6. TakenIsRecorded
  <2>1. taken = PastEnd
    BY DEF Init
  <2>2. QED
    BY <2>1, Words DEF TakenIsRecorded
<1>7. QED
  BY <1>4, <1>5, <1>6 DEF Serial

\* Requests for a key one at a time: whatever UPFs answer, and in whatever order, every
\* address that is out of the pool is recorded by a session object.
THEOREM TakenAreRecorded ==
  ASSUME Overlap = FALSE
  PROVE  Spec => []TakenIsRecorded
<1>1. Init => TypeOK /\ Base /\ Serial
  BY InitBase, InitSerial
<1>2. TypeOK /\ Base /\ Serial /\ [Next]_vars => (TypeOK /\ Base /\ Serial)'
  <2> SUFFICES ASSUME TypeOK, Base, Serial, [Next]_vars PROVE (TypeOK /\ Base /\ Serial)'
    OBVIOUS
  <2>1. TypeOK' /\ Base'
    BY NextBase
  <2>2. OwnObject' /\ Named' /\ TakenIsRecorded'
    BY NextOwnObject, NextNamed, NextRecorded DEF Serial
  <2>3. QED
    BY <2>1, <2>2 DEF Serial
<1>3. Serial => TakenIsRecorded
  BY DEF Serial
<1>4. QED
  BY <1>1, <1>2, <1>3, PTL DEF Spec

-----------------------------------------------------------------------------
(* And no UPF rejects, or answers out of order; subscriptions share nothing. *)

\* What an allocation does when each request has an object of its own.
LEMMA AllocateOwn ==
  ASSUME TypeOK, Base, Serial, NEW r \in Creates, CreateAllocate(r)
  PROVE  /\ create[r].pc = "allocate" /\ sp[r].paa = {} /\ UNCHANGED <<release, n4, told>>
         /\ \A s \in Creates : s # r => create'[s] = create[s] /\ sp'[s] = sp[s]
         /\ create'[r].key = create[r].key /\ create'[r].accepted = create[r].accepted /\ sp'[r].graph = sp[r].graph
         /\ \/ create'[r].pc = "done" /\ sp'[r].paa = {} /\ create'[r].paa = create[r].paa /\ taken' = taken
            \/ /\ create'[r].pc = "run" /\ create'[r].paa = sp'[r].paa
               /\ \/ Static[create[r].key] # {} /\ sp'[r].paa = Static[create[r].key] /\ taken' = taken
                  \/ /\ Static[create[r].key] = {}
                     /\ \E p \in Int : /\ p \notin taken /\ taken' = taken \cup {p} /\ sp'[r].paa = {p}
                                       /\ p \in 0..num-1 \/ (p >= num /\ SomeStaticBelow)
<1>1. PoolKept /\ OwnObject /\ Named
  BY DEF Base, Serial
<1>2. create[r].pc = "allocate" /\ create[r].obj = r
  BY <1>1 DEF CreateAllocate, OwnObject
<1>3. sp[r].paa = {}
  BY <1>1, <1>2 DEF Named
<1>4. create[r].obj \in Creates
  BY <1>2
<1>5. UNCHANGED <<release, n4, told>>
  BY <1>1, <1>4, AllocateStep
<1>6. \/ /\ UNCHANGED pool /\ sp' = sp
         /\ CreateBecomes(r, "done", create[r].obj, create[r].paa, create[r].accepted)
      \/ \E paa \in SUBSET Int :
           /\ CreateBecomes(r, "run", create[r].obj, paa, create[r].accepted)
           /\ SessionBecomes(create[r].obj, paa, sp[create[r].obj].named, sp[create[r].obj].graph)
           /\ \/ paa = Static[create[r].key] /\ Static[create[r].key] # {} /\ UNCHANGED pool
              \/ /\ Static[create[r].key] = {}
                 /\ \E p \in 0..words * WordBits : paa = {p} /\ alloc_address(p)
  BY <1>1, <1>4, AllocateStep
<1>7. CASE /\ UNCHANGED pool /\ sp' = sp
           /\ CreateBecomes(r, "done", create[r].obj, create[r].paa, create[r].accepted)
  BY <1>2, <1>3, <1>5, <1>7 DEF CreateBecomes, pool
<1>8. ASSUME NEW paa \in SUBSET Int,
             CreateBecomes(r, "run", create[r].obj, paa, create[r].accepted),
             SessionBecomes(create[r].obj, paa, sp[create[r].obj].named, sp[create[r].obj].graph)
      PROVE  /\ \A s \in Creates : s # r => create'[s] = create[s] /\ sp'[s] = sp[s]
             /\ create'[r].key = create[r].key /\ create'[r].accepted = create[r].accepted
             /\ sp'[r].graph = sp[r].graph /\ create'[r].pc = "run" /\ create'[r].paa = paa /\ sp'[r].paa = paa
  BY <1>2, <1>8 DEF CreateBecomes, SessionBecomes
<1>9. ASSUME NEW p \in 0..words * WordBits, alloc_address(p)
      PROVE  /\ p \in Int /\ p \notin taken /\ taken' = taken \cup {p}
             /\ p \in 0..num-1 \/ (p >= num /\ SomeStaticBelow)
  BY <1>1, <1>9, Allocated
<1>10. UNCHANGED pool => taken' = taken
  BY DEF pool
<1>11. ASSUME NEW paa \in SUBSET Int,
              CreateBecomes(r, "run", create[r].obj, paa, create[r].accepted),
              SessionBecomes(create[r].obj, paa, sp[create[r].obj].named, sp[create[r].obj].graph),
              \/ paa = Static[create[r].key] /\ Static[create[r].key] # {} /\ UNCHANGED pool
              \/ /\ Static[create[r].key] = {}
                 /\ \E p \in 0..words * WordBits : paa = {p} /\ alloc_address(p)
       PROVE  \/ Static[create[r].key] # {} /\ sp'[r].paa = Static[create[r].key] /\ taken' = taken
              \/ /\ Static[create[r].key] = {}
                 /\ \E p \in Int : /\ p \notin taken /\ taken' = taken \cup {p} /\ sp'[r].paa = {p}
                                   /\ p \in 0..num-1 \/ (p >= num /\ SomeStaticBelow)
  <2>1. sp'[r].paa = paa
    BY <1>8, <1>11
  <2>2. QED
    BY <1>9, <1>10, <1>11, <2>1
<1>12. QED
  BY <1>2, <1>3, <1>5, <1>6, <1>7, <1>8, <1>11

\* And what sending its establishment does.
LEMMA RunOwn ==
  ASSUME TypeOK, Base, Serial, NEW r \in Creates, CreateRun(r)
  PROVE  /\ create[r].pc = "run" /\ ~sp[r].graph /\ release' = release /\ told' = told /\ taken' = taken
         /\ \A s \in Creates : s # r => create'[s] = create[s] /\ sp'[s] = sp[s]
         /\ create'[r].key = create[r].key /\ create'[r].pc = "check" /\ create'[r].paa = create[r].paa
         /\ sp'[r].paa = sp[r].paa
         /\ \/ n4' = n4 /\ ~create'[r].accepted /\ sp' = sp
            \/ n4' = Append(n4, <<"create", r>>) /\ create'[r].accepted = create[r].accepted
<1>1. OwnObject /\ Named
  BY DEF Serial
<1>2. create[r].pc = "run" /\ release' = release /\ told' = told /\ taken' = taken
  BY <1>1, RunStep DEF pool
<1>3. create[r].obj = r /\ pdu_sessions[create[r].key] = r /\ ~sp[r].graph
  BY <1>1, <1>2 DEF OwnObject, Named
<1>4. /\ \A s \in Creates : s # r => create'[s] = create[s]
      /\ create'[r].key = create[r].key /\ create'[r].pc = "check" /\ create'[r].paa = create[r].paa
      /\ \/ n4' = n4 /\ ~create'[r].accepted /\ (sp' = sp \/ create[r].obj # pdu_sessions[create[r].key])
         \/ n4' = Append(n4, <<"create", r>>) /\ create'[r].accepted = create[r].accepted
  BY RunStep DEF CreateBecomes
<1>5. sp' = sp \/ \E o \in Creates : o = pdu_sessions[create[r].key] /\ SessionBecomes(o, sp[o].paa, sp[o].named, TRUE)
  BY RunStep
<1>6. (\A s \in Creates : s # r => sp'[s] = sp[s]) /\ sp'[r].paa = sp[r].paa
  BY <1>3, <1>5 DEF SessionBecomes
<1>7. QED
  BY <1>2, <1>3, <1>4, <1>6

\* The object of a release that was sent exists and is past its establishment.
LEMMA ReleasedObject ==
  ASSUME TypeOK, Base, Serial, NEW q \in Releases, release[q].sent
  PROVE  release[q].obj \in Creates /\ create[release[q].obj].pc \in {"check", "done"}
BY DEF Base, Referred, Serial, Named

\* Every step keeps failed requests without anything to release.
LEMMA NextAccepting ==
  ASSUME Overlap = FALSE, UpfRejects = FALSE, TypeOK, Base, Serial, Accepting, [Next]_vars
  PROVE  Accepting'
<1> USE Fields
<1>1. Referred /\ PoolKept /\ OwnObject /\ Named
  BY DEF Base, Serial
<1>2. \A q \in Releases : release[q].sent =>
        /\ release[q].obj \in Creates /\ create[release[q].obj].pc \in {"check", "done"}
        /\ create[release[q].obj].accepted
  BY ReleasedObject DEF Accepting
<1>3. ASSUME NEW r \in Creates, release' = release,
             \A s \in Creates : s # r => create'[s] = create[s] /\ sp'[s] = sp[s],
             ~create'[r].accepted =>
               create'[r].pc \in {"check", "done"} /\ ~sp'[r].graph /\ sp'[r].paa = create'[r].paa,
             create'[r].pc = "run" => sp'[r].paa = create'[r].paa,
             create[r].pc \in {"check", "done"} /\ create[r].accepted => create'[r].accepted
      PROVE  Accepting'
  <2>1. \A s \in Creates : ~create'[s].accepted =>
          create'[s].pc \in {"check", "done"} /\ ~sp'[s].graph /\ sp'[s].paa = create'[s].paa
    BY <1>3 DEF Accepting
  <2>2. \A s \in Creates : create'[s].pc = "run" => sp'[s].paa = create'[s].paa
    BY <1>3 DEF Accepting
  <2>3. \A q \in Releases : release[q].sent => create'[release[q].obj].accepted
    BY <1>2, <1>3
  <2>4. QED
    BY <1>3, <2>1, <2>2, <2>3 DEF Accepting
<1>4. ASSUME NEW r \in Creates, sp' = sp, release' = release, NEW pc, NEW obj,
             CreateBecomes(r, pc, obj, create[r].paa, create[r].accepted), pc # "run",
             create[r].pc \in {"check", "done"} => pc \in {"check", "done"}
      PROVE  Accepting'
  <2>1. /\ \A s \in Creates : s # r => create'[s] = create[s]
        /\ create'[r].pc = pc /\ create'[r].paa = create[r].paa /\ create'[r].accepted = create[r].accepted
    BY <1>4 DEF CreateBecomes
  <2>2. ~create'[r].accepted => create'[r].pc \in {"check", "done"} /\ ~sp[r].graph /\ sp[r].paa = create'[r].paa
    BY <1>4, <2>1 DEF Accepting
  <2>3. QED
    BY <1>3, <1>4, <2>1, <2>2
<1>5. ASSUME NEW r \in Creates, CreateLookup(r) PROVE Accepting'
  BY <1>4, <1>5, LookupStep
<1>6. ASSUME NEW r \in Creates, CreateFind(r) PROVE Accepting'
  <2>1. PICK pc, obj : pc \in {"add", "allocate"} /\ CreateBecomes(r, pc, obj, create[r].paa, create[r].accepted)
    BY <1>6, FindStep
  <2>2. sp' = sp /\ release' = release /\ create[r].pc = "find"
    BY <1>6, FindStep
  <2>3. QED
    BY <1>4, <2>1, <2>2
<1>7. ASSUME NEW r \in Creates, CreateRefused(r) PROVE Accepting'
  BY <1>4, <1>7, RefusedStep
<1>8. ASSUME NEW r \in Creates, CreateAdd(r) PROVE Accepting'
  <2>1. /\ CreateBecomes(r, "allocate", r, create[r].paa, create[r].accepted)
        /\ SessionBecomes(r, sp[r].paa, TRUE, sp[r].graph) /\ release' = release /\ create[r].pc = "add"
    BY <1>8, AddStep
  <2>2. /\ \A s \in Creates : s # r => create'[s] = create[s] /\ sp'[s] = sp[s]
        /\ create'[r].accepted = create[r].accepted /\ create'[r].pc = "allocate"
    BY <2>1 DEF CreateBecomes, SessionBecomes
  <2>3. create[r].accepted
    BY <2>1 DEF Accepting
  <2>4. QED
    BY <1>3, <2>1, <2>2, <2>3
<1>9. ASSUME NEW r \in Creates, CreateAllocate(r) PROVE Accepting'
  <2>1. create[r].accepted
    BY <1>9 DEF CreateAllocate, Accepting
  <2>2. QED
    BY <1>3, <1>9, <2>1, AllocateOwn
<1>10. ASSUME NEW r \in Creates, CreateRun(r) PROVE Accepting'
  <2>1. create[r].accepted /\ sp[r].paa = create[r].paa
    BY <1>10 DEF CreateRun, Accepting
  <2>2. QED
    BY <1>3, <1>10, <2>1, RunOwn
<1>11. ASSUME NEW r \in Creates, CreateCheck(r) PROVE Accepting'
  BY <1>1, <1>4, <1>11, CheckStep
<1>12. ASSUME NEW q \in Releases, NEW k \in Keys, ReleaseRequest(q, k) PROVE Accepting'
  <2>1. PICK o \in Creates : o = pdu_sessions[k]
    BY <1>12, ReleaseStep
  <2>2. /\ sp[o].graph /\ sp' = sp /\ create' = create
        /\ \A x \in Releases : x # q => release'[x] = release[x]
        /\ release'[q].obj = o
    BY <1>12, <2>1, ReleaseStep
  <2>3. \A x \in Releases : release'[x].sent => create[release'[x].obj].accepted
    BY <2>2 DEF Accepting
  <2>4. QED
    BY <2>2, <2>3 DEF Accepting
<1>13. ASSUME NEW i \in 1..Len(n4), NEW r \in Creates, EstablishmentResponse(i, r) PROVE Accepting'
  <2>1. sp' = sp /\ release' = release /\ create' = create
    BY <1>13, EstablishmentStep
  <2>2. QED
    BY <2>1 DEF Accepting
<1>14. ASSUME NEW i \in 1..Len(n4), NEW q \in Releases, DeletionResponse(i, q) PROVE Accepting'
  <2>1. PICK o \in Creates : o = release[q].obj
    BY <1>1, <1>14, DeletionStep
  <2>2. /\ create' = create /\ release' = release /\ release[q].sent
        /\ SessionBecomes(o, {}, FALSE, sp[o].graph)
    BY <1>1, <1>14, <2>1, DeletionStep
  <2>3. create[o].accepted /\ create[o].pc \in {"check", "done"}
    BY <1>2, <2>1, <2>2
  <2>4. \A s \in Creates : s # o => sp'[s] = sp[s]
    BY <2>2 DEF SessionBecomes
  <2>5. QED
    BY <1>3, <2>2, <2>3, <2>4
<1>15. CASE UNCHANGED vars
  BY <1>15 DEF vars, Accepting
<1>16. QED
  BY <1>5, <1>6, <1>7, <1>8, <1>9, <1>10, <1>11, <1>12, <1>13, <1>14, <1>15 DEF Next

\* Every step keeps what was sent in the order in which it may be answered.
LEMMA NextSentInOrder ==
  ASSUME Overlap = FALSE, UpfRejects = FALSE, InOrder = TRUE, TypeOK, Base, Serial, Accepting, SentInOrder, [Next]_vars
  PROVE  SentInOrder'
<1> USE Fields
<1>1. Referred /\ PoolKept /\ OwnObject /\ Named
  BY DEF Base, Serial
<1>2. \A i \in DOMAIN n4 : n4[i][1] = "create" =>
        /\ n4[i][2] \in Creates /\ create[n4[i][2]].accepted /\ create[n4[i][2]].pc \in {"check", "done"}
        /\ sp[n4[i][2]].paa = create[n4[i][2]].paa
  BY QueueEntry DEF SentInOrder
<1>3. \A i \in DOMAIN n4 : n4[i][1] = "release" =>
        /\ n4[i][2] \in Releases /\ release[n4[i][2]].sent /\ release[n4[i][2]].obj \in Creates
        /\ create[release[n4[i][2]].obj].pc \in {"check", "done"}
  BY <1>1, QueueEntry, ReleasedObject DEF Referred
<1>4. \A i, j \in DOMAIN n4 :
        n4[i][1] = "create" /\ n4[j][1] = "release" /\ release[n4[j][2]].obj = n4[i][2] => i < j
  BY DEF SentInOrder
\* A request that is not sent, and its object, may change.
<1>5. ASSUME NEW r \in Creates, release' = release, n4' = n4,
             \A s \in Creates : s # r => create'[s] = create[s] /\ sp'[s].paa = sp[s].paa,
             \/ create[r].pc \notin {"check", "done"}
             \/ /\ create'[r].accepted = create[r].accepted /\ create'[r].pc \in {"check", "done"}
                /\ create'[r].paa = create[r].paa /\ sp'[r].paa = sp[r].paa
      PROVE  SentInOrder'
  <2>1. \A i \in DOMAIN n4 : n4[i][1] = "create" =>
          /\ create'[n4[i][2]].accepted /\ create'[n4[i][2]].pc \in {"check", "done"}
          /\ sp'[n4[i][2]].paa = create'[n4[i][2]].paa
    BY <1>2, <1>5
  <2>2. QED
    BY <1>4, <1>5, <2>1 DEF SentInOrder
<1>6. ASSUME NEW r \in Creates, NEW pc, NEW obj, NEW paa, NEW accepted,
             CreateBecomes(r, pc, obj, paa, accepted), release' = release, n4' = n4, sp' = sp,
             create[r].pc \notin {"check", "done"}
      PROVE  SentInOrder'
  BY <1>5, <1>6 DEF CreateBecomes
<1>7. ASSUME NEW r \in Creates, CreateLookup(r) PROVE SentInOrder'
  BY <1>6, <1>7, LookupStep
<1>8. ASSUME NEW r \in Creates, CreateFind(r) PROVE SentInOrder'
  BY <1>6, <1>8, FindStep
<1>9. ASSUME NEW r \in Creates, CreateRefused(r) PROVE SentInOrder'
  BY <1>6, <1>9, RefusedStep
<1>10. ASSUME NEW r \in Creates, CreateAdd(r) PROVE SentInOrder'
  <2>1. /\ release' = release /\ n4' = n4 /\ create[r].pc = "add"
        /\ \A s \in Creates : s # r => create'[s] = create[s] /\ sp'[s].paa = sp[s].paa
    <3>1. /\ release' = release /\ n4' = n4 /\ create[r].pc = "add"
          /\ CreateBecomes(r, "allocate", r, create[r].paa, create[r].accepted)
          /\ SessionBecomes(r, sp[r].paa, TRUE, sp[r].graph)
      BY <1>10, AddStep
    <3>2. QED
      BY <3>1 DEF CreateBecomes, SessionBecomes
  <2>2. QED
    BY <1>5, <2>1
<1>11. ASSUME NEW r \in Creates, CreateAllocate(r) PROVE SentInOrder'
  <2>1. /\ release' = release /\ n4' = n4 /\ create[r].pc = "allocate"
        /\ \A s \in Creates : s # r => create'[s] = create[s] /\ sp'[s] = sp[s]
    BY <1>11, AllocateOwn
  <2>2. QED
    BY <1>5, <2>1
<1>12. ASSUME NEW r \in Creates, CreateRun(r) PROVE SentInOrder'
  <2>1. /\ release' = release /\ create[r].pc = "run" /\ create[r].accepted /\ sp[r].paa = create[r].paa
        /\ \A s \in Creates : s # r => create'[s] = create[s] /\ sp'[s] = sp[s]
        /\ create'[r].pc = "check" /\ create'[r].paa = create[r].paa /\ sp'[r].paa = sp[r].paa
        /\ \/ n4' = n4
           \/ n4' = Append(n4, <<"create", r>>) /\ create'[r].accepted = create[r].accepted
    BY <1>12, RunOwn DEF Accepting
  <2>2. CASE n4' = n4
    BY <1>5, <2>1, <2>2
  <2>3. CASE n4' = Append(n4, <<"create", r>>) /\ create'[r].accepted = create[r].accepted
    <3>1. PICK e : e = <<"create", r>>
      OBVIOUS
    <3>2. e \in {"create"} \X Creates \cup {"release"} \X Releases /\ e[1] = "create" /\ e[2] = r
      BY <3>1
    <3>3. n4' = Append(n4, e)
      BY <2>3, <3>1
    <3>4. /\ n4'[Len(n4) + 1] = e
          /\ \A j \in DOMAIN n4' : j = Len(n4) + 1 \/ (j \in DOMAIN n4 /\ n4'[j] = n4[j])
      BY <3>2, <3>3, QueueAppended
    <3>5. ASSUME NEW i \in DOMAIN n4', n4'[i][1] = "create"
          PROVE  /\ create'[n4'[i][2]].accepted /\ create'[n4'[i][2]].pc \in {"check", "done"}
                 /\ sp'[n4'[i][2]].paa = create'[n4'[i][2]].paa
      <4>1. CASE n4'[i] = e
        <5>1. n4'[i][2] = r
          BY <3>2, <4>1
        <5>2. create'[r].accepted /\ create'[r].pc \in {"check", "done"} /\ sp'[r].paa = create'[r].paa
          BY <2>1, <2>3
        <5>3. QED
          BY <5>1, <5>2
      <4>2. CASE i \in DOMAIN n4 /\ n4'[i] = n4[i]
        BY <1>2, <2>1, <3>5, <4>2
      <4>3. QED
        BY <3>4, <4>1, <4>2
    <3>6. ASSUME NEW i \in DOMAIN n4', NEW j \in DOMAIN n4', n4'[i][1] = "create", n4'[j][1] = "release",
                 release[n4'[j][2]].obj = n4'[i][2]
          PROVE  i < j
      <4>1. j \in DOMAIN n4 /\ n4'[j] = n4[j]
        BY <3>2, <3>4, <3>6
      <4>2. release[n4[j][2]].obj # r
        BY <1>3, <2>1, <3>6, <4>1
      <4>3. i \in DOMAIN n4 /\ n4'[i] = n4[i]
        BY <3>2, <3>4, <3>6, <4>1, <4>2
      <4>4. QED
        BY <1>4, <3>6, <4>1, <4>3
    <3>7. QED
      BY <2>1, <3>5, <3>6 DEF SentInOrder
  <2>4. QED
    BY <2>1, <2>2, <2>3
<1>13. ASSUME NEW r \in Creates, CreateCheck(r) PROVE SentInOrder'
  <2>1. /\ release' = release /\ n4' = n4 /\ sp' = sp
        /\ CreateBecomes(r, "done", create[r].obj, create[r].paa, create[r].accepted)
    BY <1>1, <1>13, CheckStep
  <2>2. QED
    BY <1>5, <2>1 DEF CreateBecomes
<1>14. ASSUME NEW q \in Releases, NEW k \in Keys, ReleaseRequest(q, k) PROVE SentInOrder'
  <2>1. /\ sp' = sp /\ create' = create /\ n4' = Append(n4, <<"release", q>>) /\ ~release[q].sent
        /\ \A x \in Releases : x # q => release'[x] = release[x]
    BY <1>14, ReleaseStep
  <2>2. PICK e : e = <<"release", q>>
    OBVIOUS
  <2>3. e \in {"create"} \X Creates \cup {"release"} \X Releases /\ e[1] = "release" /\ e[2] = q
    BY <2>2
  <2>4. n4' = Append(n4, e)
    BY <2>1, <2>2
  <2>5. /\ n4'[Len(n4) + 1] = e
        /\ \A j \in DOMAIN n4' : j = Len(n4) + 1 \/ (j \in DOMAIN n4 /\ n4'[j] = n4[j])
        /\ \A j \in DOMAIN n4 : j \in Nat /\ j < Len(n4) + 1
    BY <2>3, <2>4, QueueAppended
  <2>6. \A i \in DOMAIN n4' : n4'[i][1] = "create" => i \in DOMAIN n4 /\ n4'[i] = n4[i]
    BY <2>3, <2>5
  <2>7. ASSUME NEW i \in DOMAIN n4', NEW j \in DOMAIN n4', n4'[i][1] = "create", n4'[j][1] = "release",
               release'[n4'[j][2]].obj = n4'[i][2]
        PROVE  i < j
    <3>1. i \in DOMAIN n4 /\ n4'[i] = n4[i]
      BY <2>6, <2>7
    <3>2. CASE j = Len(n4) + 1
      BY <2>5, <3>1, <3>2
    <3>3. CASE j \in DOMAIN n4 /\ n4'[j] = n4[j]
      <4>1. n4[j][2] \in Releases /\ n4[j][2] # q
        BY <1>3, <2>1, <2>7, <3>3
      <4>2. QED
        BY <1>4, <2>1, <2>7, <3>1, <3>3, <4>1
    <3>4. QED
      BY <2>5, <3>2, <3>3
  <2>8. QED
    BY <1>2, <2>1, <2>6, <2>7 DEF SentInOrder
\* An answer leaves the requests after its own.
<1>15. ASSUME NEW i \in 1..Len(n4), Answered(i), create' = create, release' = release,
              \A s \in Creates : sp'[s] = sp[s] \/ (n4[i][1] = "release" /\ release[n4[i][2]].obj = s)
       PROVE  SentInOrder'
  <2>1. \A j \in DOMAIN n4' : j \in Nat /\ j > 0 /\ j + i \in DOMAIN n4 /\ n4'[j] = n4[j + i]
    BY <1>15, QueueAnswered
  <2>2. i \in DOMAIN n4 /\ i \in Nat
    BY DEF TypeOK
  <2>3. ASSUME NEW j \in DOMAIN n4', n4'[j][1] = "create"
        PROVE  /\ create[n4'[j][2]].accepted /\ create[n4'[j][2]].pc \in {"check", "done"}
               /\ sp'[n4'[j][2]].paa = create[n4'[j][2]].paa
    <3>1. j \in Nat /\ j > 0 /\ j + i \in DOMAIN n4 /\ n4'[j] = n4[j + i] /\ ~(j + i < i)
      BY <2>1, <2>2
    <3>2. ~(n4[i][1] = "release" /\ release[n4[i][2]].obj = n4[j + i][2])
      BY <1>4, <2>2, <2>3, <3>1
    <3>3. PICK r : r = n4[j + i][2]
      OBVIOUS
    <3>4. /\ r \in Creates /\ create[r].accepted /\ create[r].pc \in {"check", "done"}
          /\ sp[r].paa = create[r].paa
      BY <1>2, <2>3, <3>1, <3>3
    <3>5. sp'[r] = sp[r]
      BY <1>15, <3>2, <3>3, <3>4
    <3>6. QED
      BY <3>1, <3>3, <3>4, <3>5
  <2>4. ASSUME NEW j \in DOMAIN n4', NEW k \in DOMAIN n4', n4'[j][1] = "create", n4'[k][1] = "release",
               release[n4'[k][2]].obj = n4'[j][2]
        PROVE  j < k
    <3>1. j + i < k + i
      BY <1>4, <2>1, <2>4
    <3>2. QED
      BY <2>1, <2>2, <3>1
  <2>5. QED
    BY <1>15, <2>3, <2>4 DEF SentInOrder
<1>16. ASSUME NEW i \in 1..Len(n4), NEW r \in Creates, EstablishmentResponse(i, r) PROVE SentInOrder'
  <2>1. Answered(i) /\ sp' = sp /\ release' = release /\ create' = create
    BY <1>16, EstablishmentStep
  <2>2. QED
    BY <1>15, <2>1
<1>17. ASSUME NEW i \in 1..Len(n4), NEW q \in Releases, DeletionResponse(i, q) PROVE SentInOrder'
  <2>1. PICK o \in Creates : o = release[q].obj
    BY <1>1, <1>17, DeletionStep
  <2>2. /\ create' = create /\ release' = release /\ Answered(i) /\ n4[i] = <<"release", q>>
        /\ SessionBecomes(o, {}, FALSE, sp[o].graph)
    BY <1>1, <1>17, <2>1, DeletionStep
  <2>3. n4[i][1] = "release" /\ n4[i][2] = q
    BY <2>2
  <2>4. \A s \in Creates : sp'[s] = sp[s] \/ (n4[i][1] = "release" /\ release[n4[i][2]].obj = s)
    BY <2>1, <2>2, <2>3 DEF SessionBecomes
  <2>5. QED
    BY <1>15, <2>2, <2>4
<1>18. CASE UNCHANGED vars
  BY <1>18 DEF vars, SentInOrder
<1>19. QED
  BY <1>7, <1>8, <1>9, <1>10, <1>11, <1>12, <1>13, <1>14, <1>16, <1>17, <1>18 DEF Next

\* A step that leaves what objects hold, or takes it from some that have nothing told, and
\* frees nothing another holds, keeps them apart.
LEMMA ApartKept ==
  ASSUME TypeOK, Apart,
         \A s \in Creates : create'[s].key = create[s].key /\ sp'[s].paa \subseteq sp[s].paa,
         \A s \in Creates : Held(s)' \subseteq Held(s),
         \A s \in Creates : told'[s] \subseteq Held(s)',
         \A s \in Creates : told'[s] # {} => create'[s].accepted /\ create'[s].pc \in {"check", "done"},
         \A s \in Creates : Static[create[s].key] = {} => Held(s)' \cap taken \subseteq taken'
  PROVE  Apart'
<1> USE Fields
<1>1. \A s \in Creates : Static[create'[s].key] # {} => sp'[s].paa \subseteq Static[create'[s].key]
  BY DEF Apart
<1>2. ASSUME NEW s \in Creates, Static[create'[s].key] = {}
      PROVE  /\ Held(s)' \subseteq taken'
             /\ \A k \in Keys : sp'[s].paa \cap Static[k] = {}
  <2>1. Static[create[s].key] = {} /\ Held(s) \subseteq taken
    BY <1>2 DEF Apart
  <2>2. \A k \in Keys : sp[s].paa \cap Static[k] = {}
    BY <2>1 DEF Apart
  <2>3. Held(s)' \subseteq Held(s) /\ sp'[s].paa \subseteq sp[s].paa
    OBVIOUS
  <2>4. Held(s)' \cap taken \subseteq taken'
    BY <2>1
  <2>5. QED
    BY <2>1, <2>2, <2>3, <2>4
<1>3. ASSUME NEW r \in Creates, NEW s \in Creates,
             Static[create'[r].key] = {}, Static[create'[s].key] = {}, r # s
      PROVE  Held(r)' \cap Held(s)' = {}
  <2>1. Held(r) \cap Held(s) = {}
    BY <1>3 DEF Apart
  <2>2. Held(r)' \subseteq Held(r) /\ Held(s)' \subseteq Held(s)
    OBVIOUS
  <2>3. QED
    BY <2>1, <2>2
<1>4. QED
  BY <1>1, <1>2, <1>3 DEF Apart

\* Every step keeps the addresses of the objects apart.
LEMMA NextApart ==
  ASSUME Overlap = FALSE, UpfRejects = FALSE, InOrder = TRUE, StaticsApart,
         TypeOK, Base, Serial, Accepting, SentInOrder, Apart, [Next]_vars
  PROVE  Apart'
<1> USE Fields
<1>1. Referred /\ PoolKept /\ OwnObject /\ Named
  BY DEF Base, Serial
<1>2. ASSUME taken \subseteq taken',
             \A s \in Creates : sp'[s].paa = sp[s].paa /\ create'[s].key = create[s].key,
             \A s \in Creates : ~create'[s].accepted <=> ~create[s].accepted,
             \A s \in Creates : create'[s].pc = "done" /\ ~create[s].accepted => create[s].pc = "done",
             \A s \in Creates : create[s].pc \in {"check", "done"} => create'[s].pc \in {"check", "done"},
             \A s \in Creates : create'[s].pc # create[s].pc => create[s].accepted,
             \A s \in Creates : told'[s] \subseteq told[s]
      PROVE  Apart'
  <2>1. \A s \in Creates : Held(s)' = Held(s)
    BY <1>2 DEF Held
  <2>2. \A s \in Creates : told'[s] \subseteq Held(s)
    BY <1>2 DEF Apart
  <2>3. \A s \in Creates : told'[s] # {} => create'[s].accepted /\ create'[s].pc \in {"check", "done"}
    <3>1. \A s \in Creates : told'[s] # {} => told[s] # {}
      BY <1>2
    <3>2. QED
      BY <1>2, <3>1 DEF Apart
  <2>4. QED
    BY <1>2, <2>1, <2>2, <2>3, ApartKept
<1>3. \A s \in Creates : ~create[s].accepted => create[s].pc \in {"check", "done"}
  BY DEF Accepting
<1>4. ASSUME NEW r \in Creates, NEW pc \in {"find", "add", "allocate", "done"}, NEW obj, NEW paa,
             CreateBecomes(r, pc, obj, paa, create[r].accepted),
             taken' = taken, \A s \in Creates : sp'[s].paa = sp[s].paa, \A s \in Creates : told'[s] \subseteq told[s],
             create[r].pc \notin {"check", "done"}
      PROVE  Apart'
  <2>1. /\ \A s \in Creates : s # r => create'[s] = create[s]
        /\ \A s \in Creates : create'[s].key = create[s].key
        /\ create'[r].accepted = create[r].accepted /\ create'[r].pc = pc
    BY <1>4 DEF CreateBecomes
  <2>2. QED
    BY <1>2, <1>3, <1>4, <2>1
<1>5. ASSUME NEW r \in Creates, CreateLookup(r) PROVE Apart'
  BY <1>4, <1>5, LookupStep DEF pool
<1>6. ASSUME NEW r \in Creates, CreateFind(r) PROVE Apart'
  <2>1. /\ \E pc \in {"add", "allocate"} : \E obj : CreateBecomes(r, pc, obj, create[r].paa, create[r].accepted)
        /\ taken' = taken /\ sp' = sp /\ told' = told /\ create[r].pc = "find"
    BY <1>6, FindStep DEF pool
  <2>2. QED
    BY <1>4, <2>1
<1>7. ASSUME NEW r \in Creates, CreateRefused(r) PROVE Apart'
  BY <1>4, <1>7, RefusedStep DEF pool
<1>8. ASSUME NEW r \in Creates, CreateAdd(r) PROVE Apart'
  <2>1. /\ CreateBecomes(r, "allocate", r, create[r].paa, create[r].accepted)
        /\ SessionBecomes(r, sp[r].paa, TRUE, sp[r].graph)
        /\ taken' = taken /\ told' = told /\ create[r].pc = "add"
    BY <1>8, AddStep DEF pool
  <2>2. \A s \in Creates : sp'[s].paa = sp[s].paa
    BY <2>1 DEF SessionBecomes
  <2>3. QED
    BY <1>4, <2>1, <2>2
<1>9. ASSUME NEW r \in Creates, CreateAllocate(r) PROVE Apart'
  <2>1. /\ create[r].pc = "allocate" /\ sp[r].paa = {} /\ told' = told
        /\ \A s \in Creates : s # r => create'[s] = create[s] /\ sp'[s] = sp[s]
        /\ create'[r].key = create[r].key /\ create'[r].accepted = create[r].accepted
    BY <1>9, AllocateOwn
  <2>2. create[r].accepted /\ told[r] = {} /\ Held(r) = {}
    BY <1>3, <2>1 DEF Apart, Held
  <2>3. CASE create'[r].pc = "done" /\ sp'[r].paa = {} /\ taken' = taken
    <3>1. \A s \in Creates : sp'[s].paa = sp[s].paa /\ create'[s].key = create[s].key
      BY <2>1, <2>3
    <3>2. QED
      BY <1>2, <2>1, <2>2, <2>3, <3>1
  <2>4. ASSUME create'[r].pc = "run", taken \subseteq taken', sp'[r].paa \subseteq Int,
               Static[create[r].key] # {} => sp'[r].paa \subseteq Static[create[r].key],
               Static[create[r].key] = {} =>
                 /\ sp'[r].paa \subseteq taken' /\ sp'[r].paa \cap taken = {}
                 /\ \A k \in Keys : sp'[r].paa \cap Static[k] = {}
        PROVE  Apart'
    <3>1. \A s \in Creates : s # r => Held(s)' = Held(s)
      BY <2>1 DEF Held
    <3>2. Held(r)' = sp'[r].paa
      BY <2>4 DEF Held
    <3>3. \A s \in Creates : told'[s] \subseteq Held(s)'
      <4>1. \A s \in Creates : told[s] \subseteq Held(s)
        BY DEF Apart
      <4>2. told'[r] = {} /\ \A s \in Creates : told'[s] = told[s]
        BY <2>1, <2>2
      <4>3. QED
        BY <3>1, <4>1, <4>2
    <3>4. \A s \in Creates : told'[s] # {} => create'[s].accepted /\ create'[s].pc \in {"check", "done"}
      <4>1. \A s \in Creates : told'[s] # {} => s # r /\ told[s] # {}
        BY <2>1, <2>2
      <4>2. QED
        BY <2>1, <4>1 DEF Apart
    <3>5. \A s \in Creates : create'[s].key = create[s].key
      BY <2>1
    <3>6. \A s \in Creates : Static[create'[s].key] # {} => sp'[s].paa \subseteq Static[create'[s].key]
      BY <2>1, <2>4, <3>5 DEF Apart
    <3>7. ASSUME NEW s \in Creates, Static[create'[s].key] = {}
          PROVE  Held(s)' \subseteq taken' /\ \A k \in Keys : sp'[s].paa \cap Static[k] = {}
      <4>1. CASE s = r
        BY <2>4, <3>2, <3>5, <3>7, <4>1
      <4>2. CASE s # r
        <5>1. Held(s) \subseteq taken /\ \A k \in Keys : sp[s].paa \cap Static[k] = {}
          BY <3>5, <3>7 DEF Apart
        <5>2. QED
          BY <2>1, <2>4, <3>1, <4>2, <5>1
      <4>3. QED
        BY <4>1, <4>2
    <3>8. ASSUME NEW s \in Creates, s # r, Static[create[s].key] = {}, Static[create[r].key] = {}
          PROVE  Held(s)' \cap Held(r)' = {}
      <4>1. Held(s) \subseteq taken
        BY <3>8 DEF Apart
      <4>2. QED
        BY <2>4, <3>1, <3>2, <3>8, <4>1
    <3>9. ASSUME NEW s \in Creates, NEW t \in Creates, s # t, s # r, t # r,
                 Static[create[s].key] = {}, Static[create[t].key] = {}
          PROVE  Held(s)' \cap Held(t)' = {}
      <4>1. Held(s) \cap Held(t) = {}
        BY <3>9 DEF Apart
      <4>2. QED
        BY <3>1, <3>9, <4>1
    <3>10. ASSUME NEW s \in Creates, NEW t \in Creates,
                  Static[create'[s].key] = {}, Static[create'[t].key] = {}, s # t
           PROVE  Held(s)' \cap Held(t)' = {}
      <4>1. Static[create[s].key] = {} /\ Static[create[t].key] = {}
        BY <3>5, <3>10
      <4>2. CASE s = r
        <5>1. Held(t)' \cap Held(r)' = {}
          BY <3>8, <3>10, <4>1, <4>2
        <5>2. Held(s)' = Held(r)'
          BY <4>2 DEF Held
        <5>3. QED
          BY <5>1, <5>2
      <4>3. CASE t = r
        <5>1. Held(s)' \cap Held(r)' = {}
          BY <3>8, <3>10, <4>1, <4>3
        <5>2. Held(t)' = Held(r)'
          BY <4>3 DEF Held
        <5>3. QED
          BY <5>1, <5>2
      <4>4. CASE s # r /\ t # r
        BY <3>9, <3>10, <4>1, <4>4
      <4>5. QED
        BY <4>2, <4>3, <4>4
    <3>11. QED
      BY <3>3, <3>4, <3>6, <3>7, <3>10 DEF Apart
  <2>5. CASE create'[r].pc = "run" /\ Static[create[r].key] # {} /\ sp'[r].paa = Static[create[r].key] /\ taken' = taken
    BY <2>4, <2>5
  <2>6. ASSUME create'[r].pc = "run", Static[create[r].key] = {}, NEW p \in Int,
               p \notin taken, taken' = taken \cup {p}, sp'[r].paa = {p},
               p \in 0..num-1 \/ (p >= num /\ SomeStaticBelow)
        PROVE  Apart'
    <3>1. ASSUME NEW k \in Keys, p \in Static[k] PROVE FALSE
      <4>1. ~(p \in 0..num-1)
        BY <3>1 DEF StaticsApart
      <4>2. p >= num /\ p < 0
        BY <2>6, <3>1, <4>1 DEF StaticsApart
      <4>3. QED
        BY <4>2
    <3>2. QED
      BY <2>4, <2>6, <3>1
  <2>7. \/ create'[r].pc = "done" /\ sp'[r].paa = {} /\ taken' = taken
        \/ /\ create'[r].pc = "run" /\ Static[create[r].key] # {}
           /\ sp'[r].paa = Static[create[r].key] /\ taken' = taken
        \/ /\ create'[r].pc = "run" /\ Static[create[r].key] = {}
           /\ \E p \in Int : /\ p \notin taken /\ taken' = taken \cup {p} /\ sp'[r].paa = {p}
                             /\ p \in 0..num-1 \/ (p >= num /\ SomeStaticBelow)
    BY <1>9, AllocateOwn
  <2>8. QED
    BY <2>3, <2>5, <2>6, <2>7
<1>10. ASSUME NEW r \in Creates, CreateRun(r) PROVE Apart'
  <2>1. /\ create[r].pc = "run" /\ taken' = taken /\ told' = told
        /\ \A s \in Creates : s # r => create'[s] = create[s] /\ sp'[s] = sp[s]
        /\ create'[r].key = create[r].key /\ create'[r].pc = "check" /\ sp'[r].paa = sp[r].paa
    BY <1>10, RunOwn
  <2>2. \A s \in Creates : Held(s)' = Held(s)
    BY <1>3, <2>1 DEF Held
  <2>3. told[r] = {}
    BY <2>1 DEF Apart
  <2>4. \A s \in Creates : told'[s] \subseteq Held(s)
    BY <2>1 DEF Apart
  <2>5. \A s \in Creates : told'[s] # {} => create'[s].accepted /\ create'[s].pc \in {"check", "done"}
    <3>1. \A s \in Creates : told'[s] # {} => s # r /\ told[s] # {}
      BY <2>1, <2>3
    <3>2. QED
      BY <2>1, <3>1 DEF Apart
  <2>6. \A s \in Creates : create'[s].key = create[s].key /\ sp'[s].paa = sp[s].paa
    BY <2>1
  <2>7. QED
    BY <2>1, <2>2, <2>4, <2>5, <2>6, ApartKept
<1>11. ASSUME NEW r \in Creates, CreateCheck(r) PROVE Apart'
  <2>1. /\ create[r].pc = "check" /\ sp' = sp /\ told' = told
        /\ CreateBecomes(r, "done", create[r].obj, create[r].paa, create[r].accepted)
        /\ IF create[r].accepted THEN taken' = taken ELSE release_paa(create[r].paa)
    BY <1>1, <1>11, CheckStep DEF pool
  <2>2. /\ \A s \in Creates : s # r => create'[s] = create[s]
        /\ create'[r].key = create[r].key /\ create'[r].pc = "done" /\ create'[r].accepted = create[r].accepted
    BY <2>1 DEF CreateBecomes
  <2>3. CASE create[r].accepted
    <3>1. taken' = taken
      BY <2>1, <2>3
    <3>2. \A s \in Creates : create'[s].key = create[s].key /\ create'[s].accepted = create[s].accepted
      BY <2>2
    <3>3. \A s \in Creates : create'[s].pc = create[s].pc \/ (s = r /\ create'[s].pc = "done")
      BY <2>2
    <3>4. QED
      BY <1>2, <2>1, <2>3, <3>1, <3>2, <3>3
  <2>4. CASE ~create[r].accepted
    <3>1. taken' = taken \ {p \in create[r].paa : p < num} /\ create[r].paa = sp[r].paa
      BY <2>1, <2>4 DEF release_paa, Accepting
    <3>2. told[r] = {} /\ Held(r)' = {} /\ Held(r) = sp[r].paa
      BY <2>1, <2>2, <2>4 DEF Held, Apart
    <3>3. \A s \in Creates : s # r => Held(s)' = Held(s)
      BY <2>1, <2>2 DEF Held
    <3>4. \A s \in Creates : told'[s] \subseteq Held(s)'
      <4>1. \A s \in Creates : told[s] \subseteq Held(s)
        BY DEF Apart
      <4>2. told'[r] = {} /\ told' = told
        BY <2>1, <3>2
      <4>3. QED
        BY <3>3, <4>1, <4>2
    <3>5. \A s \in Creates : told'[s] # {} => create'[s].accepted /\ create'[s].pc \in {"check", "done"}
      BY <2>1, <2>2, <3>2 DEF Apart
    <3>6. ASSUME NEW s \in Creates, Static[create[s].key] = {} PROVE Held(s)' \cap taken \subseteq taken'
      <4>1. CASE s = r
        <5>1. Held(s)' = {}
          BY <3>2, <4>1 DEF Held
        <5>2. QED
          BY <5>1
      <4>2. CASE s # r
        <5>1. Held(s) \cap sp[r].paa = {}
          <6>1. CASE Static[create[r].key] = {}
            BY <3>2, <3>6, <4>2, <6>1 DEF Apart
          <6>2. CASE Static[create[r].key] # {}
            <7>1. sp[r].paa \subseteq Static[create[r].key] /\ create[r].key \in Keys
              BY <6>2 DEF Apart
            <7>2. \A k \in Keys : sp[s].paa \cap Static[k] = {}
              BY <3>6 DEF Apart
            <7>3. Held(s) \subseteq sp[s].paa
              BY DEF Held
            <7>4. QED
              BY <7>1, <7>2, <7>3
          <6>3. QED
            BY <6>1, <6>2
        <5>2. Held(s)' = Held(s)
          BY <3>3, <4>2
        <5>3. QED
          BY <3>1, <5>1, <5>2
      <4>3. QED
        BY <4>1, <4>2
    <3>7. \A s \in Creates : Held(s)' \subseteq Held(s)
      <4>1. ASSUME NEW s \in Creates, s = r PROVE Held(s)' = {}
        BY <3>2, <4>1 DEF Held
      <4>2. QED
        BY <3>3, <4>1
    <3>8. \A s \in Creates : create'[s].key = create[s].key
      BY <2>2
    <3>9. QED
      BY <2>1, <3>4, <3>5, <3>6, <3>7, <3>8, ApartKept
  <2>5. QED
    BY <2>3, <2>4
<1>12. ASSUME NEW q \in Releases, NEW k \in Keys, ReleaseRequest(q, k) PROVE Apart'
  <2>1. taken' = taken /\ sp' = sp /\ create' = create /\ told' = told
    BY <1>12 DEF ReleaseRequest, pool
  <2>2. QED
    BY <1>2, <2>1
<1>13. ASSUME NEW i \in 1..Len(n4), NEW r \in Creates, EstablishmentResponse(i, r) PROVE Apart'
  <2>1. /\ n4[i] = <<"create", r>> /\ i \in DOMAIN n4 /\ taken' = taken /\ sp' = sp /\ create' = create
        /\ \A o \in Creates : told'[o] = IF o = create[r].obj THEN told[o] \cup create[r].paa ELSE told[o]
    <3>1. n4[i] = <<"create", r>> /\ i \in DOMAIN n4 /\ UNCHANGED <<pool, sp>>
      BY <1>13, EstablishmentStep
    <3>2. /\ create' = create
          /\ \A o \in Creates : told'[o] = IF o = create[r].obj THEN told[o] \cup create[r].paa ELSE told[o]
      <4>1. create' = create /\ told' = [told EXCEPT ![create[r].obj] = @ \cup create[r].paa]
        BY <1>13 DEF EstablishmentResponse
      <4>2. PICK x, a : x = create[r].obj /\ a = create[r].paa
        OBVIOUS
      <4>3. told' = [told EXCEPT ![x] = @ \cup a] /\ told \in [Creates -> SUBSET Int]
        BY <4>1, <4>2 DEF TypeOK
      <4>4. \A o \in Creates : told'[o] = IF o = x THEN told[o] \cup a ELSE told[o]
        BY <4>3
      <4>5. QED
        BY <4>1, <4>2, <4>4
    <3>3. QED
      BY <3>1, <3>2 DEF pool
  <2>2. n4[i][1] = "create" /\ n4[i][2] = r
    BY <2>1
  <2>3. create[r].accepted /\ create[r].pc \in {"check", "done"} /\ sp[r].paa = create[r].paa
    BY <2>1, <2>2 DEF SentInOrder
  <2>4. create[r].obj \in {r, NoObject}
    BY <1>1 DEF OwnObject
  <2>5. Held(r) = sp[r].paa /\ \A s \in Creates : Held(s)' = Held(s)
    BY <2>1, <2>3 DEF Held
  <2>6. \A s \in Creates : told'[s] = told[s] \/ (s = r /\ told'[s] = told[s] \cup sp[r].paa)
    BY <2>1, <2>3, <2>4
  <2>7. \A s \in Creates : told'[s] \subseteq Held(s)
    BY <2>5, <2>6 DEF Apart
  <2>8. \A s \in Creates : told'[s] # {} => create[s].accepted /\ create[s].pc \in {"check", "done"}
    BY <2>3, <2>6 DEF Apart
  <2>9. QED
    BY <2>1, <2>5, <2>7, <2>8, ApartKept
<1>14. ASSUME NEW i \in 1..Len(n4), NEW q \in Releases, DeletionResponse(i, q) PROVE Apart'
  <2>1. PICK o \in Creates : o = release[q].obj
    BY <1>1, <1>14, DeletionStep
  <2>2. /\ create' = create /\ release[q].sent /\ SessionBecomes(o, {}, FALSE, sp[o].graph)
        /\ \A s \in Creates : told'[s] = IF s = o THEN {} ELSE told[s]
        /\ taken' = taken \/ release_paa(sp[o].paa)
    <3>1. /\ create' = create /\ release[q].sent /\ SessionBecomes(o, {}, FALSE, sp[o].graph)
          /\ release_paa(sp[o].paa) \/ UNCHANGED pool
      BY <1>1, <1>14, <2>1, DeletionStep
    <3>2. \A s \in Creates : told'[s] = IF s = release[q].obj THEN {} ELSE told[s]
      <4>1. told' = [told EXCEPT ![o] = {}] /\ told \in [Creates -> SUBSET Int]
        BY <1>14, <2>1 DEF DeletionResponse, TypeOK
      <4>2. QED
        BY <2>1, <4>1
    <3>3. QED
      BY <2>1, <3>1, <3>2 DEF pool
  <2>3. (\A s \in Creates : s # o => sp'[s] = sp[s]) /\ sp'[o].paa = {} /\ create[o].accepted
    BY <2>1, <2>2 DEF SessionBecomes, Accepting
  <2>4. \A p \in taken : p \notin sp[o].paa => p \in taken'
    BY <2>2 DEF release_paa
  <2>5. Held(o) = sp[o].paa /\ \A s \in Creates : Held(s)' = IF s = o THEN {} ELSE Held(s)
    BY <2>2, <2>3 DEF Held
  <2>6. \A s \in Creates : told'[s] \subseteq Held(s)'
    BY <2>2, <2>5 DEF Apart
  <2>7. \A s \in Creates : told'[s] # {} => create[s].accepted /\ create[s].pc \in {"check", "done"}
    BY <2>2 DEF Apart
  <2>8. ASSUME NEW s \in Creates, Static[create[s].key] = {} PROVE Held(s)' \cap taken \subseteq taken'
    <3>1. CASE s = o
      BY <2>5, <3>1
    <3>2. CASE s # o
      <4>1. Held(s) \cap sp[o].paa = {}
        <5>1. CASE Static[create[o].key] = {}
          BY <2>5, <2>8, <3>2, <5>1 DEF Apart
        <5>2. CASE Static[create[o].key] # {}
          <6>1. sp[o].paa \subseteq Static[create[o].key] /\ create[o].key \in Keys
            BY <5>2 DEF Apart
          <6>2. \A k \in Keys : sp[s].paa \cap Static[k] = {}
            BY <2>8 DEF Apart
          <6>3. Held(s) \subseteq sp[s].paa
            BY DEF Held
          <6>4. QED
            BY <6>1, <6>2, <6>3
        <5>3. QED
          BY <5>1, <5>2
      <4>2. QED
        BY <2>4, <2>5, <3>2, <4>1
    <3>3. QED
      BY <3>1, <3>2
  <2>9. \A s \in Creates : sp'[s].paa \subseteq sp[s].paa
    BY <2>3
  <2>10. QED
    BY <2>2, <2>5, <2>6, <2>7, <2>8, <2>9, ApartKept
<1>15. CASE UNCHANGED vars
  <2>1. taken' = taken /\ sp' = sp /\ create' = create /\ told' = told
    BY <1>15 DEF vars, pool
  <2>2. QED
    BY <1>2, <2>1
<1>16. QED
  BY <1>5, <1>6, <1>7, <1>8, <1>9, <1>10, <1>11, <1>12, <1>13, <1>14, <1>15 DEF Next

\* Requests that are all unused hold nothing and have nothing on the way.
LEMMA InitApart == Init => Accepting /\ SentInOrder /\ Apart
<1> SUFFICES ASSUME Init PROVE Accepting /\ SentInOrder /\ Apart
  OBVIOUS
<1>1. \A r \in Creates : create[r].pc = "unused" /\ create[r].accepted
  BY DEF Init
<1>2. \A r \in Creates : sp[r].paa = {} /\ told[r] = {}
  BY DEF Init
<1>3. (\A q \in Releases : ~release[q].sent) /\ DOMAIN n4 = {}
  BY DEF Init
<1>4. \A r \in Creates : Held(r) = {}
  BY <1>2 DEF Held
<1>5. Accepting
  BY <1>1, <1>3 DEF Accepting
<1>6. SentInOrder
  BY <1>3 DEF SentInOrder
<1>7. Apart
  BY <1>2, <1>4 DEF Apart
<1>8. QED
  BY <1>5, <1>6, <1>7

\* What UEs were told is what their objects hold, and those hold different addresses.
LEMMA ApartSuffices ==
  ASSUME StaticsApart, TypeOK, Apart
  PROVE  NoSharedAddress
<1> USE Fields
<1>1. ASSUME NEW o \in Creates, NEW p \in Creates, create[o].key # create[p].key
      PROVE  told[o] \cap told[p] = {}
  <2>1. /\ told[o] \subseteq Held(o) /\ Held(o) \subseteq sp[o].paa
        /\ told[p] \subseteq Held(p) /\ Held(p) \subseteq sp[p].paa
    BY DEF Apart, Held
  <2>2. CASE Static[create[o].key] = {} /\ Static[create[p].key] = {}
    <3>1. Held(o) \cap Held(p) = {}
      BY <1>1, <2>2 DEF Apart
    <3>2. QED
      BY <2>1, <3>1
  <2>3. CASE Static[create[o].key] # {} /\ Static[create[p].key] = {}
    <3>1. sp[o].paa \subseteq Static[create[o].key] /\ create[o].key \in Keys
      BY <2>3 DEF Apart
    <3>2. \A k \in Keys : sp[p].paa \cap Static[k] = {}
      BY <2>3 DEF Apart
    <3>3. QED
      BY <2>1, <3>1, <3>2
  <2>4. CASE Static[create[o].key] = {} /\ Static[create[p].key] # {}
    <3>1. sp[p].paa \subseteq Static[create[p].key] /\ create[p].key \in Keys
      BY <2>4 DEF Apart
    <3>2. \A k \in Keys : sp[o].paa \cap Static[k] = {}
      BY <2>4 DEF Apart
    <3>3. QED
      BY <2>1, <3>1, <3>2
  <2>5. CASE Static[create[o].key] # {} /\ Static[create[p].key] # {}
    <3>1. sp[o].paa \subseteq Static[create[o].key] /\ sp[p].paa \subseteq Static[create[p].key]
      BY <2>5 DEF Apart
    <3>2. Static[create[o].key] \cap Static[create[p].key] = {}
      BY <1>1 DEF StaticsApart
    <3>3. QED
      BY <2>1, <3>1, <3>2
  <2>6. QED
    BY <2>2, <2>3, <2>4, <2>5
<1>2. QED
  BY <1>1 DEF NoSharedAddress

\* Requests for a key one at a time, no rejection, answers in order, and subscriptions whose
\* static addresses are their own: no two UEs use the same address, whatever UPF is absent
\* and however often the same session is released.
THEOREM AddressesAreNotShared ==
  ASSUME Overlap = FALSE, UpfRejects = FALSE, InOrder = TRUE, StaticsApart
  PROVE  Spec => []NoSharedAddress
<1> DEFINE Inv == TypeOK /\ Base /\ Serial /\ Accepting /\ SentInOrder /\ Apart
<1>1. Init => Inv
  BY InitBase, InitSerial, InitApart
<1>2. Inv /\ [Next]_vars => Inv'
  <2> SUFFICES ASSUME Inv, [Next]_vars PROVE Inv'
    OBVIOUS
  <2>1. TypeOK' /\ Base'
    BY NextBase
  <2>2. OwnObject' /\ Named' /\ TakenIsRecorded'
    BY NextOwnObject, NextNamed, NextRecorded DEF Serial
  <2>3. Accepting' /\ SentInOrder' /\ Apart'
    BY NextAccepting, NextSentInOrder, NextApart
  <2>4. QED
    BY <2>1, <2>2, <2>3 DEF Serial
<1>3. Inv => NoSharedAddress
  BY ApartSuffices
<1> HIDE DEF Inv
<1>4. QED
  BY <1>1, <1>2, <1>3, PTL DEF Spec
=============================================================================
