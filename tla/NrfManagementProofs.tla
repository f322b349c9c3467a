------------------------ MODULE NrfManagementProofs ------------------------
(***************************************************************************)
(* Proofs about NrfManagement, for any NFs, subscriptions, threads and      *)
(* times: subscribers miss no registration, an NF that keeps its schedule   *)
(* stays discoverable, and one that stops is suspended and removed in time. *)
(***************************************************************************)
EXTENDS NrfManagement, TLAPS

-----------------------------------------------------------------------------
(* Objects.                                                                 *)

Updating == {"put_back", "unsubscribe", "subscribe", "flag"}

\* What refers to an object agrees on whose it is, and the others are blank.
Owned ==
    /\ \A nf \in Nfs : instance_id2nrf_profile[nf] \in Profiles =>
         profile[instance_id2nrf_profile[nf]].nf = nf
    /\ \A h \in Threads : http[h].p \in Profiles => profile[http[h].p].nf = http[h].nf
    /\ tick.p \in Profiles => Referenced(tick.p) /\ profile[tick.p].nf = tick.nf
    /\ \A p \in Profiles : ~Referenced(p) => profile[p] = Blank /\ p \notin disturbed

\* The map has an object of nf that no suspension met while nf was heard of.
Steady(nf) ==
    /\ instance_id2nrf_profile[nf] \in Profiles
    /\ instance_id2nrf_profile[nf] \notin disturbed

\* A suspension that meets an update disturbs the object of the update.
UpdatesDisturbed ==
    \A h \in Threads : http[h].pc \in Updating =>
      profile[http[h].p].nf_status = "REGISTERED" \/ http[h].p \in disturbed

-----------------------------------------------------------------------------
(* Subscribers.                                                             *)

\* Who was not told yet will be, by the creation of the subscription or by the
\* registration, unless the NF is about to go.
Awaited(s, nf) ==
    \/ nf \in told[s]
    \/ \E h \in Threads : http[h].sub = s
    \/ \E h \in Threads : http[h].nf = nf /\ http[h].pc \in {"arm", "notify", "erase"}

Reported ==
    \A s \in subscriptions, nf \in Nfs : Steady(nf) /\ Active(nf) => Awaited(s, nf)

-----------------------------------------------------------------------------
(* NFs that keep their schedule.                                            *)

\* Before the first heartbeat the first time-out comes after the deadline.
BeforeUpdates(o, d) ==
    /\ o.first_update /\ o.hb_update = Off
    /\ o.first_hb = d + HeartBeat - Slack + 1

\* The time-out after an update comes at most Slack after the deadline, or after the
\* one before: a heartbeat was taken since.
AfterDeadline(o, d) == o.hb_update - d \in 1..Slack
AfterLastDeadline(o, d) == o.hb_update - d + HeartBeat \in 1..Slack

Supervised(o, d) ==
    /\ o.first_hb = Off /\ ~o.first_update /\ o.hb_update # Off
    /\ AfterDeadline(o, d) \/ AfterLastDeadline(o, d)

Settled(o, d) ==
    \/ BeforeUpdates(o, d)
    \/ Supervised(o, d) /\ (AfterDeadline(o, d) \/ o.is_updated)

\* The object o while the only thread that works on it is at pc.
Stage(pc, o, d) ==
    \/ /\ pc = "arm" /\ d = HeartBeat + Slack - 1
       /\ o.first_hb = Off /\ o.hb_update = Off /\ o.first_update
    \/ /\ pc \in {"put_back", "unsubscribe"} /\ d >= HeartBeat
       /\ \/ o.first_hb > 0 /\ o.hb_update = Off /\ o.first_update
          \/ Supervised(o, d)
    \/ /\ pc = "subscribe" /\ d >= HeartBeat
       /\ o.first_hb = Off /\ o.hb_update = Off /\ o.first_update
    \/ pc = "flag" /\ d >= HeartBeat /\ Supervised(o, d)
    \/ pc \in {"notify", "replace"} /\ Settled(o, d)

\* While nf keeps its schedule nothing else works on its object, and no slot but one
\* that sees an update.
Kept(nf) ==
    LET p == instance_id2nrf_profile[nf]
        d == deadline[nf] IN
    d # Late =>
      /\ p \in Profiles /\ profile[p].nf_status = "REGISTERED" /\ ~Listed(nf)
      /\ \A h \in Threads : http[h].nf = nf => http[h].p = p /\ Stage(http[h].pc, profile[p], d)
      /\ \A g, h \in Threads : http[g].nf = nf /\ http[h].nf = nf => g = h
      /\ ~Busy(nf) => Settled(profile[p], d)
      /\ tick.nf = nf =>
           /\ tick.p = p /\ tick.pc = "reset"
           /\ profile[p].hb_update = HeartBeat /\ AfterDeadline(profile[p], d)
           /\ \A h \in Threads : http[h].nf = nf => http[h].pc \notin Updating

PromptKept == \A nf \in Nfs : Kept(nf)

-----------------------------------------------------------------------------
(* NFs that stop.                                                           *)

\* Time passes only between requests.
HeardNow == \A h \in Threads : http[h].pc \in Updating \cup {"arm"} => silence[http[h].nf] = 0

\* The time-out after an update is armed once, at the latest when it is flagged.
ArmedOnce ==
    /\ \A p \in Profiles : profile[p].hb_update # Off => ~profile[p].first_update
    /\ \A h \in Threads : http[h].pc = "flag" => ~profile[http[h].p].first_update

\* A registered object has a time-out that comes in time, is being suspended, or is
\* about to get one.
InTime(nf) ==
    LET p == instance_id2nrf_profile[nf]
        o == profile[p]
        z == silence[nf] IN
    \/ tick.p = p /\ tick.pc \in {"suspend", "first_suspend"} /\ z <= LongestSilence
    \/ /\ o.hb_update # Off /\ z + o.hb_update <= LongestSilence
       /\ o.is_updated => tick.p = p \/ z + o.hb_update <= FirstUpdateTimeout
    \/ /\ o.hb_update = Off /\ o.first_update /\ ~o.is_updated
       /\ o.first_hb # Off /\ z + o.first_hb <= FirstTimeout
    \/ /\ o.hb_update = Off /\ o.first_update /\ ~o.is_updated /\ z = 0
       /\ \E h \in Threads : http[h].p = p /\ http[h].pc \in {"arm", "subscribe"}

Watched(nf) ==
    Steady(nf) /\ Active(nf) =>
      /\ InTime(nf)
      /\ tick.p = instance_id2nrf_profile[nf] =>
           /\ tick.pc \notin {"first_list", "list"}
           /\ tick.pc = "first_reset" => profile[tick.p].hb_update # Off

\* The part of the suspended set that is removed next, and the time until a part is.
NextPart == IF clock + cleanup \in Interval..2 * Interval - 1 THEN 0 ELSE 1
Left(i) == IF i = NextPart THEN cleanup ELSE cleanup + Interval

\* A suspended object is about to be listed, or is removed in time.
Removed(nf) ==
    \/ /\ tick.p = instance_id2nrf_profile[nf] /\ tick.pc \in {"first_list", "list"}
       /\ silence[nf] <= LongestSilence
    \/ \E i \in 0..1 :
         /\ nf \in suspended_nf[i] /\ (tick.pc = "clear" => i # NextPart)
         /\ silence[nf] + Left(i) <= Forgotten

\* No update is under way then, that would take nf out of the suspended set.
Leaving(nf) ==
    Steady(nf) /\ ~Active(nf) =>
      /\ Removed(nf)
      /\ \A h \in Threads : http[h].nf = nf => http[h].pc \notin Updating

ClearTime == tick.pc = "clear" => cleanup = 0

SilentGo ==
    /\ UpdatesDisturbed /\ HeardNow /\ ArmedOnce /\ ClearTime
    /\ \A nf \in Nfs : Watched(nf) /\ Leaving(nf)

-----------------------------------------------------------------------------
(* Types.                                                                   *)

Objects == [nf : Nfs \cup {NoNf}, nf_status : {"REGISTERED", "SUSPENDED"},
            is_updated : BOOLEAN, first_update : BOOLEAN,
            first_hb : Off..FirstTimeout, hb_update : Off..FirstUpdateTimeout]

Works == [pc : {"arm", "notify", "erase", "replace", "put_back", "unsubscribe", "subscribe", "flag"},
          nf : Nfs, p : Profiles, sub : {NoNf}]
Finds == [pc : {"find"}, nf : {NoNf}, p : {NoProfile}, sub : Subs]

Slots == [pc : {"first_suspend", "first_list", "first_reset", "suspend", "list", "reset"},
          nf : Nfs, p : Profiles \cup {NoProfile}]
Clears == [pc : {"clear"}, nf : {NoNf}, p : {NoProfile}]

\* The type, in parts.
MapTypes ==
    /\ instance_id2nrf_profile \in [Nfs -> Profiles \cup {NoProfile}]
    /\ suspended_nf \in [0..1 -> SUBSET Nfs]
    /\ subscriptions \subseteq Subs
ObjectTypes == profile \in [Profiles -> Objects] /\ disturbed \subseteq Profiles
ThreadTypes ==
    /\ http \in [Threads -> {Idle} \cup Works \cup Finds]
    /\ tick \in {Resting} \cup Clears \cup Slots
TimeTypes ==
    /\ clock \in 0..2 * Interval - 1 /\ cleanup \in 0..Interval
    /\ silence \in [Nfs -> 0..Forgotten + 1]
    /\ deadline \in [Nfs -> Late..HeartBeat + Slack - 1]
ToldTypes == told \in [Subs -> SUBSET Nfs]

\* The parts are the type.
LEMMA TypeParts == TypeOK <=> MapTypes /\ ObjectTypes /\ ThreadTypes /\ TimeTypes /\ ToldTypes
BY DEF TypeOK, MapTypes, ObjectTypes, ThreadTypes, TimeTypes, ToldTypes, Objects, Works, Finds, Slots, Clears

\* The same after a step.
LEMMA TypePartsNext == MapTypes' /\ ObjectTypes' /\ ThreadTypes' /\ TimeTypes' /\ ToldTypes' => TypeOK'
BY DEF TypeOK, MapTypes, ObjectTypes, ThreadTypes, TimeTypes, ToldTypes, Objects, Works, Finds, Slots, Clears

\* The times are numbers.
LEMMA Times ==
  /\ HeartBeat \in Nat \ {0} /\ Slack \in Nat \ {0} /\ 2 * Slack <= HeartBeat /\ Interval \in Nat \ {0}
  /\ FirstTimeout = 2 * HeartBeat /\ FirstTimeout \in Nat \ {0}
  /\ FirstUpdateTimeout = HeartBeat + Slack /\ FirstUpdateTimeout \in Nat \ {0}
  /\ LongestSilence = 2 * HeartBeat + Slack /\ LongestSilence \in Nat
  /\ Forgotten = LongestSilence + 2 * Interval - 1 /\ Forgotten \in Nat
  /\ Off = -1 /\ Late = -1
BY TimesAssumption DEF FirstTimeout, FirstUpdateTimeout, LongestSilence, Forgotten, Off, Late

\* A new object.
LEMMA BlankObject ==
  /\ Blank \in Objects /\ Blank.nf = NoNf /\ Blank.nf_status = "REGISTERED"
  /\ Blank.first_update = TRUE /\ Blank.is_updated = FALSE
  /\ Blank.first_hb = Off /\ Blank.hb_update = Off
<1>1. Off \in Off..FirstTimeout /\ Off \in Off..FirstUpdateTimeout
  BY Times
<1>2. QED
  BY <1>1 DEF Blank, Objects

\* The fields of an object.
LEMMA ObjectFields ==
  ASSUME NEW o \in Objects
  PROVE  /\ o.nf \in Nfs \cup {NoNf} /\ o.nf_status \in {"REGISTERED", "SUSPENDED"}
         /\ o.is_updated \in BOOLEAN /\ o.first_update \in BOOLEAN
         /\ o.first_hb \in Off..FirstTimeout /\ o.hb_update \in Off..FirstUpdateTimeout
BY DEF Objects

\* What a thread does with an object, and what it does without one.
LEMMA Fields ==
  ASSUME ThreadTypes
  PROVE  /\ \A h \in Threads :
              \/ http[h] = Idle
              \/ http[h] \in Works
              \/ http[h] \in Finds
         /\ \A h \in Threads : http[h].p \in Profiles \cup {NoProfile} /\ http[h].nf \in Nfs \cup {NoNf}
         /\ \A h \in Threads : http[h].pc \notin {"idle", "find"} => http[h] \in Works
         /\ \A h \in Threads : http[h].p \in Profiles => http[h] \in Works
         /\ \A h \in Threads : http[h].nf \in Nfs => http[h] \in Works
BY SetsAssumption DEF ThreadTypes, Idle, Works, Finds

\* The same of the slots.
LEMMA TickFields ==
  ASSUME ThreadTypes
  PROVE  /\ tick = Resting \/ tick \in Clears \/ tick \in Slots
         /\ tick.p \in Profiles \cup {NoProfile} /\ tick.nf \in Nfs \cup {NoNf}
         /\ tick.pc \notin {"idle", "clear"} => tick \in Slots
         /\ tick.p \in Profiles => tick \in Slots
         /\ tick.nf \in Nfs => tick \in Slots
BY SetsAssumption DEF ThreadTypes, Resting, Slots, Clears

\* Who works refers to an object of an NF.
LEMMA WorksFields ==
  ASSUME NEW r \in Works
  PROVE  /\ r.nf \in Nfs /\ r.nf # NoNf /\ r.p \in Profiles /\ r.p # NoProfile /\ r.sub = NoNf
         /\ r.pc \in {"arm", "notify", "erase", "replace", "put_back", "unsubscribe", "subscribe", "flag"}
         /\ r # Idle /\ r \notin Finds
BY SetsAssumption DEF Works, Finds, Idle

\* An object that is not blank is referred to.
LEMMA BlankFields ==
  /\ Idle.pc = "idle" /\ Idle.nf = NoNf /\ Idle.p = NoProfile /\ Idle.sub = NoNf
  /\ Resting.pc = "idle" /\ Resting.nf = NoNf /\ Resting.p = NoProfile
  /\ NoNf \notin Nfs /\ NoNf \notin Subs /\ NoProfile \notin Profiles
BY SetsAssumption DEF Idle, Resting

\* New and kept objects are objects.
LEMMA KeepTypes ==
  ASSUME ObjectTypes, NEW new \in [Profiles -> Objects], NEW marked \in SUBSET Profiles, Keep(new, marked)
  PROVE  ObjectTypes'
<1>1. \A p \in Profiles : (IF Referenced(p)' THEN new[p] ELSE Blank) \in Objects
  BY BlankObject
<1>2. QED
  BY <1>1 DEF Keep, ObjectTypes

\* A slot goes on, in its object or where it was.
LEMMA KeepSlotFacts ==
  ASSUME ThreadTypes, KeepSlot
  PROVE  /\ tick' \in {Resting} \cup Clears \cup Slots
         /\ tick'.pc = tick.pc /\ tick'.nf = tick.nf
         /\ tick'.p \in {tick.p, NoProfile}
         /\ \A p \in Profiles : tick'.p = p => Referenced(p)'
         /\ \A p \in Profiles : tick.p = p /\ Referenced(p)' => tick'.p = p
<1>1. CASE \E p \in Profiles : tick.p = p /\ ~Referenced(p)'
  <2>1. tick' = [tick EXCEPT !.p = NoProfile]
    BY <1>1 DEF KeepSlot
  <2>2. PICK p \in Profiles : tick.p = p /\ ~Referenced(p)'
    BY <1>1
  <2>3. tick \in Slots
    BY <2>2, TickFields
  <2>4. tick' \in Slots /\ tick'.p = NoProfile /\ tick'.pc = tick.pc /\ tick'.nf = tick.nf
    BY <2>1, <2>3 DEF Slots
  <2>5. QED
    BY <2>2, <2>4, BlankFields
<1>2. CASE ~\E p \in Profiles : tick.p = p /\ ~Referenced(p)'
  <2>1. tick' = tick
    BY <1>2 DEF KeepSlot
  <2>2. tick' \in {Resting} \cup Clears \cup Slots
    BY <2>1 DEF ThreadTypes
  <2>3. QED
    BY <1>2, <2>1, <2>2
<1>3. QED
  BY <1>1, <1>2

\* A thread starts work on an object, goes on with it, or ends it.
LEMMA StartFacts ==
  ASSUME ThreadTypes, NEW h \in Threads, NEW r \in Works, http' = [http EXCEPT ![h] = r]
  PROVE  /\ http' \in [Threads -> {Idle} \cup Works \cup Finds]
         /\ \A g \in Threads : g # h => http'[g] = http[g]
         /\ http'[h] = r
BY DEF ThreadTypes

\* The thread goes on to another place.
LEMMA GotoFacts ==
  ASSUME ThreadTypes, NEW h \in Threads, http[h] \in Works,
         NEW pc \in {"notify", "unsubscribe", "subscribe", "flag"}, Goto(h, pc)
  PROVE  /\ http' \in [Threads -> {Idle} \cup Works \cup Finds]
         /\ \A g \in Threads : g # h => http'[g] = http[g]
         /\ http'[h] \in Works
         /\ http'[h].pc = pc /\ http'[h].nf = http[h].nf /\ http'[h].p = http[h].p /\ http'[h].sub = NoNf
<1>1. PICK r : r = [http[h] EXCEPT !.pc = pc]
  OBVIOUS
<1>2. r \in Works /\ r.pc = pc /\ r.nf = http[h].nf /\ r.p = http[h].p /\ r.sub = NoNf
  BY <1>1 DEF Works
<1>3. http' = [http EXCEPT ![h] = r] /\ http \in [Threads -> {Idle} \cup Works \cup Finds]
  BY <1>1 DEF ThreadTypes, Goto
<1>4. QED
  BY <1>2, <1>3

\* The thread ends its request.
LEMMA EndFacts ==
  ASSUME ThreadTypes, NEW h \in Threads, End(h)
  PROVE  /\ http' \in [Threads -> {Idle} \cup Works \cup Finds]
         /\ \A g \in Threads : g # h => http'[g] = http[g]
         /\ http'[h] = Idle
BY DEF ThreadTypes, End

\* One object changes.
LEMMA ObjectChange ==
  ASSUME ObjectTypes, NEW q \in Profiles, NEW o \in Objects
  PROVE  /\ [profile EXCEPT ![q] = o] \in [Profiles -> Objects]
         /\ \A p \in Profiles : [profile EXCEPT ![q] = o][p] = IF p = q THEN o ELSE profile[p]
BY DEF ObjectTypes

-----------------------------------------------------------------------------
(* What each operation does.                                                *)

\* Only q changes.
OnlyObject(q) == \A p \in Profiles : p # q => profile'[p] = profile[p]

\* Only thread h moves.
OnlyThread(h) == \A g \in Threads : g # h => http'[g] = http[g]

\* The objects kept are the ones of before, with new in the place of q; what else is
\* disturbed is in marked.
KeptWith(q, new, marked) ==
    \A p \in Profiles :
      /\ Referenced(p)' => profile'[p] = IF p = q THEN new ELSE profile[p]
      /\ p \in disturbed' <=> p \in disturbed \cup marked /\ Referenced(p)'
      /\ ~Referenced(p)' => profile'[p] = Blank

SlotStays ==
    /\ tick'.pc = tick.pc /\ tick'.nf = tick.nf /\ tick'.p \in {tick.p, NoProfile}
    /\ \A p \in Profiles : tick'.p = p => Referenced(p)'
    /\ \A p \in Profiles : tick.p = p /\ Referenced(p)' => tick'.p = p

\* What an object becomes, apart from whose it is.
Becomes(q, nf_status, is_updated, first_update, first_hb, hb_update) ==
    /\ profile'[q].nf = profile[q].nf /\ profile'[q].nf_status = nf_status
    /\ profile'[q].is_updated = is_updated /\ profile'[q].first_update = first_update
    /\ profile'[q].first_hb = first_hb /\ profile'[q].hb_update = hb_update

\* A registration puts a new object into the map.
LEMMA RegisterFacts ==
  ASSUME TypeOK, NEW h \in Threads, NEW nf \in Nfs, Register(h, nf)
  PROVE  /\ TypeOK'
         /\ \E p \in Profiles :
              /\ ~Referenced(p)
              /\ instance_id2nrf_profile' = [instance_id2nrf_profile EXCEPT ![nf] = p]
              /\ http'[h] \in Works /\ http'[h].pc = "arm" /\ http'[h].nf = nf /\ http'[h].p = p
              /\ KeptWith(p, [profile[p] EXCEPT !.nf = nf], {})
         /\ http[h] = Idle /\ OnlyThread(h) /\ SlotStays
<1>1. MapTypes /\ ObjectTypes /\ ThreadTypes /\ TimeTypes /\ ToldTypes
  BY TypeParts
<1>2. PICK p \in Profiles :
        /\ ~Referenced(p)
        /\ instance_id2nrf_profile' = [instance_id2nrf_profile EXCEPT ![nf] = p]
        /\ http' = [http EXCEPT ![h] = [Idle EXCEPT !.pc = "arm", !.nf = nf, !.p = p]]
        /\ Keep([profile EXCEPT ![p].nf = nf], {})
  BY DEF Register
<1>3. PICK o : o = [profile[p] EXCEPT !.nf = nf]
  OBVIOUS
<1>4. o \in Objects
  BY <1>1, <1>3 DEF ObjectTypes, Objects
<1>5. PICK new : new = [profile EXCEPT ![p] = o]
  OBVIOUS
<1>6. new \in [Profiles -> Objects] /\ (\A q \in Profiles : new[q] = IF q = p THEN o ELSE profile[q])
  BY <1>1, <1>4, <1>5, ObjectChange
<1>7. Keep(new, {})
  BY <1>2, <1>3, <1>5
<1>8. ObjectTypes'
  BY <1>1, <1>6, <1>7, KeepTypes
<1>9. KeptWith(p, o, {})
  BY <1>6, <1>7 DEF Keep, KeptWith
<1>10. /\ http' \in [Threads -> {Idle} \cup Works \cup Finds] /\ OnlyThread(h)
       /\ http'[h] \in Works /\ http'[h].pc = "arm" /\ http'[h].nf = nf /\ http'[h].p = p
  <2>1. PICK r : r = [Idle EXCEPT !.pc = "arm", !.nf = nf, !.p = p]
    OBVIOUS
  <2>2. http' = [http EXCEPT ![h] = r]
    BY <1>2, <2>1
  <2>3. r = [pc |-> "arm", nf |-> nf, p |-> p, sub |-> NoNf]
    BY <2>1 DEF Idle
  <2>4. r \in Works /\ r.pc = "arm" /\ r.nf = nf /\ r.p = p
    BY ONLY <2>3, nf \in Nfs, p \in Profiles DEF Works
  <2>5. QED
    BY <1>1, <2>2, <2>4, StartFacts DEF OnlyThread
<1>11. SlotStays /\ tick' \in {Resting} \cup Clears \cup Slots
  BY <1>1, KeepSlotFacts DEF Register, SlotStays
<1>12. MapTypes' /\ ThreadTypes' /\ ToldTypes'
  BY <1>1, <1>2, <1>10, <1>11 DEF Register, MapTypes, ThreadTypes, ToldTypes
<1>13. TimeTypes'
  <2>1. silence' \in [Nfs -> 0..Forgotten + 1] /\ clock' = clock /\ cleanup' = cleanup
    BY <1>1, Times DEF Register, TimeTypes, timing
  <2>2. PICK d : d = (IF Busy(nf) \/ Listed(nf) \/ tick.nf = nf THEN Late ELSE HeartBeat + Slack - 1)
    OBVIOUS
  <2>3. d \in Late..HeartBeat + Slack - 1 /\ deadline' = [deadline EXCEPT ![nf] = d]
    BY <2>2, Times DEF Register
  <2>4. QED
    BY <1>1, <2>1, <2>3 DEF TimeTypes
<1>14. TypeOK'
  BY <1>8, <1>12, <1>13, TypePartsNext
<1>15. QED
  BY <1>2, <1>3, <1>9, <1>10, <1>11, <1>14 DEF Register

\* The first time-out of a new object is armed.
LEMMA ArmFacts ==
  ASSUME TypeOK, NEW h \in Threads, subscribe_heartbeat_timeout_nfregistration(h)
  PROVE  /\ TypeOK'
         /\ http[h] \in Works /\ http[h].pc = "arm"
         /\ http'[h] \in Works /\ http'[h].pc = "notify"
         /\ http'[h].nf = http[h].nf /\ http'[h].p = http[h].p /\ OnlyThread(h)
         /\ OnlyObject(http[h].p)
         /\ LET o == profile[http[h].p] IN
            Becomes(http[h].p, o.nf_status, o.is_updated, o.first_update, FirstTimeout, o.hb_update)
         /\ UNCHANGED <<database, timing, tick, history>>
<1>1. MapTypes /\ ObjectTypes /\ ThreadTypes /\ TimeTypes /\ ToldTypes
  BY TypeParts
<1>2. http[h].pc = "arm" /\ Goto(h, "notify") /\ UNCHANGED <<database, timing, tick, history>>
  BY DEF subscribe_heartbeat_timeout_nfregistration
<1>3. http[h] \in Works
  BY <1>1, <1>2, Fields
<1>4. PICK q \in Profiles : q = http[h].p
  BY <1>3, WorksFields
<1>5. PICK o : o = [profile[q] EXCEPT !.first_hb = FirstTimeout]
  OBVIOUS
<1>6. profile' = [profile EXCEPT ![q] = o]
  BY <1>4, <1>5 DEF subscribe_heartbeat_timeout_nfregistration
<1>7. /\ o \in Objects /\ o.nf = profile[q].nf /\ o.nf_status = profile[q].nf_status
      /\ o.is_updated = profile[q].is_updated /\ o.first_update = profile[q].first_update
      /\ o.first_hb = FirstTimeout /\ o.hb_update = profile[q].hb_update
  <2>1. profile[q] \in Objects /\ FirstTimeout \in Off..FirstTimeout
    BY <1>1, Times DEF ObjectTypes
  <2>2. QED
    BY ONLY <1>5, <2>1 DEF Objects
<1>8. profile' \in [Profiles -> Objects] /\ OnlyObject(q) /\ profile'[q] = o
  BY <1>1, <1>6, <1>7, ObjectChange DEF OnlyObject
<1>9. /\ http' \in [Threads -> {Idle} \cup Works \cup Finds] /\ OnlyThread(h)
      /\ http'[h] \in Works /\ http'[h].pc = "notify"
      /\ http'[h].nf = http[h].nf /\ http'[h].p = http[h].p
  BY <1>1, <1>2, <1>3, GotoFacts DEF OnlyThread
<1>10. TypeOK'
  BY <1>1, <1>2, <1>8, <1>9, TypePartsNext
     DEF MapTypes, ObjectTypes, ThreadTypes, TimeTypes, ToldTypes, database, timing, history
<1>11. QED
  BY <1>2, <1>3, <1>4, <1>7, <1>8, <1>9, <1>10 DEF Becomes

\* The thread that registered ends.
LEMMA NotifyFacts ==
  ASSUME TypeOK, NEW h \in Threads, nf_status_registered(h)
  PROVE  /\ TypeOK'
         /\ http[h] \in Works /\ http[h].pc = "notify" /\ http'[h] = Idle /\ OnlyThread(h)
         /\ KeptWith(http[h].p, profile[http[h].p], {}) /\ SlotStays
         /\ \A s \in Subs : told'[s] =
              IF instance_id2nrf_profile[http[h].nf] # NoProfile /\ s \in subscriptions
              THEN told[s] \cup {http[h].nf} ELSE told[s]
         /\ UNCHANGED <<database, timing, silence, deadline>>
<1>1. MapTypes /\ ObjectTypes /\ ThreadTypes /\ TimeTypes /\ ToldTypes
  BY TypeParts
<1>2. /\ http[h].pc = "notify" /\ End(h) /\ Keep(profile, {}) /\ KeepSlot
      /\ UNCHANGED <<database, timing, silence, deadline>>
  BY DEF nf_status_registered
<1>3. http[h] \in Works /\ http[h].nf \in Nfs
  BY <1>1, <1>2, Fields, WorksFields
<1>4. told' = IF instance_id2nrf_profile[http[h].nf] = NoProfile THEN told
              ELSE [s \in Subs |-> IF s \in subscriptions THEN told[s] \cup {http[h].nf} ELSE told[s]]
  BY DEF nf_status_registered
<1>5. /\ ToldTypes'
      /\ \A s \in Subs : told'[s] =
              IF instance_id2nrf_profile[http[h].nf] # NoProfile /\ s \in subscriptions
              THEN told[s] \cup {http[h].nf} ELSE told[s]
  BY <1>1, <1>3, <1>4 DEF ToldTypes
<1>6. ObjectTypes' /\ KeptWith(http[h].p, profile[http[h].p], {})
  <2>1. profile \in [Profiles -> Objects]
    BY <1>1 DEF ObjectTypes
  <2>2. ObjectTypes'
    BY <1>1, <1>2, <2>1, KeepTypes
  <2>3. QED
    BY <1>2, <2>2 DEF Keep, KeptWith
<1>7. http' \in [Threads -> {Idle} \cup Works \cup Finds] /\ OnlyThread(h) /\ http'[h] = Idle
  BY <1>1, <1>2, EndFacts DEF OnlyThread
<1>8. SlotStays /\ tick' \in {Resting} \cup Clears \cup Slots
  BY <1>1, <1>2, KeepSlotFacts DEF SlotStays
<1>9. TypeOK'
  BY <1>1, <1>2, <1>5, <1>6, <1>7, <1>8, TypePartsNext DEF MapTypes, ThreadTypes, TimeTypes, database, timing
<1>10. QED
  BY <1>2, <1>3, <1>5, <1>6, <1>7, <1>8, <1>9

\* A heartbeat finds the object and registers it again.
LEMMA HeartbeatFacts ==
  ASSUME TypeOK, NEW h \in Threads, NEW nf \in Nfs, Heartbeat(h, nf)
  PROVE  /\ TypeOK'
         /\ instance_id2nrf_profile[nf] \in Profiles
         /\ http[h] = Idle /\ http'[h] \in Works /\ http'[h].pc = "put_back"
         /\ http'[h].nf = nf /\ http'[h].p = instance_id2nrf_profile[nf] /\ OnlyThread(h)
         /\ OnlyObject(instance_id2nrf_profile[nf])
         /\ LET o == profile[instance_id2nrf_profile[nf]] IN
            Becomes(instance_id2nrf_profile[nf], "REGISTERED", o.is_updated, o.first_update,
                    o.first_hb, o.hb_update)
         /\ disturbed' = IF profile[instance_id2nrf_profile[nf]].nf_status = "SUSPENDED"
                         THEN disturbed \cup {instance_id2nrf_profile[nf]} ELSE disturbed
         /\ \A m \in Nfs : silence'[m] = IF m = nf THEN 0 ELSE silence[m]
         /\ \A m \in Nfs : m # nf => deadline'[m] = deadline[m]
         /\ deadline'[nf] = IF deadline[nf] \in 0..Slack - 1 /\ ~Busy(nf)
                            THEN deadline[nf] + HeartBeat ELSE Late
         /\ UNCHANGED <<database, timing, tick, told>>
<1>1. MapTypes /\ ObjectTypes /\ ThreadTypes /\ TimeTypes /\ ToldTypes
  BY TypeParts
<1>2. PICK q : q = instance_id2nrf_profile[nf]
  OBVIOUS
<1>3. /\ http[h] = Idle /\ q # NoProfile
      /\ disturbed' = IF profile[q].nf_status = "SUSPENDED" THEN disturbed \cup {q} ELSE disturbed
      /\ UNCHANGED <<database, timing, tick, told>>
  BY <1>2 DEF Heartbeat
<1>4. q \in Profiles
  BY <1>1, <1>2, <1>3 DEF MapTypes
<1>5. PICK o : o = [profile[q] EXCEPT !.nf_status = "REGISTERED"]
  OBVIOUS
<1>6. profile' = [profile EXCEPT ![q] = o]
  BY <1>2, <1>5 DEF Heartbeat
<1>7. /\ o \in Objects /\ o.nf = profile[q].nf /\ o.nf_status = "REGISTERED"
      /\ o.is_updated = profile[q].is_updated /\ o.first_update = profile[q].first_update
      /\ o.first_hb = profile[q].first_hb /\ o.hb_update = profile[q].hb_update
  <2>1. profile[q] \in Objects
    BY <1>1, <1>4 DEF ObjectTypes
  <2>2. QED
    BY ONLY <1>5, <2>1 DEF Objects
<1>8. profile' \in [Profiles -> Objects] /\ OnlyObject(q) /\ profile'[q] = o
  BY <1>1, <1>4, <1>6, <1>7, ObjectChange DEF OnlyObject
<1>9. /\ http' \in [Threads -> {Idle} \cup Works \cup Finds] /\ OnlyThread(h)
      /\ http'[h] \in Works /\ http'[h].pc = "put_back" /\ http'[h].nf = nf /\ http'[h].p = q
  <2>1. PICK r : r = [Idle EXCEPT !.pc = "put_back", !.nf = nf, !.p = q]
    OBVIOUS
  <2>2. http' = [http EXCEPT ![h] = r]
    BY <1>2, <2>1 DEF Heartbeat
  <2>3. r = [pc |-> "put_back", nf |-> nf, p |-> q, sub |-> NoNf]
    BY <2>1 DEF Idle
  <2>4. r \in Works /\ r.pc = "put_back" /\ r.nf = nf /\ r.p = q
    BY ONLY <1>4, <2>3, nf \in Nfs DEF Works
  <2>5. QED
    BY <1>1, <2>2, <2>4, StartFacts DEF OnlyThread
<1>10. /\ silence' \in [Nfs -> 0..Forgotten + 1]
       /\ \A m \in Nfs : silence'[m] = IF m = nf THEN 0 ELSE silence[m]
  BY <1>1, Times DEF Heartbeat, TimeTypes
<1>11. /\ deadline' \in [Nfs -> Late..HeartBeat + Slack - 1]
       /\ \A m \in Nfs : m # nf => deadline'[m] = deadline[m]
       /\ deadline'[nf] = IF deadline[nf] \in 0..Slack - 1 /\ ~Busy(nf)
                          THEN deadline[nf] + HeartBeat ELSE Late
  <2>1. PICK d : d = (IF deadline[nf] \in 0..Slack - 1 /\ ~Busy(nf) THEN deadline[nf] + HeartBeat ELSE Late)
    OBVIOUS
  <2>2. deadline' = [deadline EXCEPT ![nf] = d]
    BY <2>1 DEF Heartbeat
  <2>3. d \in Late..HeartBeat + Slack - 1
    BY <2>1, Times
  <2>4. QED
    BY <1>1, <2>1, <2>2, <2>3 DEF TimeTypes
<1>12. TypeOK'
  BY <1>1, <1>3, <1>4, <1>8, <1>9, <1>10, <1>11, TypePartsNext
     DEF MapTypes, ObjectTypes, ThreadTypes, TimeTypes, ToldTypes, database, timing
<1>13. QED
  BY <1>2, <1>3, <1>4, <1>7, <1>8, <1>9, <1>10, <1>11, <1>12 DEF Becomes

\* A change of other attributes finds the object.
LEMMA ChangeFacts ==
  ASSUME TypeOK, NEW h \in Threads, NEW nf \in Nfs, ChangeProfile(h, nf)
  PROVE  /\ TypeOK'
         /\ instance_id2nrf_profile[nf] \in Profiles
         /\ http[h] = Idle /\ http'[h] \in Works /\ http'[h].pc = "replace"
         /\ http'[h].nf = nf /\ http'[h].p = instance_id2nrf_profile[nf] /\ OnlyThread(h)
         /\ \A m \in Nfs : m # nf => deadline'[m] = deadline[m]
         /\ deadline'[nf] = IF Busy(nf) THEN Late ELSE deadline[nf]
         /\ UNCHANGED <<database, profile, timing, tick, told, silence, disturbed>>
<1>1. MapTypes /\ ObjectTypes /\ ThreadTypes /\ TimeTypes /\ ToldTypes
  BY TypeParts
<1>2. PICK q : q = instance_id2nrf_profile[nf]
  OBVIOUS
<1>3. /\ http[h] = Idle /\ q # NoProfile
      /\ UNCHANGED <<database, profile, timing, tick, told, silence, disturbed>>
  BY <1>2 DEF ChangeProfile
<1>4. q \in Profiles
  BY <1>1, <1>2, <1>3 DEF MapTypes
<1>5. /\ http' \in [Threads -> {Idle} \cup Works \cup Finds] /\ OnlyThread(h)
      /\ http'[h] \in Works /\ http'[h].pc = "replace" /\ http'[h].nf = nf /\ http'[h].p = q
  <2>1. PICK r : r = [Idle EXCEPT !.pc = "replace", !.nf = nf, !.p = q]
    OBVIOUS
  <2>2. http' = [http EXCEPT ![h] = r]
    BY <1>2, <2>1 DEF ChangeProfile
  <2>3. r = [pc |-> "replace", nf |-> nf, p |-> q, sub |-> NoNf]
    BY <2>1 DEF Idle
  <2>4. r \in Works /\ r.pc = "replace" /\ r.nf = nf /\ r.p = q
    BY ONLY <1>4, <2>3, nf \in Nfs DEF Works
  <2>5. QED
    BY <1>1, <2>2, <2>4, StartFacts DEF OnlyThread
<1>6. /\ deadline' \in [Nfs -> Late..HeartBeat + Slack - 1]
      /\ \A m \in Nfs : m # nf => deadline'[m] = deadline[m]
      /\ deadline'[nf] = IF Busy(nf) THEN Late ELSE deadline[nf]
  <2>1. PICK d : d = (IF Busy(nf) THEN Late ELSE deadline[nf])
    OBVIOUS
  <2>2. deadline' = [deadline EXCEPT ![nf] = d]
    BY <2>1 DEF ChangeProfile
  <2>3. d \in Late..HeartBeat + Slack - 1
    BY <1>1, <2>1, Times DEF TimeTypes
  <2>4. QED
    BY <1>1, <2>1, <2>2, <2>3 DEF TimeTypes
<1>7. TypeOK'
  BY <1>1, <1>3, <1>5, <1>6, TypePartsNext
     DEF MapTypes, ObjectTypes, ThreadTypes, TimeTypes, ToldTypes, database, timing
<1>8. QED
  BY <1>2, <1>3, <1>4, <1>5, <1>6, <1>7

\* The object is stored again, which disturbs it if another was there.
LEMMA UpdateFacts ==
  ASSUME TypeOK, NEW h \in Threads, update_nf_profile(h)
  PROVE  /\ TypeOK'
         /\ http[h] \in Works /\ http[h].pc \in {"put_back", "replace"} /\ OnlyThread(h)
         /\ \/ http[h].pc = "replace" /\ http'[h] = Idle
            \/ /\ http[h].pc = "put_back" /\ http'[h] \in Works /\ http'[h].pc = "unsubscribe"
               /\ http'[h].nf = http[h].nf /\ http'[h].p = http[h].p
         /\ \A m \in Nfs : instance_id2nrf_profile'[m] =
              IF m = http[h].nf /\ instance_id2nrf_profile[m] # NoProfile THEN http[h].p
              ELSE instance_id2nrf_profile[m]
         /\ KeptWith(http[h].p, profile[http[h].p],
                     IF instance_id2nrf_profile[http[h].nf] \in {http[h].p, NoProfile} THEN {}
                     ELSE {http[h].p})
         /\ SlotStays
         /\ UNCHANGED <<suspended_nf, subscriptions, timing, told, silence, deadline>>
<1>1. MapTypes /\ ObjectTypes /\ ThreadTypes /\ TimeTypes /\ ToldTypes
  BY TypeParts
<1>2. PICK marked : marked = IF instance_id2nrf_profile[http[h].nf] \in {http[h].p, NoProfile} THEN {}
                            ELSE {http[h].p}
  OBVIOUS
<1>3. /\ http[h].pc \in {"put_back", "replace"}
      /\ instance_id2nrf_profile' = PutBack(instance_id2nrf_profile, h)
      /\ IF http[h].pc = "replace" THEN End(h) ELSE Goto(h, "unsubscribe")
      /\ Keep(profile, marked) /\ KeepSlot
      /\ UNCHANGED <<suspended_nf, subscriptions, timing, told, silence, deadline>>
  BY <1>2 DEF update_nf_profile
<1>4. http[h] \in Works /\ http[h].nf \in Nfs /\ http[h].p \in Profiles
  BY <1>1, <1>3, Fields, WorksFields
<1>5. /\ instance_id2nrf_profile' \in [Nfs -> Profiles \cup {NoProfile}]
      /\ \A m \in Nfs : instance_id2nrf_profile'[m] =
              IF m = http[h].nf /\ instance_id2nrf_profile[m] # NoProfile THEN http[h].p
              ELSE instance_id2nrf_profile[m]
  BY <1>1, <1>3, <1>4 DEF MapTypes, PutBack
<1>6. ObjectTypes' /\ KeptWith(http[h].p, profile[http[h].p], marked)
  <2>1. profile \in [Profiles -> Objects] /\ marked \in SUBSET Profiles
    BY <1>1, <1>2, <1>4 DEF ObjectTypes
  <2>2. ObjectTypes'
    BY <1>1, <1>3, <2>1, KeepTypes
  <2>3. QED
    BY <1>3, <2>2 DEF Keep, KeptWith
<1>7. /\ http' \in [Threads -> {Idle} \cup Works \cup Finds] /\ OnlyThread(h)
      /\ \/ http[h].pc = "replace" /\ http'[h] = Idle
         \/ /\ http[h].pc = "put_back" /\ http'[h] \in Works /\ http'[h].pc = "unsubscribe"
            /\ http'[h].nf = http[h].nf /\ http'[h].p = http[h].p
  BY <1>1, <1>3, <1>4, EndFacts, GotoFacts DEF OnlyThread
<1>8. SlotStays /\ tick' \in {Resting} \cup Clears \cup Slots
  BY <1>1, <1>3, KeepSlotFacts DEF SlotStays
<1>9. TypeOK'
  BY <1>1, <1>3, <1>5, <1>6, <1>7, <1>8, TypePartsNext DEF MapTypes, ThreadTypes, TimeTypes, ToldTypes, timing
<1>10. QED
  BY <1>2, <1>3, <1>4, <1>5, <1>6, <1>7, <1>8, <1>9

\* The first time-out is disconnected.
LEMMA UnsubscribeFacts ==
  ASSUME TypeOK, NEW h \in Threads, unsubscribe_heartbeat_timeout_nfregistration(h)
  PROVE  /\ TypeOK'
         /\ http[h] \in Works /\ http[h].pc = "unsubscribe" /\ profile[http[h].p].first_hb # Off
         /\ http'[h] \in Works /\ http'[h].pc = "subscribe"
         /\ http'[h].nf = http[h].nf /\ http'[h].p = http[h].p /\ OnlyThread(h)
         /\ OnlyObject(http[h].p)
         /\ LET o == profile[http[h].p] IN
            Becomes(http[h].p, o.nf_status, o.is_updated, o.first_update, Off, o.hb_update)
         /\ UNCHANGED <<database, timing, tick, history>>
<1>1. MapTypes /\ ObjectTypes /\ ThreadTypes /\ TimeTypes /\ ToldTypes
  BY TypeParts
<1>2. /\ http[h].pc = "unsubscribe" /\ profile[http[h].p].first_hb # Off /\ Goto(h, "subscribe")
      /\ UNCHANGED <<database, timing, tick, history>>
  BY DEF unsubscribe_heartbeat_timeout_nfregistration
<1>3. http[h] \in Works
  BY <1>1, <1>2, Fields
<1>4. PICK q \in Profiles : q = http[h].p
  BY <1>3, WorksFields
<1>5. PICK o : o = [profile[q] EXCEPT !.first_hb = Off]
  OBVIOUS
<1>6. profile' = [profile EXCEPT ![q] = o]
  BY <1>4, <1>5 DEF unsubscribe_heartbeat_timeout_nfregistration
<1>7. /\ o \in Objects /\ o.nf = profile[q].nf /\ o.nf_status = profile[q].nf_status
      /\ o.is_updated = profile[q].is_updated /\ o.first_update = profile[q].first_update
      /\ o.first_hb = Off /\ o.hb_update = profile[q].hb_update
  <2>1. profile[q] \in Objects /\ Off \in Off..FirstTimeout
    BY <1>1, Times DEF ObjectTypes
  <2>2. QED
    BY ONLY <1>5, <2>1 DEF Objects
<1>8. profile' \in [Profiles -> Objects] /\ OnlyObject(q) /\ profile'[q] = o
  BY <1>1, <1>6, <1>7, ObjectChange DEF OnlyObject
<1>9. /\ http' \in [Threads -> {Idle} \cup Works \cup Finds] /\ OnlyThread(h)
      /\ http'[h] \in Works /\ http'[h].pc = "subscribe"
      /\ http'[h].nf = http[h].nf /\ http'[h].p = http[h].p
  BY <1>1, <1>2, <1>3, GotoFacts DEF OnlyThread
<1>10. TypeOK'
  BY <1>1, <1>2, <1>8, <1>9, TypePartsNext
     DEF MapTypes, ObjectTypes, ThreadTypes, TimeTypes, ToldTypes, database, timing, history
<1>11. QED
  BY <1>2, <1>3, <1>4, <1>7, <1>8, <1>9, <1>10 DEF Becomes

\* The first update arms the time-out after an update.
LEMMA SubscribeFacts ==
  ASSUME TypeOK, NEW h \in Threads, Subscribe(h)
  PROVE  /\ TypeOK'
         /\ http[h] \in Works
         /\ \/ http[h].pc = "subscribe"
            \/ http[h].pc = "unsubscribe" /\ profile[http[h].p].first_hb = Off
         /\ http'[h] \in Works /\ http'[h].pc = "flag"
         /\ http'[h].nf = http[h].nf /\ http'[h].p = http[h].p /\ OnlyThread(h)
         /\ OnlyObject(http[h].p)
         /\ LET o == profile[http[h].p] IN
            Becomes(http[h].p, "REGISTERED", o.is_updated, o.first_update /\ o.hb_update # Off, o.first_hb,
                    IF o.hb_update = Off /\ o.first_update THEN FirstUpdateTimeout ELSE o.hb_update)
         /\ UNCHANGED <<database, timing, tick, history>>
<1>1. MapTypes /\ ObjectTypes /\ ThreadTypes /\ TimeTypes /\ ToldTypes
  BY TypeParts
<1>2. /\ \/ http[h].pc = "subscribe"
         \/ http[h].pc = "unsubscribe" /\ profile[http[h].p].first_hb = Off
      /\ Goto(h, "flag") /\ UNCHANGED <<database, timing, tick, history>>
  BY DEF Subscribe
<1>3. http[h] \in Works
  BY <1>1, <1>2, Fields
<1>4. PICK q \in Profiles : q = http[h].p
  BY <1>3, WorksFields
<1>5. PICK w : w = subscribe_heartbeat_timeout_nfupdate(profile[q])
  OBVIOUS
<1>6. PICK o : o = [w EXCEPT !.nf_status = "REGISTERED"]
  OBVIOUS
<1>7. profile' = [profile EXCEPT ![q] = o]
  BY <1>4, <1>5, <1>6 DEF Subscribe
<1>8. profile[q] \in Objects /\ FirstUpdateTimeout \in Off..FirstUpdateTimeout
  BY <1>1, Times DEF ObjectTypes
<1>9. /\ w \in Objects /\ w.nf = profile[q].nf /\ w.first_hb = profile[q].first_hb
      /\ w.is_updated = profile[q].is_updated
      /\ w.first_update = (profile[q].first_update /\ profile[q].hb_update # Off)
      /\ w.hb_update = IF profile[q].hb_update = Off /\ profile[q].first_update THEN FirstUpdateTimeout
                       ELSE profile[q].hb_update
  <2>1. CASE profile[q].hb_update = Off /\ profile[q].first_update
    <3>1. w = [profile[q] EXCEPT !.hb_update = FirstUpdateTimeout, !.first_update = FALSE]
      BY <1>5, <2>1 DEF subscribe_heartbeat_timeout_nfupdate
    <3>2. /\ w \in Objects /\ w.nf = profile[q].nf /\ w.first_hb = profile[q].first_hb
          /\ w.is_updated = profile[q].is_updated
          /\ w.first_update = FALSE /\ w.hb_update = FirstUpdateTimeout
      BY ONLY <1>8, <3>1 DEF Objects
    <3>3. QED
      BY <2>1, <3>2
  <2>2. CASE ~(profile[q].hb_update = Off /\ profile[q].first_update)
    <3>1. w = profile[q]
      BY <1>5, <2>2 DEF subscribe_heartbeat_timeout_nfupdate
    <3>2. profile[q].first_update \in BOOLEAN
      BY <1>8, ObjectFields
    <3>3. QED
      BY <1>8, <2>2, <3>1, <3>2
  <2>3. QED
    BY <2>1, <2>2
<1>10. /\ o \in Objects /\ o.nf = w.nf /\ o.first_hb = w.first_hb /\ o.is_updated = w.is_updated
       /\ o.first_update = w.first_update /\ o.hb_update = w.hb_update /\ o.nf_status = "REGISTERED"
  <2>1. w \in Objects
    BY <1>9
  <2>2. QED
    BY ONLY <1>6, <2>1 DEF Objects
<1>11. profile' \in [Profiles -> Objects] /\ OnlyObject(q) /\ profile'[q] = o
  BY <1>1, <1>7, <1>10, ObjectChange DEF OnlyObject
<1>12. /\ http' \in [Threads -> {Idle} \cup Works \cup Finds] /\ OnlyThread(h)
       /\ http'[h] \in Works /\ http'[h].pc = "flag"
       /\ http'[h].nf = http[h].nf /\ http'[h].p = http[h].p
  BY <1>1, <1>2, <1>3, GotoFacts DEF OnlyThread
<1>13. TypeOK'
  BY <1>1, <1>2, <1>11, <1>12, TypePartsNext
     DEF MapTypes, ObjectTypes, ThreadTypes, TimeTypes, ToldTypes, database, timing, history
<1>14. QED
  BY <1>2, <1>3, <1>4, <1>9, <1>10, <1>11, <1>12, <1>13 DEF Becomes

\* A heartbeat ends: the object is flagged, the NF out of one part of the suspended set.
LEMMA FlagFacts ==
  ASSUME TypeOK, NEW h \in Threads, EndHeartbeat(h)
  PROVE  /\ TypeOK'
         /\ http[h] \in Works /\ http[h].pc = "flag" /\ http'[h] = Idle /\ OnlyThread(h)
         /\ \A i \in 0..1, m \in Nfs : m # http[h].nf => (m \in suspended_nf'[i] <=> m \in suspended_nf[i])
         /\ \A i \in 0..1 : suspended_nf'[i] \subseteq suspended_nf[i]
         /\ \E o \in Objects :
              /\ KeptWith(http[h].p, o, {})
              /\ LET q == profile[http[h].p] IN
                 /\ o.nf = q.nf /\ o.nf_status = q.nf_status /\ o.is_updated = TRUE
                 /\ o.first_update = q.first_update /\ o.first_hb = q.first_hb /\ o.hb_update = q.hb_update
         /\ SlotStays
         /\ UNCHANGED <<instance_id2nrf_profile, subscriptions, timing, told, silence, deadline>>
<1>1. MapTypes /\ ObjectTypes /\ ThreadTypes /\ TimeTypes /\ ToldTypes
  BY TypeParts
<1>2. /\ http[h].pc = "flag" /\ remove_from_suspended_list(http[h].nf) /\ End(h) /\ KeepSlot
      /\ UNCHANGED <<instance_id2nrf_profile, subscriptions, timing, told, silence, deadline>>
  BY DEF EndHeartbeat
<1>3. http[h] \in Works /\ http[h].nf \in Nfs
  BY <1>1, <1>2, Fields, WorksFields
<1>4. PICK q \in Profiles : q = http[h].p
  BY <1>3, WorksFields
<1>5. PICK o : o = [profile[q] EXCEPT !.is_updated = TRUE]
  OBVIOUS
<1>6. /\ o \in Objects /\ o.nf = profile[q].nf /\ o.nf_status = profile[q].nf_status
      /\ o.is_updated = TRUE /\ o.first_update = profile[q].first_update
      /\ o.first_hb = profile[q].first_hb /\ o.hb_update = profile[q].hb_update
  <2>1. profile[q] \in Objects
    BY <1>1 DEF ObjectTypes
  <2>2. QED
    BY ONLY <1>5, <2>1 DEF Objects
<1>7. PICK new : new = [profile EXCEPT ![q] = o]
  OBVIOUS
<1>8. Keep(new, {})
  BY <1>4, <1>5, <1>7 DEF EndHeartbeat
<1>9. new \in [Profiles -> Objects] /\ (\A p \in Profiles : new[p] = IF p = q THEN o ELSE profile[p])
  BY <1>1, <1>6, <1>7, ObjectChange
<1>10. ObjectTypes'
  BY <1>1, <1>8, <1>9, KeepTypes
<1>11. KeptWith(q, o, {})
  BY <1>8, <1>9 DEF Keep, KeptWith
<1>12. /\ suspended_nf' \in [0..1 -> SUBSET Nfs]
       /\ \A i \in 0..1, m \in Nfs : m # http[h].nf => (m \in suspended_nf'[i] <=> m \in suspended_nf[i])
       /\ \A i \in 0..1 : suspended_nf'[i] \subseteq suspended_nf[i]
  <2>1. PICK i : i = (IF http[h].nf \in suspended_nf[0] THEN 0 ELSE 1)
    OBVIOUS
  <2>2. suspended_nf' = [suspended_nf EXCEPT ![i] = @ \ {http[h].nf}]
    BY <1>2, <2>1 DEF remove_from_suspended_list
  <2>3. i \in 0..1 /\ suspended_nf \in [0..1 -> SUBSET Nfs]
    BY <1>1, <2>1 DEF MapTypes
  <2>4. \A j \in 0..1 : suspended_nf'[j] = IF j = i THEN suspended_nf[i] \ {http[h].nf} ELSE suspended_nf[j]
    BY <2>2, <2>3
  <2>5. QED
    BY <2>2, <2>3, <2>4
<1>13. http' \in [Threads -> {Idle} \cup Works \cup Finds] /\ OnlyThread(h) /\ http'[h] = Idle
  BY <1>1, <1>2, EndFacts DEF OnlyThread
<1>14. SlotStays /\ tick' \in {Resting} \cup Clears \cup Slots
  BY <1>1, <1>2, KeepSlotFacts DEF SlotStays
<1>15. TypeOK'
  BY <1>1, <1>2, <1>10, <1>12, <1>13, <1>14, TypePartsNext DEF MapTypes, ThreadTypes, TimeTypes, ToldTypes, timing
<1>16. QED
  BY <1>2, <1>3, <1>4, <1>6, <1>11, <1>12, <1>13, <1>14, <1>15

\* A deregistration finds the object and reports that the NF goes.
LEMMA DeregisterFacts ==
  ASSUME TypeOK, NEW h \in Threads, NEW nf \in Nfs, Deregister(h, nf)
  PROVE  /\ TypeOK'
         /\ instance_id2nrf_profile[nf] \in Profiles
         /\ http[h] = Idle /\ http'[h] \in Works /\ http'[h].pc = "erase"
         /\ http'[h].nf = nf /\ http'[h].p = instance_id2nrf_profile[nf] /\ OnlyThread(h)
         /\ \A s \in Subs : told'[s] = IF s \in subscriptions THEN told[s] \ {nf} ELSE told[s]
         /\ \A m \in Nfs : deadline'[m] = IF m = nf THEN Late ELSE deadline[m]
         /\ UNCHANGED <<database, profile, timing, tick, silence, disturbed>>
<1>1. MapTypes /\ ObjectTypes /\ ThreadTypes /\ TimeTypes /\ ToldTypes
  BY TypeParts
<1>2. PICK q : q = instance_id2nrf_profile[nf]
  OBVIOUS
<1>3. /\ http[h] = Idle /\ q # NoProfile
      /\ UNCHANGED <<database, profile, timing, tick, silence, disturbed>>
  BY <1>2 DEF Deregister
<1>4. q \in Profiles
  BY <1>1, <1>2, <1>3 DEF MapTypes
<1>5. /\ http' \in [Threads -> {Idle} \cup Works \cup Finds] /\ OnlyThread(h)
      /\ http'[h] \in Works /\ http'[h].pc = "erase" /\ http'[h].nf = nf /\ http'[h].p = q
  <2>1. PICK r : r = [Idle EXCEPT !.pc = "erase", !.nf = nf, !.p = q]
    OBVIOUS
  <2>2. http' = [http EXCEPT ![h] = r]
    BY <1>2, <2>1 DEF Deregister
  <2>3. r = [pc |-> "erase", nf |-> nf, p |-> q, sub |-> NoNf]
    BY <2>1 DEF Idle
  <2>4. r \in Works /\ r.pc = "erase" /\ r.nf = nf /\ r.p = q
    BY ONLY <1>4, <2>3, nf \in Nfs DEF Works
  <2>5. QED
    BY <1>1, <2>2, <2>4, StartFacts DEF OnlyThread
<1>6. /\ told' \in [Subs -> SUBSET Nfs]
      /\ \A s \in Subs : told'[s] = IF s \in subscriptions THEN told[s] \ {nf} ELSE told[s]
  BY <1>1 DEF Deregister, ToldTypes
<1>7. /\ deadline' \in [Nfs -> Late..HeartBeat + Slack - 1]
      /\ \A m \in Nfs : deadline'[m] = IF m = nf THEN Late ELSE deadline[m]
  <2>1. deadline' = [deadline EXCEPT ![nf] = Late] /\ Late \in Late..HeartBeat + Slack - 1
    BY Times DEF Deregister
  <2>2. QED
    BY <1>1, <2>1 DEF TimeTypes
<1>8. TypeOK'
  BY <1>1, <1>3, <1>5, <1>6, <1>7, TypePartsNext
     DEF MapTypes, ObjectTypes, ThreadTypes, TimeTypes, ToldTypes, database, timing
<1>9. QED
  BY <1>2, <1>3, <1>4, <1>5, <1>6, <1>7, <1>8

\* The id is gone.
LEMMA RemoveFacts ==
  ASSUME TypeOK, NEW h \in Threads, remove_nf_profile(h)
  PROVE  /\ TypeOK'
         /\ http[h] \in Works /\ http[h].pc = "erase" /\ http'[h] = Idle /\ OnlyThread(h)
         /\ \A m \in Nfs : instance_id2nrf_profile'[m] =
              IF m = http[h].nf THEN NoProfile ELSE instance_id2nrf_profile[m]
         /\ KeptWith(http[h].p, profile[http[h].p], {}) /\ SlotStays
         /\ \A m \in Nfs : deadline'[m] = IF m = http[h].nf THEN Late ELSE deadline[m]
         /\ UNCHANGED <<suspended_nf, subscriptions, timing, told, silence>>
<1>1. MapTypes /\ ObjectTypes /\ ThreadTypes /\ TimeTypes /\ ToldTypes
  BY TypeParts
<1>2. /\ http[h].pc = "erase" /\ End(h) /\ Keep(profile, {}) /\ KeepSlot
      /\ instance_id2nrf_profile' = [instance_id2nrf_profile EXCEPT ![http[h].nf] = NoProfile]
      /\ deadline' = [deadline EXCEPT ![http[h].nf] = Late]
      /\ UNCHANGED <<suspended_nf, subscriptions, timing, told, silence>>
  BY DEF remove_nf_profile
<1>3. http[h] \in Works /\ http[h].nf \in Nfs
  BY <1>1, <1>2, Fields, WorksFields
<1>4. /\ instance_id2nrf_profile' \in [Nfs -> Profiles \cup {NoProfile}]
      /\ \A m \in Nfs : instance_id2nrf_profile'[m] =
              IF m = http[h].nf THEN NoProfile ELSE instance_id2nrf_profile[m]
  BY <1>1, <1>2, <1>3 DEF MapTypes
<1>5. /\ deadline' \in [Nfs -> Late..HeartBeat + Slack - 1]
      /\ \A m \in Nfs : deadline'[m] = IF m = http[h].nf THEN Late ELSE deadline[m]
  <2>1. Late \in Late..HeartBeat + Slack - 1
    BY Times
  <2>2. QED
    BY <1>1, <1>2, <1>3, <2>1 DEF TimeTypes
<1>6. ObjectTypes' /\ KeptWith(http[h].p, profile[http[h].p], {})
  <2>1. profile \in [Profiles -> Objects]
    BY <1>1 DEF ObjectTypes
  <2>2. ObjectTypes'
    BY <1>1, <1>2, <2>1, KeepTypes
  <2>3. QED
    BY <1>2, <2>2 DEF Keep, KeptWith
<1>7. http' \in [Threads -> {Idle} \cup Works \cup Finds] /\ OnlyThread(h) /\ http'[h] = Idle
  BY <1>1, <1>2, EndFacts DEF OnlyThread
<1>8. SlotStays /\ tick' \in {Resting} \cup Clears \cup Slots
  BY <1>1, <1>2, KeepSlotFacts DEF SlotStays
<1>9. TypeOK'
  BY <1>1, <1>2, <1>4, <1>5, <1>6, <1>7, <1>8, TypePartsNext DEF MapTypes, ThreadTypes, TimeTypes, ToldTypes, timing
<1>10. QED
  BY <1>2, <1>3, <1>4, <1>5, <1>6, <1>7, <1>8, <1>9

\* A subscription is stored.
LEMMA CreateFacts ==
  ASSUME TypeOK, NEW h \in Threads, NEW s \in Subs, CreateSubscription(h, s)
  PROVE  /\ TypeOK'
         /\ http[h] = Idle /\ http'[h] \in Finds /\ http'[h].sub = s /\ OnlyThread(h)
         /\ subscriptions' = subscriptions \cup {s}
         /\ UNCHANGED <<instance_id2nrf_profile, suspended_nf, profile, timing, tick, history>>
<1>1. MapTypes /\ ObjectTypes /\ ThreadTypes /\ TimeTypes /\ ToldTypes
  BY TypeParts
<1>2. /\ http[h] = Idle /\ subscriptions' = subscriptions \cup {s}
      /\ UNCHANGED <<instance_id2nrf_profile, suspended_nf, profile, timing, tick, history>>
  BY DEF CreateSubscription
<1>3. PICK r : r = [Idle EXCEPT !.pc = "find", !.sub = s]
  OBVIOUS
<1>4. http' = [http EXCEPT ![h] = r]
  BY <1>3 DEF CreateSubscription
<1>5. r = [pc |-> "find", nf |-> NoNf, p |-> NoProfile, sub |-> s]
  BY <1>3 DEF Idle
<1>6. r \in Finds /\ r.sub = s
  BY ONLY <1>5, s \in Subs DEF Finds
<1>7. http' \in [Threads -> {Idle} \cup Works \cup Finds] /\ OnlyThread(h) /\ http'[h] = r
  BY <1>1, <1>4, <1>6 DEF ThreadTypes, OnlyThread
<1>8. TypeOK'
  BY <1>1, <1>2, <1>7, TypePartsNext
     DEF MapTypes, ObjectTypes, ThreadTypes, TimeTypes, ToldTypes, timing, history
<1>9. QED
  BY <1>2, <1>6, <1>7, <1>8

\* What is there is reported to the new subscriber.
LEMMA FindFacts ==
  ASSUME TypeOK, NEW h \in Threads, find_nf_profiles(h)
  PROVE  /\ TypeOK'
         /\ http[h] \in Finds /\ http'[h] = Idle /\ OnlyThread(h)
         /\ \A s \in Subs : told'[s] =
              IF s = http[h].sub THEN told[s] \cup {nf \in Nfs : Active(nf)} ELSE told[s]
         /\ UNCHANGED <<database, profile, timing, tick, silence, deadline, disturbed>>
<1>1. MapTypes /\ ObjectTypes /\ ThreadTypes /\ TimeTypes /\ ToldTypes
  BY TypeParts
<1>2. /\ http[h].pc = "find" /\ End(h)
      /\ told' = [told EXCEPT ![http[h].sub] = @ \cup {nf \in Nfs : Active(nf)}]
      /\ UNCHANGED <<database, profile, timing, tick, silence, deadline, disturbed>>
  BY DEF find_nf_profiles
<1>3. http[h] \in Finds /\ http[h].sub \in Subs
  <2>1. http[h] # Idle /\ http[h] \notin Works
    BY <1>2 DEF Idle, Works
  <2>2. QED
    BY <1>1, <2>1, Fields DEF Finds
<1>4. /\ ToldTypes'
      /\ \A s \in Subs : told'[s] =
              IF s = http[h].sub THEN told[s] \cup {nf \in Nfs : Active(nf)} ELSE told[s]
  BY <1>1, <1>2, <1>3 DEF ToldTypes
<1>5. http' \in [Threads -> {Idle} \cup Works \cup Finds] /\ OnlyThread(h) /\ http'[h] = Idle
  BY <1>1, <1>2, EndFacts DEF OnlyThread
<1>6. TypeOK'
  BY <1>1, <1>2, <1>4, <1>5, TypePartsNext DEF MapTypes, ObjectTypes, ThreadTypes, TimeTypes, database, timing
<1>7. QED
  BY <1>2, <1>3, <1>4, <1>5, <1>6

\* A subscription is removed.
LEMMA UnsubscriptionFacts ==
  ASSUME TypeOK, NEW h \in Threads, NEW s \in Subs, RemoveSubscription(h, s)
  PROVE  /\ TypeOK'
         /\ subscriptions' = subscriptions \ {s}
         /\ \A t \in Subs : t # s => told'[t] = told[t]
         /\ UNCHANGED <<instance_id2nrf_profile, suspended_nf, profile, timing, http, tick,
                       silence, deadline, disturbed>>
<1>1. MapTypes /\ ObjectTypes /\ ThreadTypes /\ TimeTypes /\ ToldTypes
  BY TypeParts
<1>2. /\ subscriptions' = subscriptions \ {s} /\ told' = [told EXCEPT ![s] = {}]
      /\ UNCHANGED <<instance_id2nrf_profile, suspended_nf, profile, timing, http, tick,
                    silence, deadline, disturbed>>
  BY DEF RemoveSubscription
<1>3. ToldTypes' /\ \A t \in Subs : t # s => told'[t] = told[t]
  BY <1>1, <1>2 DEF ToldTypes
<1>4. TypeOK'
  BY <1>1, <1>2, <1>3, TypePartsNext DEF MapTypes, ObjectTypes, ThreadTypes, TimeTypes, timing
<1>5. QED
  BY <1>2, <1>3, <1>4

\* The part of the suspended set in use goes by the half of the clock.
LEMMA PartValue ==
  ASSUME TimeTypes
  PROVE  Part = IF clock < Interval THEN 0 ELSE 1
<1>1. PICK d \in Int : /\ d = clock \div Interval
                       /\ Interval * d \in Int /\ Interval * d <= clock /\ clock < Interval * d + Interval
  BY Times DEF TimeTypes
<1>2. clock \in 0..2 * Interval - 1
  BY DEF TimeTypes
<1>3. d < 2
  <2>1. ASSUME d >= 2 PROVE Interval * d >= 2 * Interval
    BY Times, <2>1
  <2>2. QED
    BY Times, <1>1, <1>2, <2>1
<1>4. d >= 0
  <2>1. ASSUME d <= -1 PROVE Interval * d <= -Interval
    BY Times, <2>1
  <2>2. QED
    BY Times, <1>1, <1>2, <2>1
<1>5. d \in {0, 1}
  BY <1>3, <1>4
<1>6. d % 2 = d
  BY <1>5
<1>7. Part = d
  BY <1>1, <1>6 DEF Part
<1>8. d = IF clock < Interval THEN 0 ELSE 1
  <2>1. CASE d = 0
    BY Times, <1>1, <2>1
  <2>2. CASE d = 1
    <3>1. Interval * d = Interval
      BY Times, <2>2
    <3>2. Interval <= clock
      BY <1>1, <3>1
    <3>3. QED
      BY Times, <1>2, <2>2, <3>2
  <2>3. QED
    BY <1>5, <2>1, <2>2
<1>9. QED
  BY <1>7, <1>8

\* The remainder of a number that is not larger.
LEMMA ModValue ==
  ASSUME NEW m \in Nat \ {0}, NEW a \in 0..m
  PROVE  a % m = IF a = m THEN 0 ELSE a
<1>1. CASE a = m
  BY <1>1
<1>2. CASE a # m
  <2>1. a \in 0..m - 1
    BY <1>2
  <2>2. QED
    BY <1>2, <2>1
<1>3. QED
  BY <1>1, <1>2

\* An object that is referred to has an NF.
LEMMA RefersNf ==
  ASSUME ThreadTypes, Owned, NEW p \in Profiles, Referenced(p)
  PROVE  profile[p].nf \in Nfs
<1>1. CASE \E nf \in Nfs : instance_id2nrf_profile[nf] = p
  BY <1>1 DEF Owned
<1>2. CASE \E h \in Threads : http[h].p = p
  BY <1>2, Fields, WorksFields DEF Owned
<1>3. QED
  BY <1>1, <1>2 DEF Referenced

\* The suspended NFs of a part are removed.
LEMMA EraseFacts ==
  ASSUME TypeOK, EraseSuspended
  PROVE  /\ TypeOK'
         /\ tick = Resting /\ cleanup = 0
         /\ tick' \in Clears /\ tick'.pc = "clear" /\ tick'.p = NoProfile /\ tick'.nf = NoNf
         /\ \A m \in Nfs : instance_id2nrf_profile'[m] =
              IF m \in suspended_nf[1 - Part] THEN NoProfile ELSE instance_id2nrf_profile[m]
         /\ KeptWith(NoProfile, Blank, {})
         /\ UNCHANGED <<suspended_nf, subscriptions, timing, http, told, silence, deadline>>
<1>1. MapTypes /\ ObjectTypes /\ ThreadTypes /\ TimeTypes /\ ToldTypes
  BY TypeParts
<1>2. /\ tick = Resting /\ cleanup = 0 /\ Keep(profile, {})
      /\ instance_id2nrf_profile' = [nf \in Nfs |->
            IF nf \in suspended_nf[1 - Part] THEN NoProfile ELSE instance_id2nrf_profile[nf]]
      /\ UNCHANGED <<suspended_nf, subscriptions, timing, http, told, silence, deadline>>
  BY DEF EraseSuspended, CleanupSet
<1>3. PICK r : r = [Resting EXCEPT !.pc = "clear"]
  OBVIOUS
<1>4. r = [pc |-> "clear", nf |-> NoNf, p |-> NoProfile]
  BY <1>3 DEF Resting
<1>5. r \in Clears /\ r.pc = "clear" /\ r.p = NoProfile /\ r.nf = NoNf
  BY ONLY <1>4 DEF Clears
<1>6. tick' = r
  BY <1>3 DEF EraseSuspended
<1>7. /\ instance_id2nrf_profile' \in [Nfs -> Profiles \cup {NoProfile}]
      /\ \A m \in Nfs : instance_id2nrf_profile'[m] =
              IF m \in suspended_nf[1 - Part] THEN NoProfile ELSE instance_id2nrf_profile[m]
  BY <1>1, <1>2 DEF MapTypes
<1>8. ObjectTypes' /\ KeptWith(NoProfile, Blank, {})
  <2>1. profile \in [Profiles -> Objects]
    BY <1>1 DEF ObjectTypes
  <2>2. ObjectTypes'
    BY <1>1, <1>2, <2>1, KeepTypes
  <2>3. QED
    BY <1>2, <2>2, BlankFields DEF Keep, KeptWith
<1>9. TypeOK'
  BY <1>1, <1>2, <1>5, <1>6, <1>7, <1>8, TypePartsNext DEF MapTypes, ThreadTypes, TimeTypes, ToldTypes, timing
<1>10. QED
  BY <1>2, <1>5, <1>6, <1>7, <1>8, <1>9

\* That part is emptied.
LEMMA ClearFacts ==
  ASSUME TypeOK, ClearSuspended
  PROVE  /\ TypeOK'
         /\ tick \in Clears /\ tick.pc = "clear" /\ tick' = Resting /\ cleanup' = Interval
         /\ \A i \in 0..1 : i # 1 - Part => suspended_nf'[i] = suspended_nf[i]
         /\ \A i \in 0..1 : suspended_nf'[i] \subseteq suspended_nf[i]
         /\ UNCHANGED <<instance_id2nrf_profile, subscriptions, profile, clock, http, history>>
<1>1. MapTypes /\ ObjectTypes /\ ThreadTypes /\ TimeTypes /\ ToldTypes
  BY TypeParts
<1>2. /\ tick.pc = "clear" /\ tick' = Resting /\ cleanup' = Interval
      /\ suspended_nf' = [suspended_nf EXCEPT ![1 - Part] = {}]
      /\ UNCHANGED <<instance_id2nrf_profile, subscriptions, profile, clock, http, history>>
  BY DEF ClearSuspended
<1>3. tick \in Clears
  <2>1. tick # Resting /\ tick \notin Slots
    BY <1>2 DEF Resting, Slots
  <2>2. QED
    BY <1>1, <2>1, TickFields
<1>4. 1 - Part \in 0..1
  BY <1>1, PartValue
<1>5. /\ suspended_nf' \in [0..1 -> SUBSET Nfs]
      /\ \A i \in 0..1 : suspended_nf'[i] = IF i = 1 - Part THEN {} ELSE suspended_nf[i]
  BY <1>1, <1>2, <1>4 DEF MapTypes
<1>6. cleanup' \in 0..Interval
  BY <1>2, Times
<1>7. TypeOK'
  BY <1>1, <1>2, <1>5, <1>6, TypePartsNext
     DEF MapTypes, ObjectTypes, ThreadTypes, TimeTypes, ToldTypes, history
<1>8. QED
  BY <1>2, <1>3, <1>5, <1>7

\* The first time-out runs out.
LEMMA FirstTimeoutFacts ==
  ASSUME TypeOK, Owned, NEW p \in Profiles, handle_heartbeat_timeout_nfregistration(p)
  PROVE  /\ TypeOK'
         /\ tick = Resting /\ cleanup # 0 /\ profile[p].first_hb = 0
         /\ Referenced(p) /\ profile[p].nf \in Nfs
         /\ tick' \in Slots /\ tick'.p = p /\ tick'.nf = profile[p].nf
         /\ tick'.pc = IF profile[p].is_updated THEN "first_reset" ELSE "first_suspend"
         /\ OnlyObject(p)
         /\ LET o == profile[p] IN
            Becomes(p, o.nf_status, o.is_updated, o.first_update, FirstTimeout, o.hb_update)
         /\ UNCHANGED <<database, timing, http, history>>
<1>1. MapTypes /\ ObjectTypes /\ ThreadTypes /\ TimeTypes /\ ToldTypes
  BY TypeParts
<1>2. /\ tick = Resting /\ cleanup # 0 /\ profile[p].first_hb = 0
      /\ UNCHANGED <<database, timing, http, history>>
  BY DEF handle_heartbeat_timeout_nfregistration
<1>3. Referenced(p) /\ profile[p].nf \in Nfs
  <2>1. profile[p] # Blank
    BY <1>2, BlankObject, Times
  <2>2. QED
    BY <1>1, <2>1, RefersNf DEF Owned
<1>4. PICK o : o = [profile[p] EXCEPT !.first_hb = FirstTimeout]
  OBVIOUS
<1>5. profile' = [profile EXCEPT ![p] = o]
  BY <1>4 DEF handle_heartbeat_timeout_nfregistration
<1>6. /\ o \in Objects /\ o.nf = profile[p].nf /\ o.nf_status = profile[p].nf_status
      /\ o.is_updated = profile[p].is_updated /\ o.first_update = profile[p].first_update
      /\ o.first_hb = FirstTimeout /\ o.hb_update = profile[p].hb_update
  <2>1. profile[p] \in Objects /\ FirstTimeout \in Off..FirstTimeout /\ HeartBeat \in Off..FirstUpdateTimeout
    BY <1>1, Times DEF ObjectTypes
  <2>2. QED
    BY ONLY <1>4, <2>1 DEF Objects
<1>7. profile' \in [Profiles -> Objects] /\ OnlyObject(p) /\ profile'[p] = o
  BY <1>1, <1>5, <1>6, ObjectChange DEF OnlyObject
<1>8. /\ tick' \in Slots /\ tick'.p = p /\ tick'.nf = profile[p].nf
      /\ tick'.pc = IF profile[p].is_updated THEN "first_reset" ELSE "first_suspend"
  <2>1. PICK pc : pc = (IF profile[p].is_updated THEN "first_reset" ELSE "first_suspend")
    OBVIOUS
  <2>2. tick' = [pc |-> pc, nf |-> profile[p].nf, p |-> p]
    BY <2>1 DEF handle_heartbeat_timeout_nfregistration, SlotOf
  <2>3. pc \in {"first_reset", "first_suspend"}
    BY <2>1
  <2>4. QED
    BY <1>3, <2>1, <2>2, <2>3 DEF Slots
<1>9. TypeOK'
  BY <1>1, <1>2, <1>7, <1>8, TypePartsNext
     DEF MapTypes, ObjectTypes, ThreadTypes, TimeTypes, ToldTypes, database, timing, history
<1>10. QED
  BY <1>2, <1>3, <1>6, <1>7, <1>8, <1>9 DEF Becomes

\* The time-out after an update runs out.
LEMMA TimeoutFacts ==
  ASSUME TypeOK, Owned, NEW p \in Profiles, handle_heartbeat_timeout_nfupdate(p)
  PROVE  /\ TypeOK'
         /\ tick = Resting /\ cleanup # 0 /\ profile[p].hb_update = 0
         /\ Referenced(p) /\ profile[p].nf \in Nfs
         /\ tick' \in Slots /\ tick'.p = p /\ tick'.nf = profile[p].nf
         /\ tick'.pc = IF profile[p].is_updated THEN "reset" ELSE "suspend"
         /\ OnlyObject(p)
         /\ LET o == profile[p] IN
            Becomes(p, o.nf_status, o.is_updated, o.first_update, o.first_hb, HeartBeat)
         /\ UNCHANGED <<database, timing, http, history>>
<1>1. MapTypes /\ ObjectTypes /\ ThreadTypes /\ TimeTypes /\ ToldTypes
  BY TypeParts
<1>2. /\ tick = Resting /\ cleanup # 0 /\ profile[p].hb_update = 0
      /\ UNCHANGED <<database, timing, http, history>>
  BY DEF handle_heartbeat_timeout_nfupdate
<1>3. Referenced(p) /\ profile[p].nf \in Nfs
  <2>1. profile[p] # Blank
    BY <1>2, BlankObject, Times
  <2>2. QED
    BY <1>1, <2>1, RefersNf DEF Owned
<1>4. PICK o : o = [profile[p] EXCEPT !.hb_update = HeartBeat]
  OBVIOUS
<1>5. profile' = [profile EXCEPT ![p] = o]
  BY <1>4 DEF handle_heartbeat_timeout_nfupdate
<1>6. /\ o \in Objects /\ o.nf = profile[p].nf /\ o.nf_status = profile[p].nf_status
      /\ o.is_updated = profile[p].is_updated /\ o.first_update = profile[p].first_update
      /\ o.first_hb = profile[p].first_hb /\ o.hb_update = HeartBeat
  <2>1. profile[p] \in Objects /\ FirstTimeout \in Off..FirstTimeout /\ HeartBeat \in Off..FirstUpdateTimeout
    BY <1>1, Times DEF ObjectTypes
  <2>2. QED
    BY ONLY <1>4, <2>1 DEF Objects
<1>7. profile' \in [Profiles -> Objects] /\ OnlyObject(p) /\ profile'[p] = o
  BY <1>1, <1>5, <1>6, ObjectChange DEF OnlyObject
<1>8. /\ tick' \in Slots /\ tick'.p = p /\ tick'.nf = profile[p].nf
      /\ tick'.pc = IF profile[p].is_updated THEN "reset" ELSE "suspend"
  <2>1. PICK pc : pc = (IF profile[p].is_updated THEN "reset" ELSE "suspend")
    OBVIOUS
  <2>2. tick' = [pc |-> pc, nf |-> profile[p].nf, p |-> p]
    BY <2>1 DEF handle_heartbeat_timeout_nfupdate, SlotOf
  <2>3. pc \in {"reset", "suspend"}
    BY <2>1
  <2>4. QED
    BY <1>3, <2>1, <2>2, <2>3 DEF Slots
<1>9. TypeOK'
  BY <1>1, <1>2, <1>7, <1>8, TypePartsNext
     DEF MapTypes, ObjectTypes, ThreadTypes, TimeTypes, ToldTypes, database, timing, history
<1>10. QED
  BY <1>2, <1>3, <1>6, <1>7, <1>8, <1>9 DEF Becomes

\* A slot suspends its object.
LEMMA SuspendFacts ==
  ASSUME TypeOK, SetSuspended
  PROVE  /\ TypeOK'
         /\ tick \in Slots /\ tick.pc \in {"first_suspend", "suspend"}
         /\ tick' \in Slots /\ tick'.nf = tick.nf /\ tick'.p = tick.p
         /\ tick'.pc = IF tick.pc = "suspend" THEN "list" ELSE "first_list"
         /\ OnlyObject(tick.p)
         /\ tick.p \in Profiles =>
              LET o == profile[tick.p] IN
              Becomes(tick.p, "SUSPENDED", o.is_updated, o.first_update, o.first_hb,
                      IF tick.pc = "suspend" THEN Off ELSE o.hb_update)
         /\ disturbed' = IF tick.p \in Profiles /\ Busy(tick.nf) THEN disturbed \cup {tick.p} ELSE disturbed
         /\ UNCHANGED <<database, timing, http, told, silence, deadline>>
<1>1. MapTypes /\ ObjectTypes /\ ThreadTypes /\ TimeTypes /\ ToldTypes
  BY TypeParts
<1>2. /\ tick.pc \in {"first_suspend", "suspend"}
      /\ disturbed' = IF tick.p # NoProfile /\ Busy(tick.nf) THEN disturbed \cup {tick.p} ELSE disturbed
      /\ UNCHANGED <<database, timing, http, told, silence, deadline>>
  BY DEF SetSuspended
<1>3. tick \in Slots /\ tick.p \in Profiles \cup {NoProfile} /\ (tick.p # NoProfile <=> tick.p \in Profiles)
  BY <1>1, <1>2, TickFields, BlankFields
<1>4. /\ tick' \in Slots /\ tick'.nf = tick.nf /\ tick'.p = tick.p
      /\ tick'.pc = IF tick.pc = "suspend" THEN "list" ELSE "first_list"
  <2>1. PICK pc : pc = IF tick.pc = "suspend" THEN "list" ELSE "first_list"
    OBVIOUS
  <2>2. tick' = [tick EXCEPT !.pc = pc]
    BY <2>1 DEF SetSuspended
  <2>3. pc \in {"list", "first_list"}
    BY <2>1
  <2>4. QED
    BY <1>3, <2>1, <2>2, <2>3 DEF Slots
<1>5. /\ profile' \in [Profiles -> Objects] /\ OnlyObject(tick.p)
      /\ tick.p \in Profiles =>
           Becomes(tick.p, "SUSPENDED", profile[tick.p].is_updated, profile[tick.p].first_update,
                   profile[tick.p].first_hb, IF tick.pc = "suspend" THEN Off ELSE profile[tick.p].hb_update)
  <2>1. CASE tick.p = NoProfile
    <3>1. profile' = profile
      BY <2>1 DEF SetSuspended, InSlot
    <3>2. QED
      BY <1>1, <1>3, <2>1, <3>1 DEF ObjectTypes, OnlyObject
  <2>2. CASE tick.p \in Profiles
    <3>1. PICK q \in Profiles : q = tick.p
      BY <2>2
    <3>2. PICK t : t = IF tick.pc = "suspend" THEN Off ELSE profile[q].hb_update
      OBVIOUS
    <3>3. PICK o : o = [profile[q] EXCEPT !.nf_status = "SUSPENDED", !.hb_update = t]
      OBVIOUS
    <3>4. profile' = [profile EXCEPT ![q] = o]
      BY <1>3, <3>1, <3>2, <3>3 DEF SetSuspended, InSlot, Slot
    <3>5. profile[q] \in Objects /\ t \in Off..FirstUpdateTimeout
      BY <1>1, <3>2, ObjectFields, Times DEF ObjectTypes
    <3>6. /\ o \in Objects /\ o.nf = profile[q].nf /\ o.nf_status = "SUSPENDED"
          /\ o.is_updated = profile[q].is_updated /\ o.first_update = profile[q].first_update
          /\ o.first_hb = profile[q].first_hb /\ o.hb_update = t
      BY ONLY <3>3, <3>5 DEF Objects
    <3>7. profile' \in [Profiles -> Objects] /\ OnlyObject(q) /\ profile'[q] = o
      BY <1>1, <3>4, <3>6, ObjectChange DEF OnlyObject
    <3>8. QED
      BY <3>1, <3>2, <3>6, <3>7 DEF Becomes
  <2>3. QED
    BY <1>3, <2>1, <2>2
<1>6. disturbed' \subseteq Profiles
  BY <1>1, <1>2, <1>3 DEF ObjectTypes
<1>7. TypeOK'
  BY <1>1, <1>2, <1>4, <1>5, <1>6, TypePartsNext
     DEF MapTypes, ObjectTypes, ThreadTypes, TimeTypes, ToldTypes, database, timing
<1>8. QED
  BY <1>2, <1>3, <1>4, <1>5, <1>7

\* A slot puts its NF into the part of the suspended set in use.
LEMMA ListFacts ==
  ASSUME TypeOK, add_to_suspended_list
  PROVE  /\ TypeOK'
         /\ tick \in Slots /\ tick.pc \in {"first_list", "list"}
         /\ tick' \in Slots /\ tick'.nf = tick.nf /\ tick'.p = tick.p
         /\ tick'.pc = IF tick.pc = "list" THEN "reset" ELSE "first_reset"
         /\ \A i \in 0..1 : /\ suspended_nf[i] \subseteq suspended_nf'[i]
                           /\ suspended_nf'[i] \subseteq suspended_nf[i] \cup {tick.nf}
         /\ tick.p \in Profiles => tick.nf \in suspended_nf'[Part]
         /\ UNCHANGED <<instance_id2nrf_profile, subscriptions, profile, timing, http, history>>
<1>1. MapTypes /\ ObjectTypes /\ ThreadTypes /\ TimeTypes /\ ToldTypes
  BY TypeParts
<1>2. /\ tick.pc \in {"first_list", "list"}
      /\ UNCHANGED <<instance_id2nrf_profile, subscriptions, profile, timing, http, history>>
  BY DEF add_to_suspended_list
<1>3. tick \in Slots /\ tick.nf \in Nfs
  <2>1. tick \in Slots
    BY <1>1, <1>2, TickFields
  <2>2. QED
    BY <2>1 DEF Slots
<1>4. /\ tick' \in Slots /\ tick'.nf = tick.nf /\ tick'.p = tick.p
      /\ tick'.pc = IF tick.pc = "list" THEN "reset" ELSE "first_reset"
  <2>1. PICK pc : pc = IF tick.pc = "list" THEN "reset" ELSE "first_reset"
    OBVIOUS
  <2>2. tick' = [tick EXCEPT !.pc = pc]
    BY <2>1 DEF add_to_suspended_list
  <2>3. pc \in {"reset", "first_reset"}
    BY <2>1
  <2>4. QED
    BY <1>3, <2>1, <2>2, <2>3 DEF Slots
<1>5. Part \in 0..1 /\ suspended_nf \in [0..1 -> SUBSET Nfs]
  BY <1>1, PartValue DEF MapTypes
<1>6. /\ suspended_nf' \in [0..1 -> SUBSET Nfs]
      /\ \A i \in 0..1 : /\ suspended_nf[i] \subseteq suspended_nf'[i]
                        /\ suspended_nf'[i] \subseteq suspended_nf[i] \cup {tick.nf}
      /\ tick.p \in Profiles => tick.nf \in suspended_nf'[Part]
  <2>1. CASE suspended_nf' = [suspended_nf EXCEPT ![Part] = @ \cup {tick.nf}]
    <3>1. \A i \in 0..1 : suspended_nf'[i] = IF i = Part THEN suspended_nf[Part] \cup {tick.nf}
                                            ELSE suspended_nf[i]
      BY <1>5, <2>1
    <3>2. QED
      BY <1>3, <1>5, <2>1, <3>1
  <2>2. CASE tick.p = NoProfile /\ UNCHANGED suspended_nf
    BY <1>5, <2>2, BlankFields
  <2>3. QED
    BY <2>1, <2>2 DEF add_to_suspended_list
<1>7. TypeOK'
  BY <1>1, <1>2, <1>4, <1>6, TypePartsNext
     DEF MapTypes, ObjectTypes, ThreadTypes, TimeTypes, ToldTypes, timing, history
<1>8. QED
  BY <1>2, <1>3, <1>4, <1>6, <1>7

\* A slot ends.
LEMMA EndSlotFacts ==
  ASSUME TypeOK, EndSlot
  PROVE  /\ TypeOK'
         /\ tick \in Slots /\ tick.pc \in {"first_reset", "reset"} /\ tick' = Resting
         /\ OnlyObject(tick.p)
         /\ tick.p \in Profiles =>
              LET o == profile[tick.p] IN
              Becomes(tick.p, o.nf_status, FALSE, o.first_update,
                      IF tick.pc = "reset" THEN o.first_hb ELSE Off, o.hb_update)
         /\ UNCHANGED <<database, timing, http, history>>
<1>1. MapTypes /\ ObjectTypes /\ ThreadTypes /\ TimeTypes /\ ToldTypes
  BY TypeParts
<1>2. /\ tick.pc \in {"first_reset", "reset"} /\ tick' = Resting
      /\ UNCHANGED <<database, timing, http, history>>
  BY DEF EndSlot
<1>3. tick \in Slots /\ tick.p \in Profiles \cup {NoProfile} /\ (tick.p # NoProfile <=> tick.p \in Profiles)
  BY <1>1, <1>2, TickFields, BlankFields
<1>4. /\ profile' \in [Profiles -> Objects] /\ OnlyObject(tick.p)
      /\ tick.p \in Profiles =>
           Becomes(tick.p, profile[tick.p].nf_status, FALSE, profile[tick.p].first_update,
                   IF tick.pc = "reset" THEN profile[tick.p].first_hb ELSE Off, profile[tick.p].hb_update)
  <2>1. CASE tick.p = NoProfile
    <3>1. profile' = profile
      BY <2>1 DEF EndSlot, InSlot
    <3>2. QED
      BY <1>1, <1>3, <2>1, <3>1 DEF ObjectTypes, OnlyObject
  <2>2. CASE tick.p \in Profiles
    <3>1. PICK q \in Profiles : q = tick.p
      BY <2>2
    <3>2. PICK t : t = IF tick.pc = "reset" THEN profile[q].first_hb ELSE Off
      OBVIOUS
    <3>3. PICK o : o = [profile[q] EXCEPT !.is_updated = FALSE, !.first_hb = t]
      OBVIOUS
    <3>4. profile' = [profile EXCEPT ![q] = o]
      BY <1>3, <3>1, <3>2, <3>3 DEF EndSlot, InSlot, Slot
    <3>5. profile[q] \in Objects /\ t \in Off..FirstTimeout
      BY <1>1, <3>2, ObjectFields, Times DEF ObjectTypes
    <3>6. /\ o \in Objects /\ o.nf = profile[q].nf /\ o.nf_status = profile[q].nf_status
          /\ o.is_updated = FALSE /\ o.first_update = profile[q].first_update
          /\ o.first_hb = t /\ o.hb_update = profile[q].hb_update
      BY ONLY <3>3, <3>5 DEF Objects
    <3>7. profile' \in [Profiles -> Objects] /\ OnlyObject(q) /\ profile'[q] = o
      BY <1>1, <3>4, <3>6, ObjectChange DEF OnlyObject
    <3>8. QED
      BY <3>1, <3>2, <3>6, <3>7 DEF Becomes
  <2>3. QED
    BY <1>3, <2>1, <2>2
<1>5. TypeOK'
  BY <1>1, <1>2, <1>4, TypePartsNext
     DEF MapTypes, ObjectTypes, ThreadTypes, TimeTypes, ToldTypes, database, timing, history
<1>6. QED
  BY <1>2, <1>3, <1>4, <1>5

\* Time passes for every object and every NF.
LEMMA PassFacts ==
  ASSUME TypeOK, TimePasses
  PROVE  /\ TypeOK'
         /\ (\A h \in Threads : http[h] = Idle) /\ tick = Resting /\ cleanup >= 1
         /\ \A p \in Profiles : profile[p].first_hb # 0 /\ profile[p].hb_update # 0
         /\ \A p \in Profiles :
              LET o == profile[p] IN
              Becomes(p, o.nf_status, o.is_updated, o.first_update, Down(o.first_hb), Down(o.hb_update))
         /\ clock' = (IF clock + 1 = 2 * Interval THEN 0 ELSE clock + 1) /\ cleanup' = cleanup - 1
         /\ \A m \in Nfs : silence'[m] <= silence[m] + 1
         /\ \A m \in Nfs : deadline'[m] = Down(deadline[m])
         /\ UNCHANGED <<database, http, tick, told, disturbed>>
<1>1. MapTypes /\ ObjectTypes /\ ThreadTypes /\ TimeTypes /\ ToldTypes
  BY TypeParts
<1>2. /\ (\A h \in Threads : http[h] = Idle) /\ tick = Resting /\ ~Due
      /\ clock' = (clock + 1) % (2 * Interval) /\ cleanup' = cleanup - 1
      /\ UNCHANGED <<database, http, tick, told, disturbed>>
  BY DEF TimePasses
<1>3. cleanup # 0 /\ \A p \in Profiles : profile[p].first_hb # 0 /\ profile[p].hb_update # 0
  BY <1>2 DEF Due
<1>4. /\ clock' = (IF clock + 1 = 2 * Interval THEN 0 ELSE clock + 1)
      /\ clock' \in 0..2 * Interval - 1 /\ cleanup' \in 0..Interval /\ cleanup >= 1
  <2>1. PICK c \in Nat, n \in Nat \ {0} : c = clock + 1 /\ n = 2 * Interval /\ c <= n
    BY <1>1, Times DEF TimeTypes
  <2>2. c % n = IF c = n THEN 0 ELSE c
    BY <2>1, ModValue
  <2>3. clock' = (IF clock + 1 = 2 * Interval THEN 0 ELSE clock + 1)
    BY <1>2, <2>1, <2>2
  <2>4. QED
    BY <1>1, <1>2, <1>3, <2>3, Times DEF TimeTypes
<1>5. ASSUME NEW p \in Profiles
      PROVE  /\ profile'[p] \in Objects
             /\ Becomes(p, profile[p].nf_status, profile[p].is_updated, profile[p].first_update,
                        Down(profile[p].first_hb), Down(profile[p].hb_update))
  <2>1. profile[p] \in Objects
    BY <1>1 DEF ObjectTypes
  <2>2. PICK s, t : s = Down(profile[p].first_hb) /\ t = Down(profile[p].hb_update)
    OBVIOUS
  <2>3. s \in Off..FirstTimeout /\ t \in Off..FirstUpdateTimeout
    BY <1>3, <2>1, <2>2, ObjectFields, Times DEF Down
  <2>4. PICK o : o = [profile[p] EXCEPT !.first_hb = s, !.hb_update = t]
    OBVIOUS
  <2>5. profile'[p] = o
    BY <2>2, <2>4 DEF TimePasses
  <2>6. /\ o \in Objects /\ o.nf = profile[p].nf /\ o.nf_status = profile[p].nf_status
        /\ o.is_updated = profile[p].is_updated /\ o.first_update = profile[p].first_update
        /\ o.first_hb = s /\ o.hb_update = t
    BY ONLY <2>1, <2>3, <2>4 DEF Objects
  <2>7. QED
    BY <2>2, <2>5, <2>6 DEF Becomes
<1>6. ObjectTypes'
  <2>1. profile' = [p \in Profiles |-> profile'[p]]
    BY DEF TimePasses
  <2>2. QED
    BY <1>1, <1>2, <1>5, <2>1 DEF ObjectTypes
<1>7. silence' \in [Nfs -> 0..Forgotten + 1] /\ \A m \in Nfs : silence'[m] <= silence[m] + 1
  <2>1. silence \in [Nfs -> 0..Forgotten + 1]
    BY <1>1 DEF TimeTypes
  <2>2. silence' = [nf \in Nfs |-> IF silence[nf] > Forgotten THEN silence[nf] ELSE silence[nf] + 1]
    BY DEF TimePasses
  <2>3. QED
    BY <2>1, <2>2, Times
<1>8. deadline' \in [Nfs -> Late..HeartBeat + Slack - 1] /\ \A m \in Nfs : deadline'[m] = Down(deadline[m])
  <2>1. deadline \in [Nfs -> Late..HeartBeat + Slack - 1]
    BY <1>1 DEF TimeTypes
  <2>2. deadline' = [nf \in Nfs |-> Down(deadline[nf])]
    BY DEF TimePasses
  <2>3. \A m \in Nfs : Down(deadline[m]) \in Late..HeartBeat + Slack - 1
    BY <2>1, Times DEF Down
  <2>4. QED
    BY <2>2, <2>3
<1>9. TypeOK'
  BY <1>1, <1>2, <1>4, <1>6, <1>7, <1>8, TypePartsNext
     DEF MapTypes, ThreadTypes, TimeTypes, ToldTypes, database
<1>10. QED
  BY <1>2, <1>3, <1>4, <1>5, <1>7, <1>8, <1>9

-----------------------------------------------------------------------------
(* What refers to an object agrees on whose it is.                          *)

\* A step that leaves the map: what comes to refer to an object found it there.
LEMMA OwnedStays ==
  ASSUME TypeOK, TypeOK', Owned, UNCHANGED instance_id2nrf_profile,
         \A h \in Threads : http'[h].p \in Profiles =>
           \/ http'[h].p = http[h].p /\ http'[h].nf = http[h].nf
           \/ http'[h].nf \in Nfs /\ http'[h].p = instance_id2nrf_profile[http'[h].nf],
         \A h \in Threads : http[h].p \in Profiles => http'[h].p = http[h].p,
         \A p \in Profiles : profile'[p].nf = profile[p].nf,
         \A p \in Profiles : ~Referenced(p) => profile'[p] = profile[p] /\ (p \in disturbed' => p \in disturbed),
         tick'.p \in Profiles => Referenced(tick'.p) /\ profile[tick'.p].nf = tick'.nf
  PROVE  Owned' /\ \A p \in Profiles : Referenced(p)' <=> Referenced(p)
<1>1. \A p \in Profiles : Referenced(p)' <=> Referenced(p)
  BY DEF Referenced
<1>2. \A nf \in Nfs : instance_id2nrf_profile'[nf] \in Profiles =>
        profile'[instance_id2nrf_profile'[nf]].nf = nf
  BY DEF Owned
<1>3. \A h \in Threads : http'[h].p \in Profiles => profile'[http'[h].p].nf = http'[h].nf
  BY DEF Owned
<1>4. tick'.p \in Profiles => Referenced(tick.p)' /\ profile'[tick'.p].nf = tick'.nf
  <2>1. SUFFICES ASSUME tick'.p \in Profiles PROVE Referenced(tick.p)' /\ profile'[tick'.p].nf = tick'.nf
    OBVIOUS
  <2>2. PICK p \in Profiles : p = tick'.p
    BY <2>1
  <2>3. Referenced(p)' /\ profile'[p].nf = tick'.nf
    BY <1>1, <2>1, <2>2
  <2>4. QED
    BY <2>2, <2>3 DEF Referenced
<1>5. \A p \in Profiles : ~Referenced(p)' => profile'[p] = Blank /\ p \notin disturbed'
  BY <1>1 DEF Owned
<1>6. QED
  BY <1>1, <1>2, <1>3, <1>4, <1>5 DEF Owned, Referenced

\* A step that keeps the objects referred to, with new in the place of q.
LEMMA OwnedKept ==
  ASSUME TypeOK, TypeOK', Owned, NEW q, NEW new, NEW marked, KeptWith(q, new, marked),
         SlotStays \/ tick'.p = NoProfile,
         tick.p = q /\ q \in Profiles => new.nf = profile[q].nf,
         \A nf \in Nfs : instance_id2nrf_profile'[nf] \in Profiles =>
           IF instance_id2nrf_profile'[nf] = q THEN new.nf = nf
           ELSE instance_id2nrf_profile'[nf] = instance_id2nrf_profile[nf],
         \A h \in Threads : http'[h].p \in Profiles =>
           IF http'[h].p = q THEN new.nf = http'[h].nf
           ELSE http'[h].p = http[h].p /\ http'[h].nf = http[h].nf
  PROVE  Owned'
<1>1. \A nf \in Nfs : instance_id2nrf_profile'[nf] \in Profiles =>
        profile'[instance_id2nrf_profile'[nf]].nf = nf
  BY DEF Owned, KeptWith, Referenced
<1>2. \A h \in Threads : http'[h].p \in Profiles => profile'[http'[h].p].nf = http'[h].nf
  BY DEF Owned, KeptWith, Referenced
<1>3. tick'.p \in Profiles => Referenced(tick.p)' /\ profile'[tick'.p].nf = tick'.nf
  <2>1. SUFFICES ASSUME tick'.p \in Profiles PROVE Referenced(tick.p)' /\ profile'[tick'.p].nf = tick'.nf
    OBVIOUS
  <2>2. PICK p \in Profiles : p = tick'.p
    BY <2>1
  <2>3. tick.p = p /\ tick'.nf = tick.nf /\ Referenced(p)'
    BY <2>1, <2>2, BlankFields DEF SlotStays
  <2>4. profile[p].nf = tick.nf
    BY <2>3 DEF Owned
  <2>5. profile'[p].nf = tick'.nf
    BY <2>3, <2>4 DEF KeptWith
  <2>6. QED
    BY <2>2, <2>3, <2>5 DEF Referenced
<1>4. \A p \in Profiles : ~Referenced(p)' => profile'[p] = Blank /\ p \notin disturbed'
  BY DEF KeptWith
<1>5. QED
  BY <1>1, <1>2, <1>3, <1>4 DEF Owned, Referenced

\* A request begins: an idle thread takes the object of its NF.
LEMMA OwnedStarts ==
  ASSUME TypeOK, TypeOK', Owned, NEW h \in Threads, NEW nf \in Nfs,
         http[h] = Idle, http'[h].nf = nf, http'[h].p = instance_id2nrf_profile[nf], OnlyThread(h),
         UNCHANGED <<instance_id2nrf_profile, tick>>,
         \A p \in Profiles : profile'[p].nf = profile[p].nf,
         \A p \in Profiles : ~Referenced(p) => profile'[p] = profile[p] /\ (p \in disturbed' => p \in disturbed)
  PROVE  Owned'
<1>1. tick'.p \in Profiles => Referenced(tick'.p) /\ profile[tick'.p].nf = tick'.nf
  BY DEF Owned
<1>2. \A g \in Threads : http'[g].p \in Profiles =>
        \/ http'[g].p = http[g].p /\ http'[g].nf = http[g].nf
        \/ http'[g].nf \in Nfs /\ http'[g].p = instance_id2nrf_profile[http'[g].nf]
  BY DEF OnlyThread
<1>3. \A g \in Threads : http[g].p \in Profiles => http'[g].p = http[g].p
  BY BlankFields DEF OnlyThread
<1>4. QED
  BY <1>1, <1>2, <1>3, OwnedStays

\* A request goes on with its object.
LEMMA OwnedGoesOn ==
  ASSUME TypeOK, TypeOK', Owned, NEW h \in Threads,
         http[h] \in Works, http'[h].nf = http[h].nf, http'[h].p = http[h].p, OnlyThread(h),
         UNCHANGED <<database, tick, history>>, OnlyObject(http[h].p),
         profile'[http[h].p].nf = profile[http[h].p].nf
  PROVE  Owned'
<1>1. tick'.p \in Profiles => Referenced(tick'.p) /\ profile[tick'.p].nf = tick'.nf
  BY DEF Owned
<1>2. \A p \in Profiles : profile'[p].nf = profile[p].nf
  BY DEF OnlyObject
<1>3. \A p \in Profiles : ~Referenced(p) => profile'[p] = profile[p] /\ (p \in disturbed' => p \in disturbed)
  BY DEF OnlyObject, Referenced, history
<1>4. \A g \in Threads : http'[g].p = http[g].p /\ http'[g].nf = http[g].nf
  BY DEF OnlyThread
<1>5. QED
  BY <1>1, <1>2, <1>3, <1>4, OwnedStays DEF database

\* The requests.
LEMMA OwnedThreads ==
  ASSUME TypeOK, Owned, NEW h \in Threads, HttpThread(h)
  PROVE  TypeOK' /\ Owned'
<1>1. ASSUME NEW nf \in Nfs, Register(h, nf) PROVE TypeOK' /\ Owned'
  <2>1. TypeOK'
    BY <1>1, RegisterFacts
  <2>2. PICK p \in Profiles :
          /\ ~Referenced(p)
          /\ instance_id2nrf_profile' = [instance_id2nrf_profile EXCEPT ![nf] = p]
          /\ http'[h] \in Works /\ http'[h].pc = "arm" /\ http'[h].nf = nf /\ http'[h].p = p
          /\ KeptWith(p, [profile[p] EXCEPT !.nf = nf], {})
    BY <1>1, RegisterFacts
  <2>3. http[h] = Idle /\ OnlyThread(h) /\ SlotStays
    BY <1>1, RegisterFacts
  <2>4. PICK o : o = [profile[p] EXCEPT !.nf = nf]
    OBVIOUS
  <2>5. o.nf = nf
    BY <2>4, TypeParts DEF ObjectTypes, Objects
  <2>6. tick.p # p
    BY <2>2 DEF Owned
  <2>7. \A m \in Nfs : instance_id2nrf_profile'[m] \in Profiles =>
          IF instance_id2nrf_profile'[m] = p THEN o.nf = m
          ELSE instance_id2nrf_profile'[m] = instance_id2nrf_profile[m]
    BY <2>2, <2>5, TypeParts DEF MapTypes, Referenced
  <2>8. \A g \in Threads : http'[g].p \in Profiles =>
          IF http'[g].p = p THEN o.nf = http'[g].nf ELSE http'[g].p = http[g].p /\ http'[g].nf = http[g].nf
    BY <2>2, <2>3, <2>5 DEF OnlyThread, Referenced
  <2>9. KeptWith(p, o, {})
    BY <2>2, <2>4
  <2>10. QED
    BY <2>1, <2>3, <2>6, <2>7, <2>8, <2>9, OwnedKept
<1>2. ASSUME NEW nf \in Nfs, Heartbeat(h, nf) PROVE TypeOK' /\ Owned'
  <2>1. /\ TypeOK' /\ instance_id2nrf_profile[nf] \in Profiles
        /\ http[h] = Idle /\ http'[h].nf = nf /\ http'[h].p = instance_id2nrf_profile[nf] /\ OnlyThread(h)
        /\ OnlyObject(instance_id2nrf_profile[nf])
        /\ profile'[instance_id2nrf_profile[nf]].nf = profile[instance_id2nrf_profile[nf]].nf
        /\ disturbed' = IF profile[instance_id2nrf_profile[nf]].nf_status = "SUSPENDED"
                        THEN disturbed \cup {instance_id2nrf_profile[nf]} ELSE disturbed
        /\ UNCHANGED <<instance_id2nrf_profile, tick>>
    BY <1>2, HeartbeatFacts DEF Becomes, database
  <2>2. \A p \in Profiles : profile'[p].nf = profile[p].nf
    BY <2>1 DEF OnlyObject
  <2>3. \A p \in Profiles : ~Referenced(p) => profile'[p] = profile[p] /\ (p \in disturbed' => p \in disturbed)
    BY <2>1 DEF OnlyObject, Referenced
  <2>4. QED
    BY <2>1, <2>2, <2>3, OwnedStarts
<1>3. ASSUME NEW nf \in Nfs, ChangeProfile(h, nf) PROVE TypeOK' /\ Owned'
  <2>1. /\ TypeOK' /\ http[h] = Idle /\ http'[h].nf = nf /\ http'[h].p = instance_id2nrf_profile[nf]
        /\ OnlyThread(h) /\ UNCHANGED <<instance_id2nrf_profile, tick, profile, disturbed>>
    BY <1>3, ChangeFacts DEF database
  <2>2. QED
    BY <2>1, OwnedStarts
<1>4. ASSUME NEW nf \in Nfs, Deregister(h, nf) PROVE TypeOK' /\ Owned'
  <2>1. /\ TypeOK' /\ http[h] = Idle /\ http'[h].nf = nf /\ http'[h].p = instance_id2nrf_profile[nf]
        /\ OnlyThread(h) /\ UNCHANGED <<instance_id2nrf_profile, tick, profile, disturbed>>
    BY <1>4, DeregisterFacts DEF database
  <2>2. QED
    BY <2>1, OwnedStarts
<1>5. CASE subscribe_heartbeat_timeout_nfregistration(h)
  BY <1>5, ArmFacts, OwnedGoesOn DEF Becomes
<1>6. CASE nf_status_registered(h)
  <2>1. /\ TypeOK' /\ http[h] \in Works /\ http'[h] = Idle /\ OnlyThread(h) /\ SlotStays
        /\ KeptWith(http[h].p, profile[http[h].p], {}) /\ UNCHANGED instance_id2nrf_profile
    BY <1>6, NotifyFacts DEF database
  <2>2. QED
    BY <2>1, WorksFields, BlankFields, OwnedKept DEF OnlyThread, Owned
<1>7. CASE update_nf_profile(h)
  <2>1. PICK marked :
          /\ marked = IF instance_id2nrf_profile[http[h].nf] \in {http[h].p, NoProfile} THEN {}
                      ELSE {http[h].p}
          /\ KeptWith(http[h].p, profile[http[h].p], marked)
    <3>1. PICK marked : marked = IF instance_id2nrf_profile[http[h].nf] \in {http[h].p, NoProfile} THEN {}
                                 ELSE {http[h].p}
      OBVIOUS
    <3>2. KeptWith(http[h].p, profile[http[h].p],
                   IF instance_id2nrf_profile[http[h].nf] \in {http[h].p, NoProfile} THEN {}
                   ELSE {http[h].p})
      BY <1>7, UpdateFacts, Zenon
    <3>3. QED
      BY <3>1, <3>2
  <2>2. /\ TypeOK' /\ http[h] \in Works /\ OnlyThread(h) /\ SlotStays
        /\ \/ http'[h] = Idle
           \/ http'[h].nf = http[h].nf /\ http'[h].p = http[h].p
        /\ \A m \in Nfs : instance_id2nrf_profile'[m] =
             IF m = http[h].nf /\ instance_id2nrf_profile[m] # NoProfile THEN http[h].p
             ELSE instance_id2nrf_profile[m]
    BY <1>7, UpdateFacts
  <2>3. \A m \in Nfs : instance_id2nrf_profile'[m] \in Profiles =>
          IF instance_id2nrf_profile'[m] = http[h].p THEN profile[http[h].p].nf = m
          ELSE instance_id2nrf_profile'[m] = instance_id2nrf_profile[m]
    BY <2>2, WorksFields DEF Owned
  <2>4. \A g \in Threads : http'[g].p \in Profiles =>
          IF http'[g].p = http[h].p THEN profile[http[h].p].nf = http'[g].nf
          ELSE http'[g].p = http[g].p /\ http'[g].nf = http[g].nf
    BY <2>2, WorksFields, BlankFields DEF Owned, OnlyThread
  <2>5. QED
    BY <2>1, <2>2, <2>3, <2>4, OwnedKept
<1>8. CASE unsubscribe_heartbeat_timeout_nfregistration(h)
  BY <1>8, UnsubscribeFacts, OwnedGoesOn DEF Becomes
<1>9. CASE Subscribe(h)
  BY <1>9, SubscribeFacts, OwnedGoesOn DEF Becomes
<1>10. CASE EndHeartbeat(h)
  <2>1. PICK o \in Objects : KeptWith(http[h].p, o, {}) /\ o.nf = profile[http[h].p].nf
    BY <1>10, FlagFacts
  <2>2. /\ TypeOK' /\ http[h] \in Works /\ http'[h] = Idle /\ OnlyThread(h) /\ SlotStays
        /\ UNCHANGED instance_id2nrf_profile
    BY <1>10, FlagFacts
  <2>3. \A g \in Threads : http'[g].p \in Profiles =>
          IF http'[g].p = http[h].p THEN o.nf = http'[g].nf
          ELSE http'[g].p = http[g].p /\ http'[g].nf = http[g].nf
    BY <2>1, <2>2, BlankFields DEF Owned, OnlyThread
  <2>4. \A m \in Nfs : instance_id2nrf_profile'[m] \in Profiles =>
          IF instance_id2nrf_profile'[m] = http[h].p THEN o.nf = m
          ELSE instance_id2nrf_profile'[m] = instance_id2nrf_profile[m]
    BY <2>1, <2>2 DEF Owned
  <2>5. QED
    BY <2>1, <2>2, <2>3, <2>4, OwnedKept
<1>11. CASE remove_nf_profile(h)
  <2>1. /\ TypeOK' /\ http[h] \in Works /\ http'[h] = Idle /\ OnlyThread(h) /\ SlotStays
        /\ KeptWith(http[h].p, profile[http[h].p], {})
        /\ \A m \in Nfs : instance_id2nrf_profile'[m] =
             IF m = http[h].nf THEN NoProfile ELSE instance_id2nrf_profile[m]
    BY <1>11, RemoveFacts
  <2>2. QED
    BY <2>1, WorksFields, BlankFields, OwnedKept DEF OnlyThread, Owned
<1>12. ASSUME NEW s \in Subs, CreateSubscription(h, s) PROVE TypeOK' /\ Owned'
  <2>1. /\ TypeOK' /\ http[h] = Idle /\ http'[h] \in Finds /\ OnlyThread(h)
        /\ UNCHANGED <<instance_id2nrf_profile, tick, profile, disturbed>>
    BY <1>12, CreateFacts DEF history
  <2>2. http[h].p = NoProfile /\ http'[h].p = NoProfile
    BY <2>1, BlankFields DEF Finds
  <2>3. QED
    BY <2>1, <2>2, BlankFields, OwnedStays DEF OnlyThread, Owned
<1>13. ASSUME NEW s \in Subs, RemoveSubscription(h, s) PROVE TypeOK' /\ Owned'
  <2>1. TypeOK' /\ UNCHANGED <<instance_id2nrf_profile, tick, profile, disturbed, http>>
    BY <1>13, UnsubscriptionFacts
  <2>2. QED
    BY <2>1, OwnedStays DEF Owned
<1>14. CASE find_nf_profiles(h)
  <2>1. /\ TypeOK' /\ http'[h] = Idle /\ http[h] \in Finds /\ OnlyThread(h)
        /\ UNCHANGED <<instance_id2nrf_profile, tick, profile, disturbed>>
    BY <1>14, FindFacts DEF database
  <2>2. http[h].p = NoProfile /\ http'[h].p = NoProfile
    BY <2>1, BlankFields DEF Finds
  <2>3. QED
    BY <2>1, <2>2, BlankFields, OwnedStays DEF OnlyThread, Owned
<1>15. QED
  BY <1>1, <1>2, <1>3, <1>4, <1>5, <1>6, <1>7, <1>8, <1>9, <1>10, <1>11, <1>12, <1>13, <1>14 DEF HttpThread

\* A slot leaves the requests and the map as they are.
LEMMA OwnedSlots ==
  ASSUME TypeOK, TypeOK', Owned, NEW q, UNCHANGED <<instance_id2nrf_profile, http>>, OnlyObject(q),
         q \in Profiles => Referenced(q) /\ profile'[q].nf = profile[q].nf,
         \A p \in Profiles : ~Referenced(p) => (p \in disturbed' => p \in disturbed),
         tick'.p \in Profiles => Referenced(tick'.p) /\ profile[tick'.p].nf = tick'.nf
  PROVE  Owned'
<1>1. \A p \in Profiles : profile'[p].nf = profile[p].nf
  BY DEF OnlyObject
<1>2. \A p \in Profiles : ~Referenced(p) => profile'[p] = profile[p] /\ (p \in disturbed' => p \in disturbed)
  BY DEF OnlyObject
<1>3. QED
  BY <1>1, <1>2, OwnedStays

\* The tick task.
LEMMA OwnedTicks ==
  ASSUME TypeOK, Owned, TickTask
  PROVE  TypeOK' /\ Owned'
<1>1. CASE EraseSuspended
  <2>1. /\ TypeOK' /\ tick'.p = NoProfile /\ KeptWith(NoProfile, Blank, {}) /\ UNCHANGED http
        /\ \A m \in Nfs : instance_id2nrf_profile'[m] \in {NoProfile, instance_id2nrf_profile[m]}
    BY <1>1, EraseFacts
  <2>2. QED
    BY <2>1, BlankFields, OwnedKept
<1>2. CASE ClearSuspended
  <2>1. TypeOK' /\ tick'.p = NoProfile /\ UNCHANGED <<instance_id2nrf_profile, profile, http, disturbed>>
    BY <1>2, ClearFacts, BlankFields DEF history
  <2>2. QED
    BY <2>1, BlankFields, OwnedSlots DEF OnlyObject
<1>3. ASSUME NEW p \in Profiles, handle_heartbeat_timeout_nfregistration(p) PROVE TypeOK' /\ Owned'
  BY <1>3, FirstTimeoutFacts, OwnedSlots DEF Becomes, database, history
<1>4. ASSUME NEW p \in Profiles, handle_heartbeat_timeout_nfupdate(p) PROVE TypeOK' /\ Owned'
  BY <1>4, TimeoutFacts, OwnedSlots DEF Becomes, database, history
<1>5. CASE SetSuspended
  <2>1. /\ TypeOK' /\ tick'.p = tick.p /\ tick'.nf = tick.nf /\ OnlyObject(tick.p)
        /\ UNCHANGED <<instance_id2nrf_profile, http>>
    BY <1>5, SuspendFacts DEF database
  <2>2. tick.p \in Profiles => profile'[tick.p].nf = profile[tick.p].nf
    BY <1>5, SuspendFacts DEF Becomes
  <2>3. disturbed' \subseteq disturbed \cup {tick.p}
    BY <1>5, SuspendFacts
  <2>4. \A p \in Profiles : ~Referenced(p) => (p \in disturbed' => p \in disturbed)
    BY <2>3 DEF Owned
  <2>5. tick.p \in Profiles => Referenced(tick.p) /\ profile[tick.p].nf = tick.nf
    BY DEF Owned
  <2>6. QED
    BY <2>1, <2>2, <2>4, <2>5, OwnedSlots
<1>6. CASE add_to_suspended_list
  <2>1. /\ TypeOK' /\ tick'.p = tick.p /\ tick'.nf = tick.nf
        /\ UNCHANGED <<instance_id2nrf_profile, profile, http, disturbed>>
    BY <1>6, ListFacts DEF history
  <2>2. tick.p \in Profiles => Referenced(tick.p) /\ profile[tick.p].nf = tick.nf
    BY DEF Owned
  <2>3. QED
    BY <2>1, <2>2, OwnedSlots DEF OnlyObject
<1>7. CASE EndSlot
  <2>1. /\ TypeOK' /\ tick'.p = NoProfile /\ OnlyObject(tick.p)
        /\ UNCHANGED <<instance_id2nrf_profile, http, disturbed>>
    BY <1>7, EndSlotFacts, BlankFields DEF database, history
  <2>2. tick.p \in Profiles => profile'[tick.p].nf = profile[tick.p].nf
    BY <1>7, EndSlotFacts DEF Becomes
  <2>3. tick.p \in Profiles => Referenced(tick.p)
    BY DEF Owned
  <2>4. QED
    BY <2>1, <2>2, <2>3, BlankFields, OwnedSlots
<1>8. QED
  BY <1>1, <1>2, <1>3, <1>4, <1>5, <1>6, <1>7 DEF TickTask

\* A blank object stays blank as time passes.
LEMMA OwnedPass ==
  ASSUME TypeOK, Owned, TimePasses
  PROVE  TypeOK' /\ Owned'
<1>1. TypeOK' /\ UNCHANGED <<instance_id2nrf_profile, http, tick, disturbed>>
  BY PassFacts DEF database
<1>2. \A p \in Profiles : profile'[p].nf = profile[p].nf
  BY PassFacts DEF Becomes
<1>3. ASSUME NEW p \in Profiles, ~Referenced(p) PROVE profile'[p] = profile[p]
  <2>1. profile[p] = Blank
    BY <1>3 DEF Owned
  <2>2. profile' = [q \in Profiles |-> [profile[q] EXCEPT !.first_hb = Down(@), !.hb_update = Down(@)]]
    BY DEF TimePasses
  <2>3. profile'[p] = [Blank EXCEPT !.first_hb = Down(@), !.hb_update = Down(@)]
    BY <2>1, <2>2
  <2>4. QED
    BY <2>1, <2>3 DEF Blank, Down
<1>4. tick.p \in Profiles => Referenced(tick.p) /\ profile[tick.p].nf = tick.nf
  BY DEF Owned
<1>5. QED
  BY <1>1, <1>2, <1>3, <1>4, OwnedStays

\* Every step keeps the types and what refers to an object.
LEMMA OwnedNext ==
  ASSUME TypeOK, Owned, [Next]_vars
  PROVE  TypeOK' /\ Owned'
<1>1. CASE Next
  BY <1>1, OwnedThreads, OwnedTicks, OwnedPass DEF Next
<1>2. CASE UNCHANGED vars
  BY <1>2 DEF vars, database, timing, history, TypeOK, Owned, Referenced
<1>3. QED
  BY <1>1, <1>2

\* No NF is there to begin with.
LEMMA OwnedInit ==
  ASSUME Init
  PROVE  TypeOK /\ Owned
<1>1. TypeOK
  <2>1. profile \in [Profiles -> Objects]
    BY BlankObject DEF Init
  <2>2. disturbed = {} /\ ObjectTypes
    BY <2>1 DEF Init, ObjectTypes
  <2>3. MapTypes /\ ThreadTypes /\ ToldTypes
    BY DEF Init, MapTypes, ThreadTypes, ToldTypes
  <2>4. TimeTypes
    BY Times, TimesAssumption DEF Init, TimeTypes
  <2>5. QED
    BY <2>2, <2>3, <2>4, TypeParts
<1>2. Owned
  BY BlankFields DEF Init, Owned
<1>3. QED
  BY <1>1, <1>2

-----------------------------------------------------------------------------
(* Subscribers.                                                             *)

\* No profile comes to be there or comes back undisturbed, none is suspended.
Quiet ==
    /\ \A nf \in Nfs : Steady(nf)' /\ Active(nf)' => Steady(nf) /\ Active(nf)
    /\ \A p \in Profiles : Referenced(p)' =>
         /\ profile'[p].nf_status \in {profile[p].nf_status, "REGISTERED"}
         /\ p \in disturbed => p \in disturbed'

\* Nothing happens to the map and the status of objects.
LEMMA QuietCalm ==
  ASSUME TypeOK, TypeOK', UNCHANGED <<instance_id2nrf_profile, disturbed>>,
         \A p \in Profiles : profile'[p].nf_status = profile[p].nf_status
  PROVE  Quiet
BY DEF Quiet, Steady, Active

\* Objects are kept as they are, and what the map has now is disturbed.
LEMMA QuietKept ==
  ASSUME TypeOK, TypeOK', NEW q, NEW new, NEW marked, KeptWith(q, new, marked),
         q \in Profiles => new.nf_status = profile[q].nf_status,
         \A nf \in Nfs : instance_id2nrf_profile'[nf] \in Profiles =>
           \/ instance_id2nrf_profile'[nf] = instance_id2nrf_profile[nf]
           \/ instance_id2nrf_profile'[nf] \in disturbed'
  PROVE  Quiet
<1>1. ASSUME NEW nf \in Nfs, Steady(nf)', Active(nf)' PROVE Steady(nf) /\ Active(nf)
  <2>1. PICK p \in Profiles : p = instance_id2nrf_profile'[nf] /\ p \notin disturbed'
    BY <1>1 DEF Steady
  <2>2. p = instance_id2nrf_profile[nf] /\ Referenced(p)'
    BY <2>1 DEF Referenced
  <2>3. p \notin disturbed /\ profile'[p].nf_status = profile[p].nf_status
    BY <2>1, <2>2 DEF KeptWith
  <2>4. QED
    BY <1>1, <2>1, <2>2, <2>3 DEF Steady, Active
<1>2. QED
  BY <1>1 DEF Quiet, KeptWith

\* What is awaited by one thread is not lost when another moves.
LEMMA AwaitedStays ==
  ASSUME TypeOK, TypeOK', NEW h \in Threads, OnlyThread(h), NEW s, NEW nf,
         told'[s] = told[s], http'[h].sub = http[h].sub,
         http[h].nf = nf /\ http[h].pc \in {"arm", "notify", "erase"} =>
           http'[h].nf = nf /\ http'[h].pc \in {"arm", "notify", "erase"},
         Awaited(s, nf)
  PROVE  Awaited(s, nf)'
BY DEF Awaited, OnlyThread

\* A quiet step leaves updates disturbed.
LEMMA UpdatesStay ==
  ASSUME TypeOK, TypeOK', UpdatesDisturbed, Quiet,
         \A g \in Threads : http'[g].pc \in Updating =>
           \/ http[g].pc \in Updating /\ http'[g].p = http[g].p
           \/ profile'[http'[g].p].nf_status = "REGISTERED"
  PROVE  UpdatesDisturbed'
<1>1. SUFFICES ASSUME NEW g \in Threads, http'[g].pc \in Updating
               PROVE  profile'[http'[g].p].nf_status = "REGISTERED" \/ http'[g].p \in disturbed'
  BY DEF UpdatesDisturbed
<1>2. CASE http[g].pc \in Updating /\ http'[g].p = http[g].p
  <2>1. http[g] \in Works
    BY <1>2, TypeParts, Fields DEF Updating
  <2>2. PICK p \in Profiles : p = http[g].p /\ Referenced(p)'
    BY <1>2, <2>1, WorksFields DEF Referenced
  <2>3. QED
    BY <1>2, <2>2 DEF Quiet, UpdatesDisturbed
<1>3. QED
  BY <1>1, <1>2

\* In a quiet step the reports stay awaited.
LEMMA ReportedStays ==
  ASSUME Reported, Quiet, subscriptions' \subseteq subscriptions,
         \A s \in subscriptions', nf \in Nfs :
           Awaited(s, nf) /\ Steady(nf)' => Awaited(s, nf)'
  PROVE  Reported'
BY DEF Reported, Quiet

\* The requests that leave subscriptions and reports alone.
LEMMA ReportedGoesOn ==
  ASSUME TypeOK, TypeOK', Reported, Quiet, NEW h \in Threads, OnlyThread(h),
         UNCHANGED <<subscriptions, told>>, http'[h].sub = http[h].sub,
         \A nf \in Nfs : http[h].nf = nf /\ http[h].pc \in {"arm", "notify", "erase"} =>
           \/ http'[h].nf = nf /\ http'[h].pc \in {"arm", "notify", "erase"}
           \/ ~Steady(nf)'
  PROVE  Reported'
<1>1. \A s \in subscriptions', nf \in Nfs : Awaited(s, nf) /\ Steady(nf)' => Awaited(s, nf)'
  BY AwaitedStays
<1>2. QED
  BY <1>1, ReportedStays

\* A request that goes on with its object, the status of objects being left alone.
LEMMA ReportedInRequest ==
  ASSUME TypeOK, TypeOK', Reported, UpdatesDisturbed, NEW h \in Threads,
         OnlyThread(h), http[h] \in Works, http'[h] \in Works,
         http'[h].nf = http[h].nf, http'[h].p = http[h].p,
         UNCHANGED <<database, tick, history>>, OnlyObject(http[h].p),
         profile'[http[h].p].nf_status = profile[http[h].p].nf_status,
         \/ http[h].pc = "arm" /\ http'[h].pc = "notify"
         \/ http[h].pc = "unsubscribe" /\ http'[h].pc = "subscribe"
  PROVE  Reported' /\ UpdatesDisturbed'
<1>1. \A p \in Profiles : profile'[p].nf_status = profile[p].nf_status
  BY DEF OnlyObject
<1>2. Quiet
  BY <1>1, QuietCalm DEF database, history
<1>3. http'[h].sub = http[h].sub
  BY WorksFields
<1>4. Reported'
  <2>1. \A nf \in Nfs : http[h].nf = nf /\ http[h].pc \in {"arm", "notify", "erase"} =>
          http'[h].nf = nf /\ http'[h].pc \in {"arm", "notify", "erase"}
    OBVIOUS
  <2>2. UNCHANGED <<subscriptions, told>>
    BY DEF database, history
  <2>3. QED
    BY <1>2, <1>3, <2>1, <2>2, ReportedGoesOn
<1>5. UpdatesDisturbed'
  <2>1. \A g \in Threads : http'[g].pc \in Updating => http[g].pc \in Updating /\ http'[g].p = http[g].p
    BY DEF OnlyThread, Updating
  <2>2. QED
    BY <1>2, <2>1, UpdatesStay
<1>6. QED
  BY <1>4, <1>5

\* A request that begins, with nothing changed but history.
LEMMA ReportedStarts ==
  ASSUME TypeOK, TypeOK', Reported, UpdatesDisturbed, Quiet, NEW h \in Threads,
         OnlyThread(h), http[h] = Idle, http'[h] \in Works,
         UNCHANGED <<subscriptions, told>>,
         http'[h].pc \in Updating => profile'[http'[h].p].nf_status = "REGISTERED"
  PROVE  Reported' /\ UpdatesDisturbed'
<1>1. http'[h].sub = http[h].sub /\ http[h].pc = "idle"
  BY BlankFields, WorksFields
<1>2. Reported'
  BY <1>1, ReportedGoesOn
<1>3. UpdatesDisturbed'
  <2>1. \A g \in Threads : http'[g].pc \in Updating =>
          \/ http[g].pc \in Updating /\ http'[g].p = http[g].p
          \/ profile'[http'[g].p].nf_status = "REGISTERED"
    BY DEF OnlyThread
  <2>2. QED
    BY <2>1, UpdatesStay
<1>4. QED
  BY <1>2, <1>3

\* A request that ends updates nothing.
LEMMA UpdatesEnd ==
  ASSUME TypeOK, TypeOK', UpdatesDisturbed, Quiet, NEW h \in Threads, OnlyThread(h),
         http'[h].pc \notin Updating
  PROVE  UpdatesDisturbed'
<1>1. \A g \in Threads : http'[g].pc \in Updating => http[g].pc \in Updating /\ http'[g].p = http[g].p
  BY DEF OnlyThread
<1>2. QED
  BY <1>1, UpdatesStay

\* A heartbeat that ends a suspension leaves the object disturbed.
LEMMA HeartbeatQuiet ==
  ASSUME TypeOK, NEW h \in Threads, NEW nf \in Nfs, Heartbeat(h, nf)
  PROVE  Quiet /\ profile'[instance_id2nrf_profile[nf]].nf_status = "REGISTERED"
<1>1. PICK p \in Profiles : p = instance_id2nrf_profile[nf]
  BY HeartbeatFacts
<1>2. /\ TypeOK' /\ UNCHANGED instance_id2nrf_profile /\ profile'[p].nf_status = "REGISTERED"
      /\ \A q \in Profiles : q # p => profile'[q] = profile[q]
      /\ disturbed' = IF profile[p].nf_status = "SUSPENDED" THEN disturbed \cup {p} ELSE disturbed
  BY <1>1, HeartbeatFacts DEF OnlyObject, Becomes, database
<1>3. profile[p].nf_status \in {"REGISTERED", "SUSPENDED"}
  BY TypeParts DEF ObjectTypes, Objects
<1>4. QED
  BY <1>1, <1>2, <1>3 DEF Quiet, Steady, Active

\* The requests about profiles leave what is to be reported awaited.
LEMMA ReportedProfiles ==
  ASSUME TypeOK, TypeOK', Owned, Reported, UpdatesDisturbed, NEW h \in Threads, NEW nf \in Nfs,
         Register(h, nf) \/ Heartbeat(h, nf) \/ ChangeProfile(h, nf) \/ Deregister(h, nf)
  PROVE  Reported' /\ UpdatesDisturbed'
<1>1. CASE Register(h, nf)
  <2>1. PICK p \in Profiles :
          /\ ~Referenced(p)
          /\ instance_id2nrf_profile' = [instance_id2nrf_profile EXCEPT ![nf] = p]
          /\ http'[h] \in Works /\ http'[h].pc = "arm" /\ http'[h].nf = nf /\ http'[h].p = p
          /\ KeptWith(p, [profile[p] EXCEPT !.nf = nf], {})
    BY <1>1, RegisterFacts
  <2>2. http[h] = Idle /\ OnlyThread(h) /\ UNCHANGED <<subscriptions, told>>
    BY <1>1, RegisterFacts DEF Register
  <2>3. PICK o : o = [profile[p] EXCEPT !.nf = nf]
    OBVIOUS
  <2>4. o.nf_status = profile[p].nf_status
    BY <2>3, TypeParts DEF ObjectTypes, Objects
  <2>5. KeptWith(p, o, {})
    BY <2>1, <2>3
  <2>6. \A m \in Nfs : m # nf => instance_id2nrf_profile'[m] = instance_id2nrf_profile[m]
    BY <2>1, TypeParts DEF MapTypes
  <2>7. \A q \in Profiles : Referenced(q)' =>
          profile'[q].nf_status = profile[q].nf_status /\ (q \in disturbed => q \in disturbed')
    BY <2>4, <2>5 DEF KeptWith
  <2>8. UpdatesDisturbed'
    <3>1. SUFFICES ASSUME NEW g \in Threads, http'[g].pc \in Updating
                   PROVE  profile'[http'[g].p].nf_status = "REGISTERED" \/ http'[g].p \in disturbed'
      BY DEF UpdatesDisturbed
    <3>2. http'[g] = http[g] /\ http[g] \in Works
      BY <2>1, <2>2, <3>1, TypeParts, Fields DEF OnlyThread, Updating
    <3>3. PICK q \in Profiles : q = http[g].p /\ Referenced(q)'
      BY <3>2, WorksFields DEF Referenced
    <3>4. QED
      BY <2>7, <3>1, <3>2, <3>3 DEF UpdatesDisturbed
  <2>9. Reported'
    <3>1. SUFFICES ASSUME NEW s \in subscriptions', NEW m \in Nfs, Steady(m)', Active(m)'
                   PROVE  Awaited(s, m)'
      BY DEF Reported
    <3>2. CASE m = nf
      BY <2>1, <3>2 DEF Awaited
    <3>3. CASE m # nf
      <4>1. PICK q \in Profiles : q = instance_id2nrf_profile'[m] /\ q \notin disturbed'
        BY <3>1 DEF Steady
      <4>2. q = instance_id2nrf_profile[m] /\ Referenced(q)'
        BY <2>6, <3>3, <4>1 DEF Referenced
      <4>3. Steady(m) /\ Active(m)
        BY <2>7, <3>1, <4>1, <4>2 DEF Steady, Active
      <4>4. Awaited(s, m)
        BY <2>2, <3>1, <4>3 DEF Reported
      <4>5. http'[h].sub = http[h].sub /\ http[h].pc = "idle"
        BY <2>1, <2>2, BlankFields, WorksFields
      <4>6. QED
        BY <2>2, <4>4, <4>5, AwaitedStays
    <3>4. QED
      BY <3>2, <3>3
  <2>10. QED
    BY <2>8, <2>9
<1>2. CASE Heartbeat(h, nf)
  <2>1. Quiet /\ profile'[instance_id2nrf_profile[nf]].nf_status = "REGISTERED"
    BY <1>2, HeartbeatQuiet
  <2>2. /\ http[h] = Idle /\ http'[h] \in Works /\ http'[h].p = instance_id2nrf_profile[nf]
        /\ OnlyThread(h) /\ UNCHANGED <<subscriptions, told>>
    BY <1>2, HeartbeatFacts DEF database
  <2>3. QED
    BY <2>1, <2>2, ReportedStarts
<1>3. CASE ChangeProfile(h, nf)
  <2>1. /\ http[h] = Idle /\ http'[h] \in Works /\ http'[h].pc = "replace" /\ OnlyThread(h)
        /\ UNCHANGED <<instance_id2nrf_profile, subscriptions, profile, told, disturbed>>
    BY <1>3, ChangeFacts DEF database
  <2>2. Quiet
    BY <2>1, QuietCalm
  <2>3. QED
    BY <2>1, <2>2, ReportedStarts DEF Updating
<1>4. CASE Deregister(h, nf)
  <2>1. /\ http[h] = Idle /\ http'[h] \in Works /\ http'[h].pc = "erase" /\ http'[h].nf = nf
        /\ OnlyThread(h) /\ UNCHANGED <<instance_id2nrf_profile, subscriptions, profile, disturbed>>
    BY <1>4, DeregisterFacts DEF database
  <2>2. Quiet
    BY <2>1, QuietCalm
  <2>3. http'[h].sub = http[h].sub /\ http[h].pc = "idle"
    BY <2>1, BlankFields, WorksFields
  <2>4. ASSUME NEW s \in subscriptions', NEW m \in Nfs, Awaited(s, m) PROVE Awaited(s, m)'
    <3>1. CASE m = nf
      BY <2>1, <3>1 DEF Awaited
    <3>2. CASE m # nf
      <4>1. s \in Subs
        BY <2>1, <2>4, TypeParts DEF MapTypes
      <4>2. m \in told[s] => m \in told'[s]
        <5>1. \A t \in Subs : told'[t] = IF t \in subscriptions THEN told[t] \ {nf} ELSE told[t]
          BY <1>4, DeregisterFacts
        <5>2. QED
          BY <3>2, <4>1, <5>1
      <4>3. QED
        BY <2>1, <2>3, <2>4, <3>2, <4>2 DEF Awaited, OnlyThread
    <3>3. QED
      BY <3>1, <3>2
  <2>5. Reported'
    BY <2>1, <2>2, <2>4, ReportedStays
  <2>6. UpdatesDisturbed'
    BY <2>1, <2>2, UpdatesEnd DEF Updating
  <2>7. QED
    BY <2>5, <2>6
<1>5. QED
  BY <1>1, <1>2, <1>3, <1>4

\* So do the steps of a request that is under way.
LEMMA ReportedSteps ==
  ASSUME TypeOK, TypeOK', Owned, Reported, UpdatesDisturbed, NEW h \in Threads,
         \/ subscribe_heartbeat_timeout_nfregistration(h) \/ nf_status_registered(h)
         \/ update_nf_profile(h) \/ unsubscribe_heartbeat_timeout_nfregistration(h)
         \/ Subscribe(h) \/ EndHeartbeat(h) \/ remove_nf_profile(h)
  PROVE  Reported' /\ UpdatesDisturbed'
<1>1. CASE subscribe_heartbeat_timeout_nfregistration(h)
  BY <1>1, ArmFacts, ReportedInRequest DEF Becomes
<1>2. CASE nf_status_registered(h)
  <2>1. /\ http[h] \in Works /\ http[h].pc = "notify" /\ http'[h] = Idle /\ OnlyThread(h)
        /\ KeptWith(http[h].p, profile[http[h].p], {})
        /\ UNCHANGED <<instance_id2nrf_profile, subscriptions>>
    BY <1>2, NotifyFacts DEF database
  <2>2. \A s \in Subs : told'[s] =
          IF instance_id2nrf_profile[http[h].nf] # NoProfile /\ s \in subscriptions
          THEN told[s] \cup {http[h].nf} ELSE told[s]
    BY <1>2, NotifyFacts
  <2>3. Quiet
    BY <2>1, QuietKept
  <2>4. ASSUME NEW s \in subscriptions', NEW m \in Nfs, Awaited(s, m), Steady(m)' PROVE Awaited(s, m)'
    <3>1. s \in Subs /\ s \in subscriptions
      BY <2>1, TypeParts DEF MapTypes
    <3>2. instance_id2nrf_profile[m] # NoProfile
      BY <2>1, <2>4, BlankFields DEF Steady
    <3>3. \A n \in Nfs : n \in told[s] => n \in told'[s]
      BY <2>2, <3>1
    <3>4. http[h].nf = m => m \in told'[s]
      BY <2>2, <3>1, <3>2
    <3>5. http[h].sub = http'[h].sub
      BY <2>1, BlankFields, WorksFields
    <3>6. QED
      BY <2>1, <2>4, <3>3, <3>4, <3>5 DEF Awaited, OnlyThread
  <2>5. Reported'
    BY <2>1, <2>3, <2>4, ReportedStays
  <2>6. UpdatesDisturbed'
    BY <2>1, <2>3, UpdatesEnd, BlankFields DEF Updating
  <2>7. QED
    BY <2>5, <2>6
<1>3. CASE update_nf_profile(h)
  <2>1. PICK marked : marked = IF instance_id2nrf_profile[http[h].nf] \in {http[h].p, NoProfile} THEN {}
                               ELSE {http[h].p}
    OBVIOUS
  <2>2. KeptWith(http[h].p, profile[http[h].p],
                 IF instance_id2nrf_profile[http[h].nf] \in {http[h].p, NoProfile} THEN {}
                 ELSE {http[h].p})
    BY <1>3, UpdateFacts, Zenon
  <2>3. KeptWith(http[h].p, profile[http[h].p], marked)
    BY <2>1, <2>2
  <2>4. /\ http[h] \in Works /\ http[h].pc \in {"put_back", "replace"} /\ OnlyThread(h)
        /\ \/ http'[h] = Idle
           \/ http[h].pc = "put_back" /\ http'[h] \in Works /\ http'[h].p = http[h].p
        /\ UNCHANGED <<subscriptions, told>>
    BY <1>3, UpdateFacts
  <2>5. \A m \in Nfs : instance_id2nrf_profile'[m] =
          IF m = http[h].nf /\ instance_id2nrf_profile[m] # NoProfile THEN http[h].p
          ELSE instance_id2nrf_profile[m]
    BY <1>3, UpdateFacts
  <2>6. \A m \in Nfs : instance_id2nrf_profile'[m] \in Profiles =>
          \/ instance_id2nrf_profile'[m] = instance_id2nrf_profile[m]
          \/ instance_id2nrf_profile'[m] \in disturbed'
    <3>1. SUFFICES ASSUME NEW m \in Nfs, instance_id2nrf_profile'[m] \in Profiles,
                          instance_id2nrf_profile'[m] # instance_id2nrf_profile[m]
                   PROVE  instance_id2nrf_profile'[m] \in disturbed'
      OBVIOUS
    <3>2. PICK p \in Profiles : p = instance_id2nrf_profile'[m]
      BY <3>1
    <3>3. p = http[h].p /\ marked = {p} /\ Referenced(p)'
      BY <2>1, <2>5, <3>1, <3>2 DEF Referenced
    <3>4. QED
      BY <2>3, <3>2, <3>3 DEF KeptWith
  <2>7. Quiet
    BY <2>3, <2>6, QuietKept
  <2>8. http'[h].sub = http[h].sub
    BY <2>4, WorksFields, BlankFields
  <2>9. Reported'
    BY <2>4, <2>7, <2>8, ReportedGoesOn
  <2>10. UpdatesDisturbed'
    <3>1. \A g \in Threads : http'[g].pc \in Updating => http[g].pc \in Updating /\ http'[g].p = http[g].p
      BY <2>4, BlankFields DEF OnlyThread, Updating
    <3>2. QED
      BY <2>7, <3>1, UpdatesStay
  <2>11. QED
    BY <2>9, <2>10
<1>4. CASE unsubscribe_heartbeat_timeout_nfregistration(h)
  BY <1>4, UnsubscribeFacts, ReportedInRequest DEF Becomes
<1>5. CASE Subscribe(h)
  <2>1. /\ http[h] \in Works /\ http[h].pc \in Updating /\ http[h].pc \notin {"arm", "notify", "erase"}
        /\ http'[h] \in Works /\ http'[h].pc = "flag"
        /\ http'[h].p = http[h].p /\ OnlyThread(h) /\ OnlyObject(http[h].p)
        /\ profile'[http[h].p].nf_status = "REGISTERED"
        /\ UNCHANGED <<instance_id2nrf_profile, subscriptions, told, disturbed>>
    BY <1>5, SubscribeFacts DEF Becomes, Updating, database, history
  <2>2. PICK p \in Profiles : p = http[h].p
    BY <2>1, WorksFields
  <2>3. profile[p].nf_status = "REGISTERED" \/ p \in disturbed
    BY <2>1, <2>2 DEF UpdatesDisturbed
  <2>4. Quiet
    BY <2>1, <2>2, <2>3 DEF Quiet, Steady, Active, OnlyObject
  <2>5. http'[h].sub = http[h].sub
    BY <2>1, WorksFields
  <2>6. Reported'
    BY <2>1, <2>4, <2>5, ReportedGoesOn
  <2>7. UpdatesDisturbed'
    <3>1. \A g \in Threads : http'[g].pc \in Updating => http[g].pc \in Updating /\ http'[g].p = http[g].p
      BY <2>1 DEF OnlyThread, Updating
    <3>2. QED
      BY <2>4, <3>1, UpdatesStay
  <2>8. QED
    BY <2>6, <2>7
<1>6. CASE EndHeartbeat(h)
  <2>1. PICK o \in Objects : KeptWith(http[h].p, o, {}) /\ o.nf_status = profile[http[h].p].nf_status
    BY <1>6, FlagFacts
  <2>2. /\ http[h] \in Works /\ http[h].pc = "flag" /\ http'[h] = Idle /\ OnlyThread(h)
        /\ UNCHANGED <<instance_id2nrf_profile, subscriptions, told>>
    BY <1>6, FlagFacts
  <2>3. Quiet
    BY <2>1, <2>2, QuietKept
  <2>4. http'[h].sub = http[h].sub
    BY <2>2, WorksFields, BlankFields
  <2>5. QED
    BY <2>2, <2>3, <2>4, ReportedGoesOn, UpdatesEnd, BlankFields DEF Updating
<1>7. CASE remove_nf_profile(h)
  <2>1. /\ http[h] \in Works /\ http[h].pc = "erase" /\ http'[h] = Idle /\ OnlyThread(h)
        /\ KeptWith(http[h].p, profile[http[h].p], {}) /\ UNCHANGED <<subscriptions, told>>
    BY <1>7, RemoveFacts
  <2>2. \A m \in Nfs : instance_id2nrf_profile'[m] =
          IF m = http[h].nf THEN NoProfile ELSE instance_id2nrf_profile[m]
    BY <1>7, RemoveFacts
  <2>3. Quiet
    BY <2>1, <2>2, BlankFields, QuietKept
  <2>4. http'[h].sub = http[h].sub
    BY <2>1, WorksFields, BlankFields
  <2>5. \A m \in Nfs : http[h].nf = m => ~Steady(m)'
    BY <2>2, BlankFields DEF Steady
  <2>6. QED
    BY <2>1, <2>3, <2>4, <2>5, ReportedGoesOn, UpdatesEnd, BlankFields DEF Updating
<1>8. QED
  BY <1>1, <1>2, <1>3, <1>4, <1>5, <1>6, <1>7

\* The creation of a subscription takes over what was there before.
LEMMA ReportedSubscriptions ==
  ASSUME TypeOK, TypeOK', Reported, UpdatesDisturbed, NEW h \in Threads,
         \/ \E s \in Subs : CreateSubscription(h, s) \/ RemoveSubscription(h, s)
         \/ find_nf_profiles(h)
  PROVE  Reported' /\ UpdatesDisturbed'
<1>1. ASSUME NEW s \in Subs, CreateSubscription(h, s) PROVE Reported' /\ UpdatesDisturbed'
  <2>1. /\ http[h] = Idle /\ http'[h] \in Finds /\ http'[h].sub = s /\ OnlyThread(h)
        /\ subscriptions' = subscriptions \cup {s}
        /\ UNCHANGED <<instance_id2nrf_profile, profile, told, disturbed>>
    BY <1>1, CreateFacts DEF history
  <2>2. Quiet
    BY <2>1, QuietCalm
  <2>3. http'[h].pc = "find" /\ http[h].pc = "idle" /\ http[h].sub = NoNf
    BY <2>1, BlankFields DEF Finds
  <2>4. UpdatesDisturbed'
    BY <2>1, <2>2, <2>3, UpdatesEnd DEF Updating
  <2>5. Reported'
    <3>1. SUFFICES ASSUME NEW t \in subscriptions', NEW m \in Nfs, Steady(m)', Active(m)'
                   PROVE  Awaited(t, m)'
      BY DEF Reported
    <3>2. CASE t = s
      BY <2>1, <3>2 DEF Awaited
    <3>3. CASE t # s
      <4>1. Awaited(t, m) /\ t # NoNf
        BY <2>1, <2>2, <3>1, <3>3, TypeParts, BlankFields DEF Reported, Quiet, MapTypes
      <4>2. QED
        BY <2>1, <2>3, <4>1 DEF Awaited, OnlyThread
    <3>4. QED
      BY <3>2, <3>3
  <2>6. QED
    BY <2>4, <2>5
<1>2. ASSUME NEW s \in Subs, RemoveSubscription(h, s) PROVE Reported' /\ UpdatesDisturbed'
  <2>1. /\ subscriptions' = subscriptions \ {s} /\ (\A t \in Subs : t # s => told'[t] = told[t])
        /\ UNCHANGED <<instance_id2nrf_profile, profile, http, disturbed>>
    BY <1>2, UnsubscriptionFacts
  <2>2. Quiet
    BY <2>1, QuietCalm
  <2>3. UpdatesDisturbed'
    BY <2>1, <2>2, UpdatesStay
  <2>4. ASSUME NEW t \in subscriptions', NEW m \in Nfs, Awaited(t, m) PROVE Awaited(t, m)'
    <3>1. told'[t] = told[t]
      BY <2>1, TypeParts DEF MapTypes
    <3>2. QED
      BY <2>1, <2>4, <3>1 DEF Awaited
  <2>5. Reported'
    BY <2>1, <2>2, <2>4, ReportedStays
  <2>6. QED
    BY <2>3, <2>5
<1>3. CASE find_nf_profiles(h)
  <2>1. /\ http[h] \in Finds /\ http'[h] = Idle /\ OnlyThread(h)
        /\ UNCHANGED <<instance_id2nrf_profile, subscriptions, profile, disturbed>>
    BY <1>3, FindFacts DEF database
  <2>2. \A t \in Subs : told'[t] =
          IF t = http[h].sub THEN told[t] \cup {nf \in Nfs : Active(nf)} ELSE told[t]
    BY <1>3, FindFacts
  <2>3. Quiet
    BY <2>1, QuietCalm
  <2>4. UpdatesDisturbed'
    BY <2>1, <2>3, UpdatesEnd, BlankFields DEF Updating
  <2>5. http[h].pc = "find"
    BY <2>1 DEF Finds
  <2>6. Reported'
    <3>1. SUFFICES ASSUME NEW t \in subscriptions', NEW m \in Nfs, Steady(m)', Active(m)'
                   PROVE  Awaited(t, m)'
      BY DEF Reported
    <3>2. Active(m) /\ Awaited(t, m) /\ t \in Subs
      BY <2>1, <2>3, <3>1, TypeParts DEF Reported, Quiet, MapTypes
    <3>3. CASE t = http[h].sub
      <4>1. m \in told'[t]
        BY <2>2, <3>2, <3>3
      <4>2. QED
        BY <4>1 DEF Awaited
    <3>4. CASE t # http[h].sub
      <4>1. told'[t] = told[t]
        BY <2>2, <3>2, <3>4
      <4>2. QED
        BY <2>1, <2>5, <3>2, <3>4, <4>1 DEF Awaited, OnlyThread
    <3>5. QED
      BY <3>3, <3>4
  <2>7. QED
    BY <2>4, <2>6
<1>4. QED
  BY <1>1, <1>2, <1>3

\* A suspension that meets an update disturbs the object.
LEMMA ReportedTicks ==
  ASSUME TypeOK, TypeOK', Owned, Reported, UpdatesDisturbed, TickTask \/ TimePasses
  PROVE  Reported' /\ UpdatesDisturbed'
<1>1. ASSUME Quiet, UNCHANGED <<subscriptions, http, told>> PROVE Reported' /\ UpdatesDisturbed'
  <2>1. \A s \in subscriptions', nf \in Nfs : Awaited(s, nf) => Awaited(s, nf)'
    BY <1>1 DEF Awaited
  <2>2. QED
    BY <1>1, <2>1, ReportedStays, UpdatesStay
<1>2. CASE EraseSuspended
  <2>1. /\ KeptWith(NoProfile, Blank, {}) /\ UNCHANGED <<subscriptions, http, told>>
        /\ \A m \in Nfs : instance_id2nrf_profile'[m] \in {NoProfile, instance_id2nrf_profile[m]}
    BY <1>2, EraseFacts
  <2>2. Quiet
    BY <2>1, BlankFields, QuietKept
  <2>3. QED
    BY <1>1, <2>1, <2>2
<1>3. CASE ClearSuspended
  <2>1. UNCHANGED <<instance_id2nrf_profile, profile, disturbed, subscriptions, http, told>>
    BY <1>3, ClearFacts DEF history
  <2>2. QED
    BY <1>1, <2>1, QuietCalm
<1>4. ASSUME NEW p \in Profiles,
             handle_heartbeat_timeout_nfregistration(p) \/ handle_heartbeat_timeout_nfupdate(p)
      PROVE  Reported' /\ UpdatesDisturbed'
  <2>1. /\ OnlyObject(p) /\ profile'[p].nf_status = profile[p].nf_status
        /\ UNCHANGED <<instance_id2nrf_profile, disturbed, subscriptions, http, told>>
    BY <1>4, FirstTimeoutFacts, TimeoutFacts DEF Becomes, database, history
  <2>2. QED
    BY <1>1, <2>1, QuietCalm DEF OnlyObject
<1>5. CASE SetSuspended
  <2>1. /\ OnlyObject(tick.p) /\ UNCHANGED <<instance_id2nrf_profile, subscriptions, http, told>>
        /\ tick.p \in Profiles => profile'[tick.p].nf_status = "SUSPENDED"
        /\ disturbed' = IF tick.p \in Profiles /\ Busy(tick.nf) THEN disturbed \cup {tick.p} ELSE disturbed
    BY <1>5, SuspendFacts DEF Becomes, database
  <2>2. Reported'
    <3>1. \A m \in Nfs : Steady(m)' /\ Active(m)' => Steady(m) /\ Active(m)
      BY <2>1 DEF Steady, Active, OnlyObject
    <3>2. QED
      BY <2>1, <3>1 DEF Reported, Awaited
  <2>3. UpdatesDisturbed'
    <3>1. SUFFICES ASSUME NEW g \in Threads, http[g].pc \in Updating
                   PROVE  profile'[http[g].p].nf_status = "REGISTERED" \/ http[g].p \in disturbed'
      BY <2>1 DEF UpdatesDisturbed
    <3>2. http[g].p \in Profiles
      BY <3>1, TypeParts, Fields, WorksFields DEF Updating
    <3>3. CASE http[g].p = tick.p
      <4>1. http[g].nf = tick.nf
        BY <3>2, <3>3 DEF Owned
      <4>2. Busy(tick.nf)
        BY <4>1 DEF Busy
      <4>3. QED
        BY <2>1, <3>2, <3>3, <4>2
    <3>4. CASE http[g].p # tick.p
      BY <2>1, <3>1, <3>2, <3>4 DEF OnlyObject, UpdatesDisturbed
    <3>5. QED
      BY <3>3, <3>4
  <2>4. QED
    BY <2>2, <2>3
<1>6. CASE add_to_suspended_list
  <2>1. UNCHANGED <<instance_id2nrf_profile, profile, disturbed, subscriptions, http, told>>
    BY <1>6, ListFacts DEF history
  <2>2. QED
    BY <1>1, <2>1, QuietCalm
<1>7. CASE EndSlot
  <2>1. /\ OnlyObject(tick.p)
        /\ tick.p \in Profiles => profile'[tick.p].nf_status = profile[tick.p].nf_status
        /\ UNCHANGED <<instance_id2nrf_profile, disturbed, subscriptions, http, told>>
    BY <1>7, EndSlotFacts DEF Becomes, database, history
  <2>2. QED
    BY <1>1, <2>1, QuietCalm DEF OnlyObject
<1>8. CASE TimePasses
  <2>1. /\ \A p \in Profiles : profile'[p].nf_status = profile[p].nf_status
        /\ UNCHANGED <<instance_id2nrf_profile, disturbed, subscriptions, http, told>>
    BY <1>8, PassFacts DEF Becomes, database
  <2>2. QED
    BY <1>1, <2>1, QuietCalm
<1>9. QED
  BY <1>2, <1>3, <1>4, <1>5, <1>6, <1>7, <1>8 DEF TickTask

\* What is to be reported is awaited, and suspensions that meet updates disturb.
LEMMA ReportedNext ==
  ASSUME TypeOK, Owned, Reported, UpdatesDisturbed, [Next]_vars
  PROVE  Reported' /\ UpdatesDisturbed'
<1>1. TypeOK'
  BY OwnedNext
<1>2. CASE \E h \in Threads : HttpThread(h)
  BY <1>1, <1>2, ReportedProfiles, ReportedSteps, ReportedSubscriptions DEF HttpThread
<1>3. CASE TickTask \/ TimePasses
  BY <1>1, <1>3, ReportedTicks
<1>4. CASE UNCHANGED vars
  BY <1>4 DEF vars, database, timing, history, Reported, Awaited, Steady, Active, UpdatesDisturbed
<1>5. QED
  BY <1>2, <1>3, <1>4 DEF Next

-----------------------------------------------------------------------------
(* A request and a slot touch one NF.                                       *)

\* Everything that the invariants say of nf stays.
Untouched(nf) ==
    /\ instance_id2nrf_profile'[nf] = instance_id2nrf_profile[nf]
    /\ \A p \in Profiles : p = instance_id2nrf_profile[nf] =>
         /\ profile'[p] = profile[p]
         /\ p \in disturbed' <=> p \in disturbed
         /\ tick'.p = p <=> tick.p = p
    /\ silence'[nf] = silence[nf] /\ deadline'[nf] = deadline[nf]
    /\ \A i \in 0..1 : nf \in suspended_nf'[i] <=> nf \in suspended_nf[i]
    /\ \A h \in Threads : http[h].nf = nf \/ http'[h].nf = nf => http'[h] = http[h]
    /\ tick.nf = nf \/ tick'.nf = nf => tick'.nf = tick.nf /\ tick'.pc = tick.pc
    /\ tick'.pc = "clear" <=> tick.pc = "clear"
    /\ UNCHANGED timing

\* A request of n, or of no NF, that leaves the map and changes at most object q of n.
LEMMA OthersInRequest ==
  ASSUME TypeOK, TypeOK', Owned, NEW h \in Threads, NEW q, NEW n, NEW m \in Nfs, m # n,
         OnlyThread(h), http[h].nf \in {n, NoNf}, http'[h].nf \in {n, NoNf},
         UNCHANGED <<instance_id2nrf_profile, suspended_nf, timing, tick>>,
         OnlyObject(q), q \in Profiles => profile[q].nf = n,
         \A p \in Profiles : p # q => (p \in disturbed' <=> p \in disturbed),
         silence'[m] = silence[m], deadline'[m] = deadline[m]
  PROVE  Untouched(m)
<1>1. \A p \in Profiles : p = instance_id2nrf_profile[m] => profile[p].nf = m
  BY DEF Owned
<1>2. \A p \in Profiles : p = instance_id2nrf_profile[m] =>
         profile'[p] = profile[p] /\ (p \in disturbed' <=> p \in disturbed)
  BY <1>1 DEF OnlyObject
<1>3. \A g \in Threads : http[g].nf = m \/ http'[g].nf = m => http'[g] = http[g]
  BY BlankFields DEF OnlyThread
<1>4. QED
  BY <1>2, <1>3 DEF Untouched

\* A request of n that ends or moves, the objects referred to being kept.
LEMMA OthersKept ==
  ASSUME TypeOK, TypeOK', Owned, NEW h \in Threads, NEW q, NEW new, NEW marked, NEW n, NEW m \in Nfs, m # n,
         OnlyThread(h), http[h].nf \in {n, NoNf}, http'[h].nf \in {n, NoNf},
         KeptWith(q, new, marked), marked \subseteq {q}, SlotStays,
         q \in Profiles => ~Referenced(q) \/ profile[q].nf = n,
         instance_id2nrf_profile'[m] = instance_id2nrf_profile[m],
         \A i \in 0..1 : m \in suspended_nf'[i] <=> m \in suspended_nf[i],
         silence'[m] = silence[m], deadline'[m] = deadline[m], UNCHANGED timing
  PROVE  Untouched(m)
<1>1. ASSUME NEW p \in Profiles, p = instance_id2nrf_profile[m]
      PROVE  /\ profile'[p] = profile[p]
             /\ p \in disturbed' <=> p \in disturbed
             /\ tick'.p = p <=> tick.p = p
  <2>1. profile[p].nf = m /\ Referenced(p) /\ Referenced(p)'
    BY <1>1 DEF Owned, Referenced
  <2>2. p # q
    BY <2>1
  <2>3. QED
    BY <2>1, <2>2, BlankFields DEF KeptWith, SlotStays
<1>2. \A g \in Threads : http[g].nf = m \/ http'[g].nf = m => http'[g] = http[g]
  BY BlankFields DEF OnlyThread
<1>3. QED
  BY <1>1, <1>2 DEF Untouched, SlotStays

\* A slot of n.
LEMMA OthersOfSlot ==
  ASSUME TypeOK, TypeOK', Owned, NEW q, NEW n, NEW m \in Nfs, m # n,
         UNCHANGED <<instance_id2nrf_profile, timing, http, silence, deadline>>,
         tick.nf \in {n, NoNf}, tick'.nf \in {n, NoNf}, tick.pc # "clear", tick'.pc # "clear",
         \A p \in Profiles : p \in {q, tick.p, tick'.p} => profile[p].nf = n,
         OnlyObject(q), \A p \in Profiles : p # q => (p \in disturbed' <=> p \in disturbed),
         \A i \in 0..1 : m \in suspended_nf'[i] <=> m \in suspended_nf[i]
  PROVE  Untouched(m)
<1>1. ASSUME NEW p \in Profiles, p = instance_id2nrf_profile[m]
      PROVE  /\ profile'[p] = profile[p]
             /\ p \in disturbed' <=> p \in disturbed
             /\ tick'.p = p <=> tick.p = p
  <2>1. profile[p].nf = m
    BY <1>1 DEF Owned
  <2>2. p \notin {q, tick.p, tick'.p}
    BY <2>1
  <2>3. QED
    BY <2>2 DEF OnlyObject
<1>2. QED
  BY <1>1, BlankFields DEF Untouched

\* The requests that begin.
LEMMA OthersStart ==
  ASSUME TypeOK, TypeOK', Owned, NEW h \in Threads, NEW nf \in Nfs, NEW m \in Nfs, m # nf,
         Register(h, nf) \/ Heartbeat(h, nf) \/ ChangeProfile(h, nf) \/ Deregister(h, nf)
  PROVE  Untouched(m)
<1>1. CASE Register(h, nf)
  <2>1. PICK p \in Profiles :
          /\ ~Referenced(p)
          /\ instance_id2nrf_profile' = [instance_id2nrf_profile EXCEPT ![nf] = p]
          /\ http'[h].nf = nf
          /\ KeptWith(p, [profile[p] EXCEPT !.nf = nf], {})
    BY <1>1, RegisterFacts
  <2>2. PICK o : o = [profile[p] EXCEPT !.nf = nf]
    OBVIOUS
  <2>3. PICK marked : marked \subseteq {p} /\ KeptWith(p, o, marked)
    <3>1. PICK marked : marked = {}
      OBVIOUS
    <3>2. KeptWith(p, o, marked) /\ marked \subseteq {p}
      BY <2>1, <2>2, <3>1
    <3>3. QED
      BY <3>2
  <2>4. instance_id2nrf_profile'[m] = instance_id2nrf_profile[m]
    BY <2>1, TypeParts DEF MapTypes
  <2>5. silence'[m] = silence[m] /\ deadline'[m] = deadline[m] /\ UNCHANGED <<suspended_nf, timing>>
    <3>1. PICK d : d = (IF Busy(nf) \/ Listed(nf) \/ tick.nf = nf THEN Late ELSE HeartBeat + Slack - 1)
      OBVIOUS
    <3>2. deadline' = [deadline EXCEPT ![nf] = d]
      BY <1>1, <3>1 DEF Register
    <3>3. silence' = [silence EXCEPT ![nf] = 0]
      BY <1>1 DEF Register
    <3>4. silence \in [Nfs -> 0..Forgotten + 1] /\ deadline \in [Nfs -> Late..HeartBeat + Slack - 1]
      BY TypeParts DEF TimeTypes
    <3>5. UNCHANGED <<suspended_nf, timing>>
      BY <1>1 DEF Register
    <3>6. QED
      BY <3>2, <3>3, <3>4, <3>5
  <2>6. http[h] = Idle /\ OnlyThread(h) /\ SlotStays
    BY <1>1, RegisterFacts
  <2>7. http[h].nf \in {nf, NoNf} /\ http'[h].nf \in {nf, NoNf}
    BY <2>1, <2>6, BlankFields
  <2>8. \A i \in 0..1 : m \in suspended_nf'[i] <=> m \in suspended_nf[i]
    BY <2>5
  <2>9. QED
    BY <2>1, <2>3, <2>4, <2>5, <2>6, <2>7, <2>8, OthersKept
<1>2. CASE Heartbeat(h, nf)
  <2>1. PICK q \in Profiles : q = instance_id2nrf_profile[nf]
    BY <1>2, HeartbeatFacts
  <2>2. /\ http[h] = Idle /\ http'[h].nf = nf /\ OnlyThread(h) /\ OnlyObject(q)
        /\ disturbed' = IF profile[q].nf_status = "SUSPENDED" THEN disturbed \cup {q} ELSE disturbed
        /\ silence'[m] = silence[m] /\ deadline'[m] = deadline[m]
        /\ UNCHANGED <<instance_id2nrf_profile, suspended_nf, timing, tick>>
    BY <1>2, <2>1, HeartbeatFacts DEF database
  <2>3. \A p \in Profiles : p # q => (p \in disturbed' <=> p \in disturbed)
    BY <2>2
  <2>4. profile[q].nf = nf
    BY <2>1 DEF Owned
  <2>5. QED
    BY <2>2, <2>3, <2>4, BlankFields, OthersInRequest
<1>3. CASE ChangeProfile(h, nf)
  <2>1. /\ http[h] = Idle /\ http'[h].nf = nf /\ OnlyThread(h)
        /\ silence'[m] = silence[m] /\ deadline'[m] = deadline[m]
        /\ UNCHANGED <<instance_id2nrf_profile, suspended_nf, timing, tick, profile, disturbed>>
    BY <1>3, ChangeFacts DEF database
  <2>2. QED
    BY <2>1, BlankFields, OthersInRequest DEF OnlyObject
<1>4. CASE Deregister(h, nf)
  <2>1. /\ http[h] = Idle /\ http'[h].nf = nf /\ OnlyThread(h)
        /\ silence'[m] = silence[m] /\ deadline'[m] = deadline[m]
        /\ UNCHANGED <<instance_id2nrf_profile, suspended_nf, timing, tick, profile, disturbed>>
    BY <1>4, DeregisterFacts DEF database
  <2>2. QED
    BY <2>1, BlankFields, OthersInRequest DEF OnlyObject
<1>5. QED
  BY <1>1, <1>2, <1>3, <1>4

\* The requests that are under way.
LEMMA OthersGoOn ==
  ASSUME TypeOK, TypeOK', Owned, NEW h \in Threads, NEW m \in Nfs, m # http[h].nf,
         \/ subscribe_heartbeat_timeout_nfregistration(h) \/ nf_status_registered(h)
         \/ update_nf_profile(h) \/ unsubscribe_heartbeat_timeout_nfregistration(h)
         \/ Subscribe(h) \/ EndHeartbeat(h) \/ remove_nf_profile(h)
  PROVE  Untouched(m)
<1>1. ASSUME http[h] \in Works PROVE http[h].p \in Profiles /\ profile[http[h].p].nf = http[h].nf
  BY <1>1, WorksFields DEF Owned
<1>2. CASE subscribe_heartbeat_timeout_nfregistration(h) \/ unsubscribe_heartbeat_timeout_nfregistration(h) \/ Subscribe(h)
  <2>1. /\ http[h] \in Works /\ http'[h].nf = http[h].nf /\ OnlyThread(h) /\ OnlyObject(http[h].p)
        /\ UNCHANGED <<database, timing, tick, history>>
    BY <1>2, ArmFacts, UnsubscribeFacts, SubscribeFacts
  <2>2. QED
    BY <1>1, <2>1, OthersInRequest DEF database, history
<1>3. CASE nf_status_registered(h)
  <2>1. /\ http[h] \in Works /\ http'[h] = Idle /\ OnlyThread(h) /\ SlotStays
        /\ KeptWith(http[h].p, profile[http[h].p], {})
        /\ UNCHANGED <<database, timing, silence, deadline>>
    BY <1>3, NotifyFacts
  <2>2. /\ http'[h].nf = NoNf
        /\ UNCHANGED <<instance_id2nrf_profile, suspended_nf, timing>>
    BY <2>1, BlankFields DEF database
  <2>3. PICK marked : marked \subseteq {http[h].p} /\ KeptWith(http[h].p, profile[http[h].p], marked)
    <3>1. PICK marked : marked = {}
      OBVIOUS
    <3>2. KeptWith(http[h].p, profile[http[h].p], marked) /\ marked \subseteq {http[h].p}
      BY <2>1, <3>1
    <3>3. QED
      BY <3>2
  <2>4. QED
    BY <1>1, <2>1, <2>2, <2>3, OthersKept
<1>4. CASE update_nf_profile(h)
  <2>1. PICK marked : marked = IF instance_id2nrf_profile[http[h].nf] \in {http[h].p, NoProfile} THEN {}
                               ELSE {http[h].p}
    OBVIOUS
  <2>2. KeptWith(http[h].p, profile[http[h].p],
                 IF instance_id2nrf_profile[http[h].nf] \in {http[h].p, NoProfile} THEN {}
                 ELSE {http[h].p})
    BY <1>4, UpdateFacts, Zenon
  <2>3. KeptWith(http[h].p, profile[http[h].p], marked) /\ marked \subseteq {http[h].p}
    BY <2>1, <2>2
  <2>4. /\ http[h] \in Works /\ (http'[h] = Idle \/ http'[h].nf = http[h].nf) /\ OnlyThread(h) /\ SlotStays
        /\ instance_id2nrf_profile'[m] = instance_id2nrf_profile[m]
        /\ UNCHANGED <<suspended_nf, timing, silence, deadline>>
    BY <1>4, UpdateFacts
  <2>5. QED
    BY <1>1, <2>3, <2>4, BlankFields, OthersKept
<1>5. CASE EndHeartbeat(h)
  <2>1. PICK o \in Objects : KeptWith(http[h].p, o, {})
    BY <1>5, FlagFacts
  <2>2. /\ http[h] \in Works /\ http'[h] = Idle /\ OnlyThread(h) /\ SlotStays
        /\ \A i \in 0..1 : m \in suspended_nf'[i] <=> m \in suspended_nf[i]
        /\ UNCHANGED <<instance_id2nrf_profile, timing, silence, deadline>>
    BY <1>5, FlagFacts
  <2>3. http'[h].nf = NoNf
    BY <2>2, BlankFields
  <2>4. PICK marked : marked \subseteq {http[h].p} /\ KeptWith(http[h].p, o, marked)
    <3>1. PICK marked : marked = {}
      OBVIOUS
    <3>2. KeptWith(http[h].p, o, marked) /\ marked \subseteq {http[h].p}
      BY <2>1, <3>1
    <3>3. QED
      BY <3>2
  <2>5. QED
    BY <1>1, <2>2, <2>3, <2>4, OthersKept
<1>6. CASE remove_nf_profile(h)
  <2>1. /\ http[h] \in Works /\ http'[h] = Idle /\ OnlyThread(h) /\ SlotStays
        /\ KeptWith(http[h].p, profile[http[h].p], {})
        /\ instance_id2nrf_profile'[m] = instance_id2nrf_profile[m] /\ deadline'[m] = deadline[m]
        /\ UNCHANGED <<suspended_nf, timing, silence>>
    BY <1>6, RemoveFacts
  <2>2. http'[h].nf = NoNf
    BY <2>1, BlankFields
  <2>3. PICK marked : marked \subseteq {http[h].p} /\ KeptWith(http[h].p, profile[http[h].p], marked)
    <3>1. PICK marked : marked = {}
      OBVIOUS
    <3>2. KeptWith(http[h].p, profile[http[h].p], marked) /\ marked \subseteq {http[h].p}
      BY <2>1, <3>1
    <3>3. QED
      BY <3>2
  <2>4. QED
    BY <1>1, <2>1, <2>2, <2>3, OthersKept
<1>7. QED
  BY <1>2, <1>3, <1>4, <1>5, <1>6

\* The requests about subscriptions touch no NF.
LEMMA OthersSubscriptions ==
  ASSUME TypeOK, TypeOK', Owned, NEW h \in Threads, NEW m \in Nfs,
         \/ \E s \in Subs : CreateSubscription(h, s) \/ RemoveSubscription(h, s)
         \/ find_nf_profiles(h)
  PROVE  Untouched(m)
<1>1. /\ http[h].nf = NoNf /\ http'[h].nf = NoNf /\ OnlyThread(h)
      /\ UNCHANGED <<instance_id2nrf_profile, suspended_nf, profile, timing, tick, silence, deadline, disturbed>>
  <2>1. CASE \E s \in Subs : CreateSubscription(h, s)
    BY <2>1, CreateFacts, BlankFields DEF Finds, history
  <2>2. CASE \E s \in Subs : RemoveSubscription(h, s)
    <3>1. http[h] = Idle
      BY <2>2 DEF RemoveSubscription
    <3>2. UNCHANGED <<instance_id2nrf_profile, suspended_nf, profile, timing, http, tick, silence, deadline, disturbed>>
      BY <2>2, UnsubscriptionFacts
    <3>3. QED
      BY <3>1, <3>2, BlankFields DEF OnlyThread
  <2>3. CASE find_nf_profiles(h)
    BY <2>3, FindFacts, BlankFields DEF Finds, database
  <2>4. QED
    BY <2>1, <2>2, <2>3
<1>2. m # NoNf /\ NoProfile \notin Profiles
  BY BlankFields
<1>3. QED
  BY <1>1, <1>2, OthersInRequest DEF OnlyObject

\* The time-outs.
LEMMA OthersTimeout ==
  ASSUME TypeOK, TypeOK', Owned, NEW p \in Profiles, NEW m \in Nfs, m # profile[p].nf,
         handle_heartbeat_timeout_nfregistration(p) \/ handle_heartbeat_timeout_nfupdate(p)
  PROVE  Untouched(m)
<1>1. /\ tick = Resting /\ tick'.p = p /\ tick'.nf = profile[p].nf /\ tick' \in Slots
      /\ OnlyObject(p) /\ UNCHANGED <<database, timing, http, history>>
  BY FirstTimeoutFacts, TimeoutFacts
<1>2. tick.nf = NoNf /\ tick.pc # "clear" /\ tick.p = NoProfile /\ tick'.pc # "clear"
  BY <1>1, BlankFields DEF Slots
<1>3. QED
  BY <1>1, <1>2, BlankFields, OthersOfSlot DEF database, history

\* The rest of a slot.
LEMMA OthersSlots ==
  ASSUME TypeOK, TypeOK', Owned, NEW m \in Nfs, m # tick.nf, SetSuspended \/ add_to_suspended_list \/ EndSlot
  PROVE  Untouched(m)
<1>1. \A p \in Profiles : p = tick.p => profile[p].nf = tick.nf
  BY DEF Owned
<1>2. CASE SetSuspended
  <2>1. /\ tick'.p = tick.p /\ tick'.nf = tick.nf /\ tick \in Slots /\ tick' \in Slots /\ OnlyObject(tick.p)
        /\ UNCHANGED <<database, timing, http, silence, deadline>>
    BY <1>2, SuspendFacts
  <2>2. disturbed' = IF tick.p \in Profiles /\ Busy(tick.nf) THEN disturbed \cup {tick.p} ELSE disturbed
    BY <1>2, SuspendFacts
  <2>3. \A p \in Profiles : p # tick.p => (p \in disturbed' <=> p \in disturbed)
    BY <2>2
  <2>4. tick.pc # "clear" /\ tick'.pc # "clear"
    BY <2>1 DEF Slots
  <2>5. QED
    BY <1>1, <2>1, <2>3, <2>4, OthersOfSlot DEF database
<1>3. CASE add_to_suspended_list
  <2>1. /\ tick'.p = tick.p /\ tick'.nf = tick.nf /\ tick \in Slots /\ tick' \in Slots
        /\ \A i \in 0..1 : m \in suspended_nf'[i] <=> m \in suspended_nf[i]
        /\ UNCHANGED <<instance_id2nrf_profile, profile, timing, http, history>>
    <3>1. ASSUME NEW i \in 0..1 PROVE m \in suspended_nf'[i] <=> m \in suspended_nf[i]
      <4>1. suspended_nf[i] \subseteq suspended_nf'[i] /\ suspended_nf'[i] \subseteq suspended_nf[i] \cup {tick.nf}
        BY <1>3, ListFacts
      <4>2. QED
        BY <4>1
    <3>2. QED
      BY <1>3, <3>1, ListFacts
  <2>2. tick.pc # "clear" /\ tick'.pc # "clear"
    BY <2>1 DEF Slots
  <2>3. OnlyObject(tick.p) /\ UNCHANGED <<silence, deadline, disturbed>>
    BY <2>1 DEF history, OnlyObject
  <2>4. QED
    BY <1>1, <2>1, <2>2, <2>3, OthersOfSlot
<1>4. CASE EndSlot
  <2>1. /\ tick' = Resting /\ tick \in Slots /\ OnlyObject(tick.p)
        /\ UNCHANGED <<database, timing, http, history>>
    BY <1>4, EndSlotFacts
  <2>2. tick.pc # "clear" /\ tick'.pc # "clear" /\ tick'.nf = NoNf /\ tick'.p = NoProfile
    BY <2>1, BlankFields DEF Slots
  <2>3. QED
    BY <1>1, <2>1, <2>2, BlankFields, OthersOfSlot DEF database, history
<1>5. QED
  BY <1>2, <1>3, <1>4

-----------------------------------------------------------------------------
(* NFs that keep their schedule.                                            *)

\* What does not touch an NF does not hurry it.
LEMMA UntouchedKept ==
  ASSUME TypeOK, TypeOK', NEW nf \in Nfs, Untouched(nf), Kept(nf)
  PROVE  Kept(nf)'
<1>1. SUFFICES ASSUME deadline[nf] # Late, deadline'[nf] # Late PROVE Kept(nf)'
  BY DEF Kept, Untouched
<1>2. PICK p \in Profiles : p = instance_id2nrf_profile[nf]
  BY <1>1 DEF Kept
<1>3. profile'[p] = profile[p] /\ (tick'.p = p <=> tick.p = p) /\ p = instance_id2nrf_profile'[nf]
      /\ deadline'[nf] = deadline[nf]
  BY <1>2 DEF Untouched
<1>4. Listed(nf)' <=> Listed(nf)
  BY DEF Untouched, Listed
<1>5. \A h \in Threads : http[h].nf = nf \/ http'[h].nf = nf => http'[h] = http[h]
  BY DEF Untouched
<1>6. tick'.nf = nf => tick.nf = nf /\ tick'.pc = tick.pc
  BY DEF Untouched
<1>7. profile'[p].nf_status = "REGISTERED" /\ ~Listed(nf)'
  BY <1>1, <1>2, <1>3, <1>4 DEF Kept
<1>8. \A h \in Threads : http'[h].nf = nf => http'[h].p = p /\ Stage(http'[h].pc, profile'[p], deadline'[nf])
  BY <1>1, <1>2, <1>3, <1>5 DEF Kept
<1>9. \A g, h \in Threads : http'[g].nf = nf /\ http'[h].nf = nf => g = h
  BY <1>1, <1>5 DEF Kept
<1>10. ~Busy(nf)' => Settled(profile'[p], deadline'[nf])
  BY <1>1, <1>2, <1>3, <1>5 DEF Kept, Busy
<1>11. tick'.nf = nf =>
         /\ tick'.p = p /\ tick'.pc = "reset"
         /\ profile'[p].hb_update = HeartBeat /\ AfterDeadline(profile'[p], deadline'[nf])
         /\ \A h \in Threads : http'[h].nf = nf => http'[h].pc \notin Updating
  BY <1>1, <1>2, <1>3, <1>5, <1>6 DEF Kept
<1>12. QED
  BY <1>2, <1>3, <1>7, <1>8, <1>9, <1>10, <1>11 DEF Kept

\* An NF that keeps its schedule has one object, at most one thread that works on it
\* and, at most, the slot that takes its update.
LEMMA KeptFields ==
  ASSUME TypeOK, NEW nf \in Nfs, Kept(nf), deadline[nf] # Late
  PROVE  \E p \in Profiles :
           /\ p = instance_id2nrf_profile[nf] /\ profile[p].nf_status = "REGISTERED" /\ ~Listed(nf)
           /\ deadline[nf] \in 0..HeartBeat + Slack - 1
           /\ profile[p] \in Objects
           /\ \A h \in Threads : http[h].nf = nf => http[h].p = p /\ Stage(http[h].pc, profile[p], deadline[nf])
           /\ \A g, h \in Threads : http[g].nf = nf /\ http[h].nf = nf => g = h
           /\ ~Busy(nf) => Settled(profile[p], deadline[nf])
           /\ tick.nf = nf =>
                /\ tick.p = p /\ tick.pc = "reset"
                /\ profile[p].hb_update = HeartBeat /\ AfterDeadline(profile[p], deadline[nf])
                /\ \A h \in Threads : http[h].nf = nf => http[h].pc \notin Updating
<1>1. PICK p \in Profiles : p = instance_id2nrf_profile[nf]
  BY DEF Kept
<1>2. deadline[nf] \in 0..HeartBeat + Slack - 1 /\ profile[p] \in Objects
  BY Times, TypeParts DEF TimeTypes, ObjectTypes
<1>3. QED
  BY <1>1, <1>2 DEF Kept

\* A thread h of nf works on object p of it, and no other, after a step.
LEMMA KeptBusy ==
  ASSUME TypeOK', NEW nf \in Nfs, NEW p \in Profiles, NEW h \in Threads,
         instance_id2nrf_profile'[nf] = p, profile'[p].nf_status = "REGISTERED", ~Listed(nf)',
         http'[h].nf = nf, http'[h].p = p, Stage(http'[h].pc, profile'[p], deadline'[nf]),
         \A g \in Threads : g # h => http'[g].nf # nf,
         tick'.nf = nf =>
           /\ tick'.p = p /\ tick'.pc = "reset"
           /\ profile'[p].hb_update = HeartBeat /\ AfterDeadline(profile'[p], deadline'[nf])
           /\ http'[h].pc \notin Updating
  PROVE  Kept(nf)'
<1>1. Busy(nf)'
  BY DEF Busy
<1>2. QED
  BY <1>1 DEF Kept

\* No thread of nf is left.
LEMMA KeptIdle ==
  ASSUME TypeOK', NEW nf \in Nfs, NEW p \in Profiles,
         instance_id2nrf_profile'[nf] = p, profile'[p].nf_status = "REGISTERED", ~Listed(nf)',
         Settled(profile'[p], deadline'[nf]),
         \A g \in Threads : http'[g].nf # nf,
         tick'.nf = nf =>
           /\ tick'.p = p /\ tick'.pc = "reset"
           /\ profile'[p].hb_update = HeartBeat /\ AfterDeadline(profile'[p], deadline'[nf])
  PROVE  Kept(nf)'
BY DEF Kept

\* A heartbeat in time takes the place of the next deadline.
LEMMA HeartbeatInTime ==
  ASSUME NEW o \in Objects, NEW d \in 0..Slack - 1, Settled(o, d)
  PROVE  /\ \/ o.first_hb > 0 /\ o.hb_update = Off /\ o.first_update
            \/ Supervised(o, d + HeartBeat)
         /\ AfterDeadline(o, d) => o.hb_update # HeartBeat
<1>1. o.first_hb \in Int /\ o.hb_update \in Int /\ o.hb_update >= -1
  BY Times, ObjectFields
<1>2. CASE BeforeUpdates(o, d)
  <2>1. o.first_hb > 0 /\ o.hb_update = Off /\ o.first_update
    BY <1>2, Times DEF BeforeUpdates
  <2>2. QED
    BY <2>1, Times
<1>3. CASE Supervised(o, d) /\ AfterDeadline(o, d)
  <2>1. AfterLastDeadline(o, d + HeartBeat)
    BY <1>1, <1>3, Times DEF AfterDeadline, AfterLastDeadline
  <2>2. o.hb_update # HeartBeat
    BY <1>1, <1>3, Times DEF AfterDeadline
  <2>3. QED
    BY <1>3, <2>1, <2>2 DEF Supervised
<1>4. CASE Supervised(o, d) /\ AfterLastDeadline(o, d)
  <2>1. o.hb_update # -1
    BY <1>4, Times DEF Supervised
  <2>2. o.hb_update <= d + Slack - HeartBeat
    BY <1>1, <1>4, Times DEF AfterLastDeadline
  <2>3. QED
    BY <1>1, <2>1, <2>2, Times
<1>5. QED
  BY <1>2, <1>3, <1>4 DEF Settled, Supervised

\* The requests that begin.
LEMMA KeptStarts ==
  ASSUME TypeOK, TypeOK', Owned, NEW h \in Threads, NEW nf \in Nfs, Kept(nf),
         Register(h, nf) \/ Heartbeat(h, nf) \/ ChangeProfile(h, nf) \/ Deregister(h, nf)
  PROVE  Kept(nf)'
<1>1. SUFFICES ASSUME deadline'[nf] # Late PROVE Kept(nf)'
  BY DEF Kept
<1>2. CASE Register(h, nf)
  <2>1. PICK p \in Profiles :
          /\ ~Referenced(p)
          /\ instance_id2nrf_profile' = [instance_id2nrf_profile EXCEPT ![nf] = p]
          /\ http'[h].pc = "arm" /\ http'[h].nf = nf /\ http'[h].p = p
          /\ KeptWith(p, [profile[p] EXCEPT !.nf = nf], {})
    BY <1>2, RegisterFacts
  <2>2. PICK o : o = [profile[p] EXCEPT !.nf = nf]
    OBVIOUS
  <2>3. KeptWith(p, o, {})
    BY <2>1, <2>2
  <2>4. profile[p] = Blank
    BY <2>1 DEF Owned
  <2>5. /\ o.nf_status = "REGISTERED" /\ o.first_hb = Off /\ o.hb_update = Off /\ o.first_update
    BY <2>2, <2>4 DEF Blank
  <2>6. Referenced(p)' /\ profile'[p] = o
    BY <2>1, <2>3 DEF Referenced, KeptWith
  <2>7. /\ ~Busy(nf) /\ ~Listed(nf) /\ tick.nf # nf /\ deadline'[nf] = HeartBeat + Slack - 1
    <3>1. PICK d : d = (IF Busy(nf) \/ Listed(nf) \/ tick.nf = nf THEN Late ELSE HeartBeat + Slack - 1)
      OBVIOUS
    <3>2. deadline' = [deadline EXCEPT ![nf] = d]
      BY <1>2, <3>1 DEF Register
    <3>3. deadline \in [Nfs -> Late..HeartBeat + Slack - 1]
      BY TypeParts DEF TimeTypes
    <3>4. deadline'[nf] = d
      BY <3>2, <3>3
    <3>5. QED
      BY <1>1, <3>1, <3>4
  <2>8. instance_id2nrf_profile'[nf] = p /\ UNCHANGED suspended_nf
    BY <1>2, <2>1, TypeParts DEF MapTypes, Register
  <2>9. OnlyThread(h) /\ SlotStays
    BY <1>2, RegisterFacts
  <2>10. Stage(http'[h].pc, profile'[p], deadline'[nf])
    BY <2>1, <2>5, <2>6, <2>7 DEF Stage
  <2>11. \A g \in Threads : g # h => http'[g].nf # nf
    BY <2>7, <2>9 DEF Busy, OnlyThread
  <2>12. ~Listed(nf)' /\ tick'.nf # nf
    BY <2>7, <2>8, <2>9 DEF Listed, SlotStays
  <2>13. QED
    BY <2>1, <2>5, <2>6, <2>8, <2>10, <2>11, <2>12, KeptBusy
<1>3. CASE Heartbeat(h, nf)
  <2>1. /\ deadline[nf] \in 0..Slack - 1 /\ ~Busy(nf) /\ deadline'[nf] = deadline[nf] + HeartBeat
    BY <1>1, <1>3, HeartbeatFacts
  <2>2. deadline[nf] # Late
    BY <2>1, Times
  <2>3. PICK p \in Profiles :
          /\ p = instance_id2nrf_profile[nf] /\ ~Listed(nf) /\ profile[p] \in Objects
          /\ Settled(profile[p], deadline[nf])
          /\ tick.nf = nf =>
               profile[p].hb_update = HeartBeat /\ AfterDeadline(profile[p], deadline[nf])
    BY <2>1, <2>2, KeptFields
  <2>4. /\ http'[h].pc = "put_back" /\ http'[h].nf = nf /\ http'[h].p = p /\ OnlyThread(h)
        /\ UNCHANGED <<instance_id2nrf_profile, suspended_nf, tick>>
    BY <1>3, <2>3, HeartbeatFacts DEF database
  <2>5. /\ profile'[p].nf_status = "REGISTERED" /\ profile'[p].first_update = profile[p].first_update
        /\ profile'[p].first_hb = profile[p].first_hb /\ profile'[p].hb_update = profile[p].hb_update
    BY <1>3, <2>3, HeartbeatFacts DEF Becomes
  <2>6. /\ \/ profile[p].first_hb > 0 /\ profile[p].hb_update = Off /\ profile[p].first_update
           \/ Supervised(profile[p], deadline[nf] + HeartBeat)
        /\ tick.nf # nf
    BY <2>1, <2>3, HeartbeatInTime
  <2>7. Stage(http'[h].pc, profile'[p], deadline'[nf])
    <3>1. deadline'[nf] >= HeartBeat
      BY <2>1, Times
    <3>2. \/ profile'[p].first_hb > 0 /\ profile'[p].hb_update = Off /\ profile'[p].first_update
          \/ Supervised(profile'[p], deadline'[nf])
      BY <2>1, <2>5, <2>6 DEF Supervised, AfterDeadline, AfterLastDeadline
    <3>3. QED
      BY <2>4, <3>1, <3>2 DEF Stage
  <2>8. \A g \in Threads : g # h => http'[g].nf # nf
    BY <2>1, <2>4 DEF Busy, OnlyThread
  <2>9. ~Listed(nf)' /\ tick'.nf # nf
    BY <2>3, <2>4, <2>6 DEF Listed
  <2>10. QED
    BY <2>3, <2>4, <2>5, <2>7, <2>8, <2>9, KeptBusy
<1>4. CASE ChangeProfile(h, nf)
  <2>1. ~Busy(nf) /\ deadline'[nf] = deadline[nf] /\ deadline[nf] # Late
    BY <1>1, <1>4, ChangeFacts
  <2>2. PICK p \in Profiles :
          /\ p = instance_id2nrf_profile[nf] /\ profile[p].nf_status = "REGISTERED" /\ ~Listed(nf)
          /\ Settled(profile[p], deadline[nf])
          /\ tick.nf = nf =>
               /\ tick.p = p /\ tick.pc = "reset"
               /\ profile[p].hb_update = HeartBeat /\ AfterDeadline(profile[p], deadline[nf])
    BY <2>1, KeptFields
  <2>3. /\ http'[h].pc = "replace" /\ http'[h].nf = nf /\ http'[h].p = p /\ OnlyThread(h)
        /\ UNCHANGED <<instance_id2nrf_profile, suspended_nf, profile, tick>>
    BY <1>4, <2>2, ChangeFacts DEF database
  <2>4. Stage(http'[h].pc, profile'[p], deadline'[nf]) /\ http'[h].pc \notin Updating
    BY <2>1, <2>2, <2>3 DEF Stage, Updating
  <2>5. \A g \in Threads : g # h => http'[g].nf # nf
    BY <2>1, <2>3 DEF Busy, OnlyThread
  <2>6. ~Listed(nf)'
    BY <2>2, <2>3 DEF Listed
  <2>7. QED
    BY <2>1, <2>2, <2>3, <2>4, <2>5, <2>6, KeptBusy
<1>5. CASE Deregister(h, nf)
  BY <1>1, <1>5, DeregisterFacts
<1>6. QED
  BY <1>2, <1>3, <1>4, <1>5

\* A request for nf that goes on with the object: what its stage becomes.
LEMMA KeptGoesOn ==
  ASSUME TypeOK, TypeOK', Owned, NEW h \in Threads, NEW nf \in Nfs, Kept(nf), deadline[nf] # Late,
         http[h].nf = nf, http'[h].nf = nf, http'[h].p = http[h].p, OnlyThread(h),
         UNCHANGED <<instance_id2nrf_profile, suspended_nf, tick>>, deadline'[nf] = deadline[nf],
         http[h].pc \in Updating \cup {"arm"},
         profile'[http[h].p].nf_status = "REGISTERED",
         Stage(http[h].pc, profile[http[h].p], deadline[nf]) =>
           Stage(http'[h].pc, profile'[http[h].p], deadline[nf])
  PROVE  Kept(nf)'
<1>1. PICK p \in Profiles :
        /\ p = instance_id2nrf_profile[nf] /\ ~Listed(nf) /\ profile[p] \in Objects
        /\ \A g \in Threads : http[g].nf = nf => http[g].p = p /\ Stage(http[g].pc, profile[p], deadline[nf])
        /\ \A g \in Threads : http[g].nf = nf => g = h
        /\ tick.nf = nf =>
             /\ profile[p].hb_update = HeartBeat
             /\ \A g \in Threads : http[g].nf = nf => http[g].pc \notin Updating
  BY KeptFields
<1>2. http[h].p = p /\ Stage(http[h].pc, profile[p], deadline[nf])
  BY <1>1
<1>3. tick.nf # nf
  <2>1. SUFFICES ASSUME tick.nf = nf PROVE FALSE
    OBVIOUS
  <2>2. http[h].pc = "arm"
    BY <1>1, <2>1
  <2>3. profile[p].hb_update = Off
    BY <1>2, <2>2 DEF Stage
  <2>4. QED
    BY <1>1, <2>1, <2>3, Times
<1>4. \A g \in Threads : g # h => http'[g].nf # nf
  BY <1>1 DEF OnlyThread
<1>5. ~Listed(nf)'
  BY <1>1 DEF Listed
<1>6. QED
  BY <1>1, <1>2, <1>3, <1>4, <1>5, KeptBusy

\* The request for nf that ends: its object is settled.
LEMMA KeptEnds ==
  ASSUME TypeOK, TypeOK', Owned, NEW h \in Threads, NEW nf \in Nfs, Kept(nf), deadline[nf] # Late,
         http[h].nf = nf, http'[h] = Idle, OnlyThread(h), SlotStays,
         instance_id2nrf_profile'[nf] = instance_id2nrf_profile[nf],
         \A i \in 0..1 : suspended_nf'[i] \subseteq suspended_nf[i], deadline'[nf] = deadline[nf],
         NEW o, NEW marked, KeptWith(http[h].p, o, marked),
         o.nf_status = profile[http[h].p].nf_status, o.hb_update = profile[http[h].p].hb_update,
         Stage(http[h].pc, profile[http[h].p], deadline[nf]) => Settled(o, deadline[nf])
  PROVE  Kept(nf)'
<1>1. PICK p \in Profiles :
        /\ p = instance_id2nrf_profile[nf] /\ profile[p].nf_status = "REGISTERED" /\ ~Listed(nf)
        /\ \A g \in Threads : http[g].nf = nf => http[g].p = p /\ Stage(http[g].pc, profile[p], deadline[nf])
        /\ \A g \in Threads : http[g].nf = nf => g = h
        /\ tick.nf = nf =>
             /\ tick.p = p /\ tick.pc = "reset"
             /\ profile[p].hb_update = HeartBeat /\ AfterDeadline(profile[p], deadline[nf])
  BY KeptFields
<1>2. http[h].p = p /\ Settled(o, deadline[nf])
  BY <1>1
<1>3. Referenced(p)' /\ profile'[p] = o
  BY <1>1, <1>2 DEF Referenced, KeptWith
<1>4. \A g \in Threads : http'[g].nf # nf
  BY <1>1, BlankFields DEF OnlyThread
<1>5. ~Listed(nf)'
  BY <1>1 DEF Listed
<1>6. tick'.nf = nf =>
        /\ tick'.p = p /\ tick'.pc = "reset"
        /\ o.hb_update = HeartBeat /\ AfterDeadline(o, deadline[nf])
  BY <1>1, <1>2, <1>3 DEF SlotStays, AfterDeadline
<1>7. QED
  BY <1>1, <1>2, <1>3, <1>4, <1>5, <1>6, KeptIdle

\* The requests that are under way.
LEMMA KeptSteps ==
  ASSUME TypeOK, TypeOK', Owned, NEW h \in Threads, NEW nf \in Nfs, Kept(nf), http[h].nf = nf,
         \/ subscribe_heartbeat_timeout_nfregistration(h) \/ nf_status_registered(h)
         \/ update_nf_profile(h) \/ unsubscribe_heartbeat_timeout_nfregistration(h)
         \/ Subscribe(h) \/ EndHeartbeat(h) \/ remove_nf_profile(h)
  PROVE  Kept(nf)'
<1>1. SUFFICES ASSUME deadline'[nf] # Late PROVE Kept(nf)'
  BY DEF Kept
<1>2. deadline'[nf] = deadline[nf] /\ ~remove_nf_profile(h)
  BY <1>1, ArmFacts, NotifyFacts, UpdateFacts, UnsubscribeFacts, SubscribeFacts, FlagFacts, RemoveFacts DEF history
<1>3. PICK p \in Profiles :
        /\ p = instance_id2nrf_profile[nf] /\ p = http[h].p
        /\ profile[p].nf_status = "REGISTERED" /\ profile[p] \in Objects
        /\ deadline[nf] \in 0..HeartBeat + Slack - 1
        /\ Stage(http[h].pc, profile[p], deadline[nf])
  BY <1>1, <1>2, KeptFields
<1>4. PICK d : d = deadline[nf]
  OBVIOUS
<1>5. Off = -1 /\ profile[p].first_hb \in Int /\ profile[p].hb_update \in Int
  BY <1>3, Times, ObjectFields
<1>6. CASE subscribe_heartbeat_timeout_nfregistration(h)
  <2>1. /\ http[h].pc = "arm" /\ http'[h].pc = "notify" /\ http'[h].nf = nf /\ http'[h].p = http[h].p
        /\ OnlyThread(h) /\ UNCHANGED <<instance_id2nrf_profile, suspended_nf, tick>>
    BY <1>6, ArmFacts DEF database
  <2>2. /\ profile'[p].nf_status = "REGISTERED" /\ profile'[p].first_update = profile[p].first_update
        /\ profile'[p].first_hb = FirstTimeout /\ profile'[p].hb_update = profile[p].hb_update
    BY <1>3, <1>6, ArmFacts DEF Becomes
  <2>3. Stage(http[h].pc, profile[p], d) => Stage(http'[h].pc, profile'[p], d)
    <3>1. SUFFICES ASSUME Stage("arm", profile[p], d) PROVE BeforeUpdates(profile'[p], d)
      BY <2>1 DEF Stage, Settled
    <3>2. d = HeartBeat + Slack - 1 /\ profile[p].hb_update = Off /\ profile[p].first_update
      BY <3>1 DEF Stage
    <3>3. FirstTimeout = d + HeartBeat - Slack + 1
      BY <3>2, Times
    <3>4. QED
      BY <2>2, <3>2, <3>3 DEF BeforeUpdates
  <2>4. QED
    BY <1>1, <1>2, <1>3, <1>4, <2>1, <2>2, <2>3, KeptGoesOn
<1>7. CASE nf_status_registered(h)
  <2>1. /\ http[h].pc = "notify" /\ http'[h] = Idle /\ OnlyThread(h) /\ SlotStays
        /\ KeptWith(http[h].p, profile[http[h].p], {})
        /\ UNCHANGED <<instance_id2nrf_profile, suspended_nf>>
    BY <1>7, NotifyFacts DEF database
  <2>2. Settled(profile[p], d)
    BY <1>3, <1>4, <2>1 DEF Stage
  <2>3. QED
    BY <1>1, <1>2, <1>3, <1>4, <2>1, <2>2, KeptEnds
<1>8. CASE update_nf_profile(h)
  <2>1. PICK marked : marked = IF instance_id2nrf_profile[http[h].nf] \in {http[h].p, NoProfile} THEN {}
                               ELSE {http[h].p}
    OBVIOUS
  <2>2. KeptWith(http[h].p, profile[http[h].p],
                 IF instance_id2nrf_profile[http[h].nf] \in {http[h].p, NoProfile} THEN {}
                 ELSE {http[h].p})
    BY <1>8, UpdateFacts, Zenon
  <2>3. KeptWith(http[h].p, profile[http[h].p], marked)
    BY <2>1, <2>2
  <2>4. /\ http[h].pc \in {"put_back", "replace"} /\ OnlyThread(h) /\ SlotStays
        /\ \/ http[h].pc = "replace" /\ http'[h] = Idle
           \/ /\ http[h].pc = "put_back" /\ http'[h].pc = "unsubscribe"
              /\ http'[h].nf = http[h].nf /\ http'[h].p = http[h].p
        /\ instance_id2nrf_profile'[nf] = p
        /\ UNCHANGED suspended_nf
    BY <1>3, <1>8, UpdateFacts
  <2>5. CASE http[h].pc = "replace" /\ http'[h] = Idle
    <3>1. Settled(profile[p], d)
      BY <1>3, <1>4, <2>5 DEF Stage
    <3>2. QED
      BY <1>1, <1>2, <1>3, <1>4, <2>3, <2>4, <2>5, <3>1, KeptEnds
  <2>6. CASE /\ http[h].pc = "put_back" /\ http'[h].pc = "unsubscribe"
             /\ http'[h].nf = http[h].nf /\ http'[h].p = http[h].p
    <3>1. PICK q \in Profiles :
            /\ q = instance_id2nrf_profile[nf] /\ ~Listed(nf)
            /\ \A g \in Threads : http[g].nf = nf => g = h
            /\ tick.nf = nf => \A g \in Threads : http[g].nf = nf => http[g].pc \notin Updating
      BY <1>1, <1>2, KeptFields
    <3>2. Referenced(p)'
      BY <2>4 DEF Referenced
    <3>3. profile'[p] = profile[p]
      BY <1>3, <2>3, <3>2 DEF KeptWith
    <3>4. Stage(http'[h].pc, profile'[p], deadline'[nf])
      BY <1>2, <1>3, <2>6, <3>3 DEF Stage
    <3>5. tick'.nf # nf
      BY <2>4, <2>6, <3>1 DEF SlotStays, Updating
    <3>6. \A g \in Threads : g # h => http'[g].nf # nf
      BY <2>4, <3>1 DEF OnlyThread
    <3>7. ~Listed(nf)'
      BY <2>4, <3>1 DEF Listed
    <3>8. QED
      BY <1>3, <2>4, <2>6, <3>3, <3>4, <3>5, <3>6, <3>7, KeptBusy
  <2>7. QED
    BY <2>4, <2>5, <2>6
<1>9. CASE unsubscribe_heartbeat_timeout_nfregistration(h)
  <2>1. /\ http[h].pc = "unsubscribe" /\ http'[h].pc = "subscribe" /\ http'[h].nf = nf /\ http'[h].p = http[h].p
        /\ OnlyThread(h) /\ UNCHANGED <<instance_id2nrf_profile, suspended_nf, tick>>
        /\ profile[p].first_hb # Off
    BY <1>3, <1>9, UnsubscribeFacts DEF database
  <2>2. /\ profile'[p].nf_status = "REGISTERED" /\ profile'[p].first_update = profile[p].first_update
        /\ profile'[p].first_hb = Off /\ profile'[p].hb_update = profile[p].hb_update
    BY <1>3, <1>9, UnsubscribeFacts DEF Becomes
  <2>3. Stage(http[h].pc, profile[p], d) => Stage(http'[h].pc, profile'[p], d)
    BY <2>1, <2>2 DEF Stage, Supervised
  <2>4. http[h].pc \in Updating
    BY <2>1 DEF Updating
  <2>5. QED
    BY <1>1, <1>2, <1>3, <1>4, <2>1, <2>2, <2>3, <2>4, KeptGoesOn
<1>10. CASE Subscribe(h)
  <2>1. /\ \/ http[h].pc = "subscribe"
           \/ http[h].pc = "unsubscribe" /\ profile[p].first_hb = Off
        /\ http'[h].pc = "flag" /\ http'[h].nf = nf /\ http'[h].p = http[h].p
        /\ OnlyThread(h) /\ UNCHANGED <<instance_id2nrf_profile, suspended_nf, tick>>
    BY <1>3, <1>10, SubscribeFacts DEF database
  <2>2. /\ profile'[p].nf_status = "REGISTERED"
        /\ profile'[p].first_update = (profile[p].first_update /\ profile[p].hb_update # Off)
        /\ profile'[p].first_hb = profile[p].first_hb
        /\ profile'[p].hb_update = IF profile[p].hb_update = Off /\ profile[p].first_update
                                   THEN FirstUpdateTimeout ELSE profile[p].hb_update
    BY <1>3, <1>10, SubscribeFacts DEF Becomes
  <2>3. d \in Int /\ d >= HeartBeat /\ d <= HeartBeat + Slack - 1
    BY <1>3, <1>4, <2>1, Times DEF Stage
  <2>4. Supervised(profile'[p], d)
    <3>1. CASE http[h].pc = "subscribe"
      <4>1. profile[p].first_hb = Off /\ profile[p].hb_update = Off /\ profile[p].first_update
        BY <1>3, <1>4, <3>1 DEF Stage
      <4>2. profile'[p].first_hb = Off /\ ~profile'[p].first_update /\ profile'[p].hb_update = FirstUpdateTimeout
        BY <2>2, <4>1
      <4>3. AfterDeadline(profile'[p], d)
        BY <2>3, <4>2, Times DEF AfterDeadline
      <4>4. FirstUpdateTimeout # Off
        BY Times
      <4>5. QED
        BY <4>2, <4>3, <4>4 DEF Supervised
    <3>2. CASE http[h].pc = "unsubscribe" /\ profile[p].first_hb = Off
      <4>1. Supervised(profile[p], d)
        BY <1>3, <1>4, <1>5, <3>2 DEF Stage
      <4>2. profile[p].hb_update # Off /\ ~profile[p].first_update
        BY <4>1 DEF Supervised
      <4>3. profile'[p].hb_update = profile[p].hb_update /\ ~profile'[p].first_update
        BY <2>2, <4>2
      <4>4. QED
        BY <2>2, <4>1, <4>2, <4>3 DEF Supervised, AfterDeadline, AfterLastDeadline
    <3>3. QED
      BY <2>1, <3>1, <3>2
  <2>5. Stage(http'[h].pc, profile'[p], d)
    BY <2>1, <2>3, <2>4 DEF Stage
  <2>6. http[h].pc \in Updating
    BY <2>1 DEF Updating
  <2>7. QED
    BY <1>1, <1>2, <1>3, <1>4, <2>1, <2>2, <2>5, <2>6, KeptGoesOn
<1>11. CASE EndHeartbeat(h)
  <2>1. PICK o \in Objects :
          /\ KeptWith(http[h].p, o, {})
          /\ LET q == profile[http[h].p] IN
             /\ o.nf_status = q.nf_status /\ o.is_updated = TRUE
             /\ o.first_update = q.first_update /\ o.first_hb = q.first_hb /\ o.hb_update = q.hb_update
    BY <1>11, FlagFacts
  <2>2. /\ http[h].pc = "flag" /\ http'[h] = Idle /\ OnlyThread(h) /\ SlotStays
        /\ (\A i \in 0..1 : suspended_nf'[i] \subseteq suspended_nf[i]) /\ UNCHANGED instance_id2nrf_profile
    BY <1>11, FlagFacts
  <2>3. Supervised(profile[p], d)
    BY <1>3, <1>4, <2>2 DEF Stage
  <2>4. Settled(o, d)
    BY <1>3, <2>1, <2>3 DEF Settled, Supervised, AfterDeadline, AfterLastDeadline
  <2>5. QED
    BY <1>1, <1>2, <1>3, <1>4, <2>1, <2>2, <2>4, KeptEnds
<1>12. QED
  BY <1>2, <1>6, <1>7, <1>8, <1>9, <1>10, <1>11

\* The object of a time-out of nf is the one that is kept.
LEMMA KeptObject ==
  ASSUME TypeOK, Owned, NEW nf \in Nfs, Kept(nf), deadline[nf] # Late,
         NEW p \in Profiles, Referenced(p), profile[p].nf = nf
  PROVE  /\ p = instance_id2nrf_profile[nf]
         /\ deadline[nf] \in 0..HeartBeat + Slack - 1 /\ profile[p] \in Objects
         /\ \/ ~Busy(nf) /\ Settled(profile[p], deadline[nf])
            \/ \E h \in Threads : http[h].nf = nf /\ Stage(http[h].pc, profile[p], deadline[nf])
<1>1. PICK q \in Profiles :
        /\ q = instance_id2nrf_profile[nf]
        /\ deadline[nf] \in 0..HeartBeat + Slack - 1 /\ profile[q] \in Objects
        /\ \A h \in Threads : http[h].nf = nf => http[h].p = q /\ Stage(http[h].pc, profile[q], deadline[nf])
        /\ ~Busy(nf) => Settled(profile[q], deadline[nf])
  BY KeptFields
<1>2. p = q
  <2>1. CASE \E m \in Nfs : instance_id2nrf_profile[m] = p
    BY <1>1, <2>1 DEF Owned
  <2>2. CASE \E h \in Threads : http[h].p = p
    BY <1>1, <2>2 DEF Owned
  <2>3. QED
    BY <2>1, <2>2 DEF Referenced
<1>3. QED
  BY <1>1, <1>2 DEF Busy

\* No time-out of an object that is kept finds it without its update.
LEMMA KeptInTime ==
  ASSUME NEW o \in Objects, NEW d \in 0..HeartBeat + Slack - 1, NEW pc,
         Settled(o, d) \/ Stage(pc, o, d)
  PROVE  /\ o.first_hb # 0
         /\ o.hb_update = 0 =>
              /\ o.is_updated /\ Supervised(o, d) /\ d \in HeartBeat - Slack..HeartBeat - 1
              /\ Settled(o, d) \/ pc \in {"notify", "replace"}
<1>1. o.first_hb \in Int /\ o.hb_update \in Int /\ Off = -1
  BY Times, ObjectFields
<1>2. BeforeUpdates(o, d) => o.first_hb # 0 /\ o.hb_update # 0
  BY <1>1, Times DEF BeforeUpdates
<1>3. Supervised(o, d) => o.first_hb # 0
  BY <1>1 DEF Supervised
<1>4. Supervised(o, d) /\ o.hb_update = 0 => d \in HeartBeat - Slack..HeartBeat - 1 /\ ~AfterDeadline(o, d)
  BY <1>1, Times DEF Supervised, AfterDeadline, AfterLastDeadline
<1>5. CASE Settled(o, d)
  BY <1>2, <1>3, <1>4, <1>5 DEF Settled
<1>6. CASE Stage(pc, o, d) /\ ~Settled(o, d)
  <2>1. CASE pc \in {"notify", "replace"} /\ Settled(o, d)
    BY <1>6, <2>1
  <2>2. CASE o.hb_update = Off /\ (o.first_hb = Off \/ o.first_hb > 0)
    BY <1>1, <2>2
  <2>3. CASE Supervised(o, d) /\ d >= HeartBeat
    BY <1>1, <1>3, <1>4, <2>3, Times
  <2>4. QED
    BY <1>6, <2>1, <2>2, <2>3 DEF Stage
<1>7. QED
  BY <1>5, <1>6

\* The time-outs: the one before an update does not come, the one after finds the update.
LEMMA KeptTimeouts ==
  ASSUME TypeOK, TypeOK', Owned, NEW p \in Profiles, NEW nf \in Nfs, Kept(nf), profile[p].nf = nf,
         handle_heartbeat_timeout_nfregistration(p) \/ handle_heartbeat_timeout_nfupdate(p)
  PROVE  Kept(nf)'
<1>1. SUFFICES ASSUME deadline'[nf] # Late PROVE Kept(nf)'
  BY DEF Kept
<1>2. /\ Referenced(p) /\ tick'.p = p /\ OnlyObject(p) /\ UNCHANGED <<database, timing, http, history>>
  BY FirstTimeoutFacts, TimeoutFacts
<1>3. deadline'[nf] = deadline[nf] /\ deadline[nf] # Late
  BY <1>1, <1>2 DEF history
<1>4. PICK d : d = deadline[nf]
  OBVIOUS
<1>5. /\ p = instance_id2nrf_profile[nf] /\ d \in 0..HeartBeat + Slack - 1 /\ profile[p] \in Objects
      /\ \/ ~Busy(nf) /\ Settled(profile[p], d)
         \/ \E h \in Threads : http[h].nf = nf /\ Stage(http[h].pc, profile[p], d)
  BY <1>2, <1>3, <1>4, KeptObject
<1>6. profile[p].first_hb # 0
  BY <1>5, KeptInTime
<1>7. CASE handle_heartbeat_timeout_nfregistration(p)
  BY <1>6, <1>7, FirstTimeoutFacts
<1>8. CASE handle_heartbeat_timeout_nfupdate(p)
  <2>1. /\ profile[p].is_updated /\ Supervised(profile[p], d) /\ d \in HeartBeat - Slack..HeartBeat - 1
    BY <1>5, <1>8, KeptInTime, TimeoutFacts
  <2>2. /\ tick'.pc = "reset" /\ profile'[p].nf_status = profile[p].nf_status
        /\ profile'[p].is_updated = profile[p].is_updated
        /\ profile'[p].first_update = profile[p].first_update /\ profile'[p].first_hb = profile[p].first_hb
        /\ profile'[p].hb_update = HeartBeat
    BY <1>8, <2>1, TimeoutFacts DEF Becomes
  <2>3. AfterDeadline(profile'[p], d)
    BY <2>1, <2>2, Times DEF AfterDeadline
  <2>4. Supervised(profile'[p], d) /\ Settled(profile'[p], d)
    <3>1. HeartBeat # Off
      BY Times
    <3>2. QED
      BY <2>1, <2>2, <2>3, <3>1 DEF Supervised, Settled
  <2>5. PICK q \in Profiles :
          /\ q = instance_id2nrf_profile[nf] /\ profile[q].nf_status = "REGISTERED" /\ ~Listed(nf)
          /\ \A h \in Threads : http[h].nf = nf => http[h].p = q /\ Stage(http[h].pc, profile[q], d)
          /\ \A g, h \in Threads : http[g].nf = nf /\ http[h].nf = nf => g = h
    BY <1>3, <1>4, KeptFields
  <2>6. ~Listed(nf)' /\ p = q /\ UNCHANGED <<instance_id2nrf_profile, http>>
    BY <1>2, <1>5, <2>5 DEF Listed, database
  <2>7. CASE ~Busy(nf)
    <3>1. \A g \in Threads : http'[g].nf # nf
      BY <2>6, <2>7 DEF Busy
    <3>2. QED
      BY <1>2, <1>3, <1>4, <1>5, <2>2, <2>3, <2>4, <2>5, <2>6, <3>1, KeptIdle
  <2>8. CASE Busy(nf)
    <3>1. PICK h \in Threads : http[h].nf = nf
      BY <2>8 DEF Busy
    <3>2. Stage(http[h].pc, profile[p], d) /\ http[h].p = p
      BY <2>5, <2>6, <3>1
    <3>3. http[h].pc \in {"notify", "replace"}
      <4>1. profile[p].hb_update = 0
        BY <1>8, TimeoutFacts
      <4>2. http[h].pc \in {"notify", "replace"} \/ d >= HeartBeat \/ profile[p].hb_update = Off
        BY <3>2 DEF Stage
      <4>3. QED
        BY <2>1, <4>1, <4>2, Times
    <3>4. Stage(http[h].pc, profile'[p], d) /\ http[h].pc \notin Updating
      BY <2>4, <3>3 DEF Stage, Updating
    <3>5. \A g \in Threads : g # h => http'[g].nf # nf
      BY <2>5, <2>6, <3>1
    <3>6. QED
      BY <1>2, <1>3, <1>4, <1>5, <2>2, <2>3, <2>5, <2>6, <3>1, <3>2, <3>4, <3>5, KeptBusy
  <2>9. QED
    BY <2>7, <2>8
<1>9. QED
  BY <1>7, <1>8

\* The rest of a slot: only one that saw the update.
LEMMA KeptSlots ==
  ASSUME TypeOK, TypeOK', Owned, NEW nf \in Nfs, Kept(nf), tick.nf = nf,
         SetSuspended \/ add_to_suspended_list \/ EndSlot
  PROVE  Kept(nf)'
<1>1. SUFFICES ASSUME deadline'[nf] # Late PROVE Kept(nf)'
  BY DEF Kept
<1>2. deadline'[nf] = deadline[nf]
  BY SuspendFacts, ListFacts, EndSlotFacts DEF history
<1>3. PICK d : d = deadline[nf]
  OBVIOUS
<1>4. PICK p \in Profiles :
        /\ p = instance_id2nrf_profile[nf] /\ profile[p].nf_status = "REGISTERED" /\ ~Listed(nf)
        /\ d \in 0..HeartBeat + Slack - 1 /\ profile[p] \in Objects
        /\ \A h \in Threads : http[h].nf = nf => http[h].p = p /\ Stage(http[h].pc, profile[p], d)
        /\ \A g, h \in Threads : http[g].nf = nf /\ http[h].nf = nf => g = h
        /\ ~Busy(nf) => Settled(profile[p], d)
        /\ tick.p = p /\ tick.pc = "reset"
        /\ profile[p].hb_update = HeartBeat /\ AfterDeadline(profile[p], d)
        /\ \A h \in Threads : http[h].nf = nf => http[h].pc \notin Updating
  BY <1>1, <1>2, <1>3, KeptFields
<1>5. EndSlot
  BY <1>4, SuspendFacts, ListFacts
<1>6. tick' = Resting /\ UNCHANGED <<instance_id2nrf_profile, suspended_nf, http>>
  BY <1>5, EndSlotFacts DEF database
<1>7. /\ profile'[p].nf_status = "REGISTERED" /\ profile'[p].first_update = profile[p].first_update
      /\ profile'[p].first_hb = profile[p].first_hb /\ profile'[p].hb_update = HeartBeat
  BY <1>4, <1>5, EndSlotFacts DEF Becomes
<1>8. HeartBeat # Off /\ Off = -1
  BY Times
<1>9. Settled(profile[p], d) => Settled(profile'[p], d)
  BY <1>4, <1>7, <1>8 DEF Settled, BeforeUpdates, Supervised, AfterDeadline
<1>10. tick'.nf # nf /\ ~Listed(nf)'
  BY <1>4, <1>6, BlankFields DEF Listed
<1>11. CASE ~Busy(nf)
  <2>1. \A g \in Threads : http'[g].nf # nf
    BY <1>6, <1>11 DEF Busy
  <2>2. QED
    BY <1>2, <1>3, <1>4, <1>6, <1>7, <1>9, <1>10, <1>11, <2>1, KeptIdle
<1>12. CASE Busy(nf)
  <2>1. PICK h \in Threads : http[h].nf = nf
    BY <1>12 DEF Busy
  <2>2. Stage(http[h].pc, profile[p], d) /\ http[h].p = p /\ http[h].pc \notin Updating
    BY <1>4, <2>1
  <2>3. Stage(http[h].pc, profile'[p], d)
    BY <1>4, <1>8, <1>9, <2>2 DEF Stage, Updating
  <2>4. \A g \in Threads : g # h => http'[g].nf # nf
    BY <1>4, <1>6, <2>1
  <2>5. QED
    BY <1>2, <1>3, <1>4, <1>6, <1>7, <1>10, <2>1, <2>2, <2>3, <2>4, KeptBusy
<1>13. QED
  BY <1>11, <1>12

\* The removal of suspended NFs.
LEMMA KeptRemoval ==
  ASSUME TypeOK, TypeOK', Owned, NEW nf \in Nfs, Kept(nf), EraseSuspended \/ ClearSuspended
  PROVE  Kept(nf)'
<1>1. SUFFICES ASSUME deadline'[nf] # Late PROVE Kept(nf)'
  BY DEF Kept
<1>2. deadline'[nf] = deadline[nf] /\ UNCHANGED http
  BY EraseFacts, ClearFacts DEF history
<1>3. PICK d : d = deadline[nf]
  OBVIOUS
<1>4. PICK p \in Profiles :
        /\ p = instance_id2nrf_profile[nf] /\ profile[p].nf_status = "REGISTERED" /\ ~Listed(nf)
        /\ \A h \in Threads : http[h].nf = nf => http[h].p = p /\ Stage(http[h].pc, profile[p], d)
        /\ \A g, h \in Threads : http[g].nf = nf /\ http[h].nf = nf => g = h
        /\ ~Busy(nf) => Settled(profile[p], d)
  BY <1>1, <1>2, <1>3, KeptFields
<1>5. /\ instance_id2nrf_profile'[nf] = p /\ profile'[p] = profile[p] /\ tick'.nf # nf /\ ~Listed(nf)'
  <2>1. CASE EraseSuspended
    <3>1. TimeTypes
      BY TypeParts
    <3>2. Part \in 0..1
      BY <3>1, PartValue
    <3>3. nf \notin suspended_nf[1 - Part]
      <4>1. 1 - Part \in {0, 1}
        BY <3>2
      <4>2. QED
        BY <1>4, <4>1 DEF Listed
    <3>4. \A m \in Nfs : instance_id2nrf_profile'[m] =
            IF m \in suspended_nf[1 - Part] THEN NoProfile ELSE instance_id2nrf_profile[m]
      BY <2>1, EraseFacts
    <3>5. instance_id2nrf_profile'[nf] = p
      BY <1>4, <3>3, <3>4
    <3>6. Referenced(p)'
      BY <3>5 DEF Referenced
    <3>7. KeptWith(NoProfile, Blank, {}) /\ tick'.nf = NoNf /\ UNCHANGED suspended_nf
      BY <2>1, EraseFacts
    <3>8. profile'[p] = profile[p]
      BY <3>6, <3>7, BlankFields DEF KeptWith
    <3>9. QED
      BY <1>4, <3>5, <3>7, <3>8, BlankFields DEF Listed
  <2>2. CASE ClearSuspended
    <3>1. /\ tick' = Resting /\ (\A i \in 0..1 : suspended_nf'[i] \subseteq suspended_nf[i])
          /\ UNCHANGED <<instance_id2nrf_profile, profile>>
      BY <2>2, ClearFacts
    <3>2. QED
      BY <1>4, <3>1, BlankFields DEF Listed
  <2>3. QED
    BY <2>1, <2>2
<1>6. CASE ~Busy(nf)
  <2>1. \A g \in Threads : http'[g].nf # nf
    BY <1>2, <1>6 DEF Busy
  <2>2. QED
    BY <1>2, <1>3, <1>4, <1>5, <1>6, <2>1, KeptIdle
<1>7. CASE Busy(nf)
  <2>1. PICK h \in Threads : http[h].nf = nf
    BY <1>7 DEF Busy
  <2>2. \A g \in Threads : g # h => http'[g].nf # nf
    BY <1>2, <1>4, <2>1
  <2>3. QED
    BY <1>2, <1>3, <1>4, <1>5, <2>1, <2>2, KeptBusy
<1>8. QED
  BY <1>6, <1>7

\* Time takes the deadline and the time-out along.
LEMMA KeptPass ==
  ASSUME TypeOK, TypeOK', NEW nf \in Nfs, Kept(nf), TimePasses
  PROVE  Kept(nf)'
<1>1. SUFFICES ASSUME deadline'[nf] # Late PROVE Kept(nf)'
  BY DEF Kept
<1>2. deadline'[nf] = Down(deadline[nf]) /\ deadline[nf] \in Late..HeartBeat + Slack - 1
  <2>1. \A m \in Nfs : deadline'[m] = Down(deadline[m])
    BY PassFacts
  <2>2. QED
    BY <2>1, TypeParts DEF TimeTypes
<1>3. deadline[nf] # Late
  BY <1>1, <1>2, Times DEF Down
<1>4. PICK p \in Profiles :
        /\ p = instance_id2nrf_profile[nf] /\ profile[p].nf_status = "REGISTERED" /\ ~Listed(nf)
        /\ profile[p] \in Objects
        /\ ~Busy(nf) => Settled(profile[p], deadline[nf])
  BY <1>3, KeptFields
<1>5. PICK d : d = deadline[nf]
  OBVIOUS
<1>6. deadline'[nf] = d - 1 /\ d \in Nat
  BY <1>2, <1>3, <1>5, Times DEF Down
<1>7. (\A h \in Threads : http[h] = Idle) /\ tick = Resting /\ UNCHANGED <<database, http, tick>>
  BY PassFacts
<1>8. \A g \in Threads : http[g].nf # nf /\ http'[g].nf # nf
  BY <1>7, BlankFields
<1>9. profile[p] \in Objects /\ Settled(profile[p], d)
  BY <1>4, <1>5, <1>8 DEF Busy
<1>10. /\ profile'[p].nf_status = "REGISTERED" /\ profile'[p].is_updated = profile[p].is_updated
       /\ profile'[p].first_update = profile[p].first_update
       /\ profile'[p].first_hb = Down(profile[p].first_hb)
       /\ profile'[p].hb_update = Down(profile[p].hb_update)
       /\ profile[p].first_hb # 0 /\ profile[p].hb_update # 0
  BY <1>4, PassFacts DEF Becomes
<1>11. profile[p].first_hb \in Int /\ profile[p].hb_update \in Int /\ Off = -1
  BY <1>9, Times, ObjectFields
<1>12. Settled(profile'[p], d - 1)
  <2>1. CASE BeforeUpdates(profile[p], d)
    <3>1. profile[p].first_hb > 0 /\ profile[p].hb_update = Off
      BY <1>6, <1>11, <2>1, Times DEF BeforeUpdates
    <3>2. profile'[p].first_hb = profile[p].first_hb - 1 /\ profile'[p].hb_update = Off
      BY <1>10, <1>11, <3>1 DEF Down
    <3>3. BeforeUpdates(profile'[p], d - 1)
      BY <1>6, <1>10, <1>11, <2>1, <3>2, Times DEF BeforeUpdates
    <3>4. QED
      BY <3>3 DEF Settled
  <2>2. CASE Supervised(profile[p], d) /\ (AfterDeadline(profile[p], d) \/ profile[p].is_updated)
    <3>1. /\ profile'[p].first_hb = Off /\ profile'[p].hb_update = profile[p].hb_update - 1
      BY <1>10, <1>11, <2>2 DEF Supervised, Down
    <3>2. profile'[p].hb_update # Off
      BY <1>10, <1>11, <3>1
    <3>3. /\ AfterDeadline(profile[p], d) => AfterDeadline(profile'[p], d - 1)
          /\ AfterLastDeadline(profile[p], d) => AfterLastDeadline(profile'[p], d - 1)
      BY <1>6, <1>11, <3>1, Times DEF AfterDeadline, AfterLastDeadline
    <3>4. QED
      BY <1>10, <2>2, <3>1, <3>2, <3>3 DEF Supervised, Settled
  <2>3. QED
    BY <1>9, <2>1, <2>2 DEF Settled
<1>13. /\ instance_id2nrf_profile'[nf] = p /\ ~Listed(nf)' /\ tick'.nf # nf
  BY <1>4, <1>7, BlankFields DEF database, Listed
<1>14. QED
  BY <1>6, <1>8, <1>10, <1>12, <1>13, KeptIdle

\* What is kept stays kept.
LEMMA KeptNext ==
  ASSUME TypeOK, Owned, PromptKept, [Next]_vars
  PROVE  PromptKept'
<1>1. TypeOK' /\ Owned'
  BY OwnedNext
<1>2. SUFFICES ASSUME NEW m \in Nfs PROVE Kept(m)'
  BY DEF PromptKept
<1>3. Kept(m)
  BY DEF PromptKept
<1>4. ASSUME NEW h \in Threads, HttpThread(h) PROVE Kept(m)'
  <2>1. ASSUME NEW nf \in Nfs, Register(h, nf) \/ Heartbeat(h, nf) \/ ChangeProfile(h, nf) \/ Deregister(h, nf)
        PROVE  Kept(m)'
    <3>1. CASE m = nf
      BY <1>1, <1>3, <2>1, <3>1, KeptStarts
    <3>2. CASE m # nf
      BY <1>1, <1>3, <2>1, <3>2, OthersStart, UntouchedKept
    <3>3. QED
      BY <3>1, <3>2
  <2>2. CASE \/ subscribe_heartbeat_timeout_nfregistration(h) \/ nf_status_registered(h)
             \/ update_nf_profile(h) \/ unsubscribe_heartbeat_timeout_nfregistration(h)
             \/ Subscribe(h) \/ EndHeartbeat(h) \/ remove_nf_profile(h)
    <3>1. CASE http[h].nf = m
      BY <1>1, <1>3, <2>2, <3>1, KeptSteps
    <3>2. CASE http[h].nf # m
      BY <1>1, <1>3, <2>2, <3>2, OthersGoOn, UntouchedKept
    <3>3. QED
      BY <3>1, <3>2
  <2>3. CASE \/ \E s \in Subs : CreateSubscription(h, s) \/ RemoveSubscription(h, s)
             \/ find_nf_profiles(h)
    BY <1>1, <1>3, <2>3, OthersSubscriptions, UntouchedKept
  <2>4. QED
    BY <1>4, <2>1, <2>2, <2>3 DEF HttpThread
<1>5. ASSUME NEW p \in Profiles,
             handle_heartbeat_timeout_nfregistration(p) \/ handle_heartbeat_timeout_nfupdate(p)
      PROVE  Kept(m)'
  <2>1. CASE profile[p].nf = m
    BY <1>1, <1>3, <1>5, <2>1, KeptTimeouts
  <2>2. CASE profile[p].nf # m
    BY <1>1, <1>3, <1>5, <2>2, OthersTimeout, UntouchedKept
  <2>3. QED
    BY <2>1, <2>2
<1>6. CASE SetSuspended \/ add_to_suspended_list \/ EndSlot
  <2>1. CASE tick.nf = m
    BY <1>1, <1>3, <1>6, <2>1, KeptSlots
  <2>2. CASE tick.nf # m
    BY <1>1, <1>3, <1>6, <2>2, OthersSlots, UntouchedKept
  <2>3. QED
    BY <2>1, <2>2
<1>7. CASE EraseSuspended \/ ClearSuspended
  BY <1>1, <1>3, <1>7, KeptRemoval
<1>8. CASE TimePasses
  BY <1>1, <1>3, <1>8, KeptPass
<1>9. CASE UNCHANGED vars
  <2>1. Kept(m)' <=> Kept(m)
    BY <1>9 DEF vars, database, timing, history, Kept, Listed, Busy
  <2>2. QED
    BY <1>3, <2>1
<1>10. QED
  BY <1>4, <1>5, <1>6, <1>7, <1>8, <1>9 DEF Next, TickTask

-----------------------------------------------------------------------------
(* NFs that stop.                                                           *)

\* A request that is under way was just heard of.
LEMMA HeardStays ==
  ASSUME TypeOK, TypeOK', HeardNow,
         \A nf \in Nfs : silence'[nf] \in {0, silence[nf]},
         \A g \in Threads : http'[g].pc \in Updating \cup {"arm"} =>
           \/ http[g].pc \in Updating \cup {"arm"} /\ http'[g].nf = http[g].nf
           \/ silence'[http'[g].nf] = 0
  PROVE  HeardNow'
<1>1. SUFFICES ASSUME NEW g \in Threads, http'[g].pc \in Updating \cup {"arm"}
               PROVE  silence'[http'[g].nf] = 0
  BY DEF HeardNow
<1>2. CASE http[g].pc \in Updating \cup {"arm"} /\ http'[g].nf = http[g].nf
  <2>1. http[g].nf \in Nfs
    BY <1>2, TypeParts, Fields, WorksFields DEF Updating
  <2>2. silence[http[g].nf] = 0
    BY <1>2 DEF HeardNow
  <2>3. QED
    BY <1>2, <2>1, <2>2
<1>3. QED
  BY <1>1, <1>2

\* What was heard of.
LEMMA HeardNext ==
  ASSUME TypeOK, HeardNow, Next
  PROVE  HeardNow'
<1>1. TypeOK => MapTypes /\ ObjectTypes /\ ThreadTypes /\ TimeTypes /\ ToldTypes
  BY TypeParts
<1>2. ASSUME NEW h \in Threads, NEW nf \in Nfs, Register(h, nf) PROVE HeardNow'
  <2>1. TypeOK' /\ OnlyThread(h) /\ http'[h].nf = nf
    BY <1>2, RegisterFacts
  <2>2. \A m \in Nfs : silence'[m] = IF m = nf THEN 0 ELSE silence[m]
    BY <1>1, <1>2 DEF Register, TimeTypes
  <2>3. QED
    BY <2>1, <2>2, HeardStays DEF OnlyThread
<1>3. ASSUME NEW h \in Threads, NEW nf \in Nfs, Heartbeat(h, nf) PROVE HeardNow'
  <2>1. /\ TypeOK' /\ OnlyThread(h) /\ http'[h].nf = nf
        /\ \A m \in Nfs : silence'[m] = IF m = nf THEN 0 ELSE silence[m]
    BY <1>3, HeartbeatFacts
  <2>2. QED
    BY <2>1, HeardStays DEF OnlyThread
<1>4. ASSUME NEW h \in Threads, OnlyThread(h), TypeOK', UNCHANGED silence,
             \/ http'[h].pc \notin Updating \cup {"arm"}
             \/ http[h].pc \in Updating \cup {"arm"} /\ http'[h].nf = http[h].nf
      PROVE  HeardNow'
  <2>1. \A g \in Threads : http'[g].pc \in Updating \cup {"arm"} =>
          http[g].pc \in Updating \cup {"arm"} /\ http'[g].nf = http[g].nf
    BY <1>4 DEF OnlyThread
  <2>2. QED
    BY <1>4, <2>1, HeardStays
<1>5. ASSUME NEW h \in Threads, NEW nf \in Nfs, ChangeProfile(h, nf) \/ Deregister(h, nf) PROVE HeardNow'
  BY <1>4, <1>5, ChangeFacts, DeregisterFacts DEF Updating
<1>6. ASSUME NEW h \in Threads,
             \/ subscribe_heartbeat_timeout_nfregistration(h) \/ nf_status_registered(h)
             \/ update_nf_profile(h) \/ unsubscribe_heartbeat_timeout_nfregistration(h)
             \/ Subscribe(h) \/ EndHeartbeat(h) \/ remove_nf_profile(h)
      PROVE  HeardNow'
  <2>1. TypeOK' /\ OnlyThread(h) /\ UNCHANGED silence
    BY <1>6, ArmFacts, NotifyFacts, UpdateFacts, UnsubscribeFacts, SubscribeFacts, FlagFacts, RemoveFacts DEF history
  <2>2. \/ http'[h].pc \notin Updating \cup {"arm"}
        \/ http[h].pc \in Updating \cup {"arm"} /\ http'[h].nf = http[h].nf
    <3>1. CASE subscribe_heartbeat_timeout_nfregistration(h)
      BY <3>1, ArmFacts DEF Updating
    <3>2. CASE nf_status_registered(h) \/ EndHeartbeat(h) \/ remove_nf_profile(h)
      BY <3>2, NotifyFacts, FlagFacts, RemoveFacts, BlankFields DEF Updating
    <3>3. CASE update_nf_profile(h)
      BY <3>3, UpdateFacts, BlankFields DEF Updating
    <3>4. CASE unsubscribe_heartbeat_timeout_nfregistration(h) \/ Subscribe(h)
      BY <3>4, UnsubscribeFacts, SubscribeFacts DEF Updating
    <3>5. QED
      BY <1>6, <3>1, <3>2, <3>3, <3>4
  <2>3. QED
    BY <1>4, <2>1, <2>2
<1>7. ASSUME NEW h \in Threads, NEW s \in Subs, CreateSubscription(h, s) PROVE HeardNow'
  <2>1. TypeOK' /\ OnlyThread(h) /\ http'[h].pc = "find" /\ UNCHANGED silence
    BY <1>7, CreateFacts DEF Finds, history
  <2>2. QED
    BY <1>4, <2>1 DEF Updating
<1>8. ASSUME NEW h \in Threads, find_nf_profiles(h) PROVE HeardNow'
  BY <1>4, <1>8, FindFacts, BlankFields DEF Updating
<1>9. ASSUME UNCHANGED <<http, silence>> PROVE HeardNow'
  BY <1>9 DEF HeardNow
<1>10. ASSUME NEW h \in Threads, NEW s \in Subs, RemoveSubscription(h, s) PROVE HeardNow'
  BY <1>9, <1>10, UnsubscriptionFacts
<1>11. CASE EraseSuspended \/ ClearSuspended \/ SetSuspended \/ add_to_suspended_list \/ EndSlot
  BY <1>9, <1>11 DEF EraseSuspended, ClearSuspended, SetSuspended, add_to_suspended_list, EndSlot, history
<1>12. ASSUME NEW p \in Profiles,
              handle_heartbeat_timeout_nfregistration(p) \/ handle_heartbeat_timeout_nfupdate(p)
       PROVE  HeardNow'
  BY <1>9, <1>12 DEF handle_heartbeat_timeout_nfregistration, handle_heartbeat_timeout_nfupdate, history
<1>13. CASE TimePasses
  BY <1>13, PassFacts, BlankFields DEF HeardNow, Updating
<1>14. QED
  BY <1>2, <1>3, <1>5, <1>6, <1>7, <1>8, <1>10, <1>11, <1>12, <1>13 DEF Next, HttpThread, TickTask

\* The removal of suspended NFs is due while it runs.
LEMMA ClearNext ==
  ASSUME TypeOK, ClearTime, Next
  PROVE  ClearTime'
<1>1. ASSUME UNCHANGED cleanup, tick'.pc = "clear" => tick.pc = "clear" \/ cleanup = 0 PROVE ClearTime'
  BY <1>1 DEF ClearTime
<1>2. ASSUME NEW h \in Threads, HttpThread(h) PROVE ClearTime'
  <2>1. ASSUME NEW nf \in Nfs, Register(h, nf) PROVE UNCHANGED cleanup /\ tick'.pc = tick.pc
    BY <2>1, RegisterFacts DEF Register, SlotStays, timing
  <2>2. ASSUME NEW nf \in Nfs, Heartbeat(h, nf) \/ ChangeProfile(h, nf) \/ Deregister(h, nf)
        PROVE  UNCHANGED cleanup /\ tick'.pc = tick.pc
    BY <2>2 DEF Heartbeat, ChangeProfile, Deregister, timing
  <2>3. ASSUME subscribe_heartbeat_timeout_nfregistration(h) \/ Subscribe(h)
               \/ unsubscribe_heartbeat_timeout_nfregistration(h)
        PROVE  UNCHANGED cleanup /\ tick'.pc = tick.pc
    BY <2>3 DEF subscribe_heartbeat_timeout_nfregistration, Subscribe,
                unsubscribe_heartbeat_timeout_nfregistration, timing
  <2>4. ASSUME nf_status_registered(h) \/ update_nf_profile(h) \/ EndHeartbeat(h) \/ remove_nf_profile(h)
        PROVE  UNCHANGED cleanup /\ tick'.pc = tick.pc
    BY <2>4, NotifyFacts, UpdateFacts, FlagFacts, RemoveFacts DEF SlotStays, timing
  <2>5. ASSUME NEW s \in Subs, CreateSubscription(h, s) \/ RemoveSubscription(h, s)
        PROVE  UNCHANGED cleanup /\ tick'.pc = tick.pc
    BY <2>5 DEF CreateSubscription, RemoveSubscription, timing
  <2>6. ASSUME find_nf_profiles(h) PROVE UNCHANGED cleanup /\ tick'.pc = tick.pc
    BY <2>6 DEF find_nf_profiles, timing
  <2>7. QED
    BY <1>1, <1>2, <2>1, <2>2, <2>3, <2>4, <2>5, <2>6 DEF HttpThread
<1>3. CASE TickTask
  <2>1. CASE EraseSuspended
    BY <1>1, <2>1, EraseFacts DEF timing
  <2>2. CASE ClearSuspended
    BY <2>2, ClearFacts, BlankFields DEF ClearTime
  <2>3. ASSUME NEW p \in Profiles,
               handle_heartbeat_timeout_nfregistration(p) \/ handle_heartbeat_timeout_nfupdate(p)
        PROVE  ClearTime'
    BY <1>1, <2>3 DEF handle_heartbeat_timeout_nfregistration, handle_heartbeat_timeout_nfupdate, SlotOf, timing
  <2>4. CASE SetSuspended
    BY <1>1, <2>4, SuspendFacts DEF timing
  <2>5. CASE add_to_suspended_list
    BY <1>1, <2>5, ListFacts DEF timing
  <2>6. CASE EndSlot
    BY <1>1, <2>6, EndSlotFacts, BlankFields DEF timing
  <2>7. QED
    BY <1>3, <2>1, <2>2, <2>3, <2>4, <2>5, <2>6 DEF TickTask
<1>4. CASE TimePasses
  BY <1>4, PassFacts, BlankFields DEF ClearTime
<1>5. QED
  BY <1>2, <1>3, <1>4 DEF Next

\* A step that leaves first_update of objects, and starts no time-out of one not armed.
LEMMA ArmedStays ==
  ASSUME TypeOK, TypeOK', ArmedOnce,
         \A p \in Profiles : Referenced(p)' => (~profile[p].first_update => ~profile'[p].first_update),
         \A p \in Profiles : profile'[p].hb_update # Off => ~profile'[p].first_update,
         \A g \in Threads : http'[g].pc = "flag" =>
           \/ http[g].pc = "flag" /\ http'[g].p = http[g].p
           \/ ~profile'[http'[g].p].first_update
  PROVE  ArmedOnce'
<1>1. SUFFICES ASSUME NEW g \in Threads, http'[g].pc = "flag"
               PROVE  ~profile'[http'[g].p].first_update
  BY DEF ArmedOnce
<1>2. CASE http[g].pc = "flag" /\ http'[g].p = http[g].p
  <2>1. http[g] \in Works
    BY <1>2, TypeParts, Fields
  <2>2. PICK p \in Profiles : p = http[g].p /\ Referenced(p)'
    BY <1>2, <2>1, WorksFields DEF Referenced
  <2>3. QED
    BY <1>2, <2>2 DEF ArmedOnce
<1>3. QED
  BY <1>1, <1>2

\* The same when the objects that are referred to are kept.
LEMMA ArmedKept ==
  ASSUME TypeOK, TypeOK', ArmedOnce, NEW h \in Threads, OnlyThread(h), http'[h].pc # "flag",
         NEW q, NEW new, NEW marked, KeptWith(q, new, marked),
         q \in Profiles => new.first_update = profile[q].first_update /\ new.hb_update = profile[q].hb_update
  PROVE  ArmedOnce'
<1>1. \A p \in Profiles : Referenced(p)' =>
        profile'[p].first_update = profile[p].first_update /\ profile'[p].hb_update = profile[p].hb_update
  BY DEF KeptWith
<1>2. \A p \in Profiles : ~Referenced(p)' => profile'[p].hb_update = Off
  BY BlankObject DEF KeptWith
<1>3. \A p \in Profiles : profile'[p].hb_update # Off => ~profile'[p].first_update
  BY <1>1, <1>2 DEF ArmedOnce
<1>4. \A g \in Threads : http'[g].pc = "flag" => http[g].pc = "flag" /\ http'[g].p = http[g].p
  BY DEF OnlyThread
<1>5. QED
  BY <1>1, <1>3, <1>4, ArmedStays

\* The same when at most the other fields of an object change.
LEMMA ArmedChange ==
  ASSUME TypeOK, TypeOK', ArmedOnce, NEW h \in Threads, OnlyThread(h), http'[h].pc # "flag",
         NEW q, OnlyObject(q),
         q \in Profiles => /\ profile'[q].first_update = profile[q].first_update
                           /\ profile'[q].hb_update # Off => profile[q].hb_update # Off
  PROVE  ArmedOnce'
<1>1. \A p \in Profiles : profile'[p].first_update = profile[p].first_update
  BY DEF OnlyObject
<1>2. \A p \in Profiles : profile'[p].hb_update # Off => ~profile'[p].first_update
  BY <1>1 DEF ArmedOnce, OnlyObject
<1>3. \A g \in Threads : http'[g].pc = "flag" => http[g].pc = "flag" /\ http'[g].p = http[g].p
  BY DEF OnlyThread
<1>4. QED
  BY <1>1, <1>2, <1>3, ArmedStays

\* Without a move of a thread.
LEMMA ArmedTicks ==
  ASSUME TypeOK, TypeOK', ArmedOnce, UNCHANGED http,
         NEW q, OnlyObject(q),
         q \in Profiles => /\ profile'[q].first_update = profile[q].first_update
                           /\ profile'[q].hb_update # Off => profile[q].hb_update # Off
  PROVE  ArmedOnce'
<1>1. \A p \in Profiles : profile'[p].first_update = profile[p].first_update
  BY DEF OnlyObject
<1>2. \A p \in Profiles : profile'[p].hb_update # Off => ~profile'[p].first_update
  BY <1>1 DEF ArmedOnce, OnlyObject
<1>3. QED
  BY <1>1, <1>2, ArmedStays

\* The time-out after an update is armed once.
LEMMA ArmedNext ==
  ASSUME TypeOK, TypeOK', Owned, ArmedOnce, Next
  PROVE  ArmedOnce'
<1>1. ASSUME NEW h \in Threads, NEW nf \in Nfs, Register(h, nf) PROVE ArmedOnce'
  <2>1. PICK p \in Profiles :
          http'[h].pc = "arm" /\ KeptWith(p, [profile[p] EXCEPT !.nf = nf], {})
    BY <1>1, RegisterFacts
  <2>2. PICK o : o = [profile[p] EXCEPT !.nf = nf]
    OBVIOUS
  <2>3. o.first_update = profile[p].first_update /\ o.hb_update = profile[p].hb_update
    BY <2>2, TypeParts DEF ObjectTypes, Objects
  <2>4. KeptWith(p, o, {}) /\ OnlyThread(h) /\ http'[h].pc # "flag"
    BY <1>1, <2>1, <2>2, RegisterFacts
  <2>5. QED
    BY <2>3, <2>4, ArmedKept
<1>2. ASSUME NEW h \in Threads, NEW nf \in Nfs, Heartbeat(h, nf) PROVE ArmedOnce'
  <2>1. PICK q \in Profiles : q = instance_id2nrf_profile[nf]
    BY <1>2, HeartbeatFacts
  <2>2. /\ http'[h].pc # "flag" /\ OnlyThread(h) /\ OnlyObject(q)
        /\ profile'[q].first_update = profile[q].first_update /\ profile'[q].hb_update = profile[q].hb_update
    BY <1>2, <2>1, HeartbeatFacts DEF Becomes
  <2>3. QED
    BY <2>2, ArmedChange
<1>3. ASSUME NEW h \in Threads, NEW nf \in Nfs, ChangeProfile(h, nf) \/ Deregister(h, nf) PROVE ArmedOnce'
  <2>1. http'[h].pc # "flag" /\ OnlyThread(h) /\ UNCHANGED profile
    BY <1>3, ChangeFacts, DeregisterFacts
  <2>2. OnlyObject(NoProfile) /\ NoProfile \notin Profiles
    BY <2>1, BlankFields DEF OnlyObject
  <2>3. QED
    BY <2>1, <2>2, ArmedChange
<1>4. ASSUME NEW h \in Threads,
             subscribe_heartbeat_timeout_nfregistration(h) \/ unsubscribe_heartbeat_timeout_nfregistration(h)
      PROVE  ArmedOnce'
  <2>1. /\ http'[h].pc # "flag" /\ OnlyThread(h) /\ OnlyObject(http[h].p)
        /\ profile'[http[h].p].first_update = profile[http[h].p].first_update
        /\ profile'[http[h].p].hb_update = profile[http[h].p].hb_update
    BY <1>4, ArmFacts, UnsubscribeFacts DEF Becomes
  <2>2. QED
    BY <2>1, ArmedChange
<1>5. ASSUME NEW h \in Threads, nf_status_registered(h) \/ remove_nf_profile(h) PROVE ArmedOnce'
  <2>1. /\ http'[h] = Idle /\ OnlyThread(h) /\ KeptWith(http[h].p, profile[http[h].p], {})
    BY <1>5, NotifyFacts, RemoveFacts
  <2>2. QED
    BY <2>1, BlankFields, ArmedKept
<1>6. ASSUME NEW h \in Threads, update_nf_profile(h) PROVE ArmedOnce'
  <2>1. PICK marked : marked = IF instance_id2nrf_profile[http[h].nf] \in {http[h].p, NoProfile} THEN {}
                               ELSE {http[h].p}
    OBVIOUS
  <2>2. KeptWith(http[h].p, profile[http[h].p],
                 IF instance_id2nrf_profile[http[h].nf] \in {http[h].p, NoProfile} THEN {}
                 ELSE {http[h].p})
    BY <1>6, UpdateFacts, Zenon
  <2>3. KeptWith(http[h].p, profile[http[h].p], marked)
    BY <2>1, <2>2
  <2>4. http'[h].pc # "flag" /\ OnlyThread(h)
    BY <1>6, UpdateFacts, BlankFields
  <2>5. QED
    BY <2>3, <2>4, ArmedKept
<1>7. ASSUME NEW h \in Threads, Subscribe(h) PROVE ArmedOnce'
  <2>1. /\ http[h] \in Works /\ http'[h].p = http[h].p /\ OnlyThread(h) /\ OnlyObject(http[h].p)
    BY <1>7, SubscribeFacts
  <2>2. PICK q \in Profiles : q = http[h].p
    BY <2>1, WorksFields
  <2>3. /\ profile'[q].first_update = (profile[q].first_update /\ profile[q].hb_update # Off)
    BY <1>7, <2>2, SubscribeFacts DEF Becomes
  <2>4. ~profile'[q].first_update
    BY <2>3 DEF ArmedOnce
  <2>5. \A p \in Profiles : (~profile[p].first_update => ~profile'[p].first_update)
    BY <2>1, <2>2, <2>4 DEF OnlyObject
  <2>6. \A p \in Profiles : profile'[p].hb_update # Off => ~profile'[p].first_update
    BY <2>1, <2>2, <2>4 DEF OnlyObject, ArmedOnce
  <2>7. \A g \in Threads : http'[g].pc = "flag" =>
           \/ http[g].pc = "flag" /\ http'[g].p = http[g].p
           \/ ~profile'[http'[g].p].first_update
    BY <2>1, <2>2, <2>4 DEF OnlyThread
  <2>8. QED
    BY <2>5, <2>6, <2>7, ArmedStays
<1>8. ASSUME NEW h \in Threads, EndHeartbeat(h) PROVE ArmedOnce'
  <2>1. PICK o \in Objects :
          /\ KeptWith(http[h].p, o, {})
          /\ o.first_update = profile[http[h].p].first_update /\ o.hb_update = profile[http[h].p].hb_update
    BY <1>8, FlagFacts
  <2>2. http'[h] = Idle /\ OnlyThread(h)
    BY <1>8, FlagFacts
  <2>3. QED
    BY <2>1, <2>2, BlankFields, ArmedKept
<1>9. ASSUME NEW h \in Threads, (\E s \in Subs : CreateSubscription(h, s)) \/ find_nf_profiles(h) PROVE ArmedOnce'
  <2>1. http'[h].pc # "flag" /\ OnlyThread(h) /\ UNCHANGED profile
    BY <1>9, CreateFacts, FindFacts, BlankFields DEF Finds
  <2>2. OnlyObject(NoProfile) /\ NoProfile \notin Profiles
    BY <2>1, BlankFields DEF OnlyObject
  <2>3. QED
    BY <2>1, <2>2, ArmedChange
<1>10. ASSUME NEW h \in Threads, NEW s \in Subs, RemoveSubscription(h, s) PROVE ArmedOnce'
  BY <1>10, UnsubscriptionFacts DEF ArmedOnce
<1>11. CASE EraseSuspended
  <2>1. KeptWith(NoProfile, Blank, {}) /\ UNCHANGED http
    BY <1>11, EraseFacts
  <2>2. \A p \in Profiles : Referenced(p)' => profile'[p] = profile[p]
    BY <2>1, BlankFields DEF KeptWith
  <2>3. \A p \in Profiles : ~Referenced(p)' => profile'[p].hb_update = Off
    BY <2>1, BlankObject DEF KeptWith
  <2>4. \A p \in Profiles : profile'[p].hb_update # Off => ~profile'[p].first_update
    BY <2>2, <2>3 DEF ArmedOnce
  <2>5. QED
    BY <2>1, <2>2, <2>4, ArmedStays
<1>12. CASE ClearSuspended \/ add_to_suspended_list
  BY <1>12, ClearFacts, ListFacts DEF ArmedOnce
<1>13. ASSUME NEW p \in Profiles,
              handle_heartbeat_timeout_nfregistration(p) \/ handle_heartbeat_timeout_nfupdate(p)
       PROVE  ArmedOnce'
  <2>1. /\ OnlyObject(p) /\ UNCHANGED http /\ profile'[p].first_update = profile[p].first_update
        /\ profile'[p].hb_update # Off => profile[p].hb_update # Off
    <3>1. CASE handle_heartbeat_timeout_nfregistration(p)
      BY <3>1, FirstTimeoutFacts DEF Becomes
    <3>2. CASE handle_heartbeat_timeout_nfupdate(p)
      BY <3>2, TimeoutFacts, Times DEF Becomes
    <3>3. QED
      BY <1>13, <3>1, <3>2
  <2>2. QED
    BY <2>1, ArmedTicks
<1>14. CASE SetSuspended
  <2>1. /\ OnlyObject(tick.p) /\ UNCHANGED http
        /\ tick.p \in Profiles => /\ profile'[tick.p].first_update = profile[tick.p].first_update
                                  /\ profile'[tick.p].hb_update # Off => profile[tick.p].hb_update # Off
    BY <1>14, SuspendFacts DEF Becomes
  <2>2. QED
    BY <2>1, ArmedTicks
<1>15. CASE EndSlot
  <2>1. /\ OnlyObject(tick.p) /\ UNCHANGED http
        /\ tick.p \in Profiles => /\ profile'[tick.p].first_update = profile[tick.p].first_update
                                  /\ profile'[tick.p].hb_update # Off => profile[tick.p].hb_update # Off
    BY <1>15, EndSlotFacts DEF Becomes
  <2>2. QED
    BY <2>1, ArmedTicks
<1>16. CASE TimePasses
  <2>1. /\ \A p \in Profiles : /\ profile'[p].first_update = profile[p].first_update
                               /\ profile'[p].hb_update = Down(profile[p].hb_update)
        /\ UNCHANGED http
    BY <1>16, PassFacts DEF Becomes
  <2>2. \A p \in Profiles : profile'[p].hb_update # Off => profile[p].hb_update # Off
    BY <2>1 DEF Down
  <2>3. \A p \in Profiles : profile'[p].hb_update # Off => ~profile'[p].first_update
    BY <2>1, <2>2 DEF ArmedOnce
  <2>4. QED
    BY <2>1, <2>3, ArmedStays
<1>17. QED
  BY <1>1, <1>2, <1>3, <1>4, <1>5, <1>6, <1>7, <1>8, <1>9, <1>10, <1>11, <1>12, <1>13, <1>14, <1>15, <1>16
     DEF Next, HttpThread, TickTask

\* The time-outs of an object stay, and silence does not grow.
LEMMA InTimeStays ==
  ASSUME TypeOK, TypeOK', NEW nf \in Nfs, NEW p \in Profiles,
         instance_id2nrf_profile[nf] = p, instance_id2nrf_profile'[nf] = p,
         profile'[p].is_updated = profile[p].is_updated, profile'[p].first_update = profile[p].first_update,
         profile'[p].first_hb = profile[p].first_hb, profile'[p].hb_update = profile[p].hb_update,
         silence'[nf] \in {0, silence[nf]}, tick'.p = p <=> tick.p = p, tick.p = p => tick'.pc = tick.pc,
         \A h \in Threads : http[h].p = p /\ http[h].pc \in {"arm", "subscribe"} =>
           \E g \in Threads : http'[g].p = p /\ http'[g].pc \in {"arm", "subscribe"},
         InTime(nf)
  PROVE  InTime(nf)'
<1>1. silence[nf] \in Nat /\ silence'[nf] \in Nat /\ silence'[nf] <= silence[nf] /\ profile[p] \in Objects
  BY Times, TypeParts DEF TimeTypes, ObjectTypes
<1>2. profile[p].first_hb \in Int /\ profile[p].hb_update \in Int
  BY <1>1, Times, ObjectFields
<1>3. CASE tick.p = p /\ tick.pc \in {"suspend", "first_suspend"} /\ silence[nf] <= LongestSilence
  <2>1. silence'[nf] <= LongestSilence
    BY <1>1, <1>3, Times
  <2>2. QED
    BY <1>3, <2>1 DEF InTime
<1>4. CASE /\ profile[p].hb_update # Off /\ silence[nf] + profile[p].hb_update <= LongestSilence
           /\ profile[p].is_updated =>
                tick.p = p \/ silence[nf] + profile[p].hb_update <= FirstUpdateTimeout
  <2>1. /\ silence'[nf] + profile[p].hb_update <= LongestSilence
        /\ silence[nf] + profile[p].hb_update <= FirstUpdateTimeout =>
             silence'[nf] + profile[p].hb_update <= FirstUpdateTimeout
    BY <1>1, <1>2, <1>4, Times
  <2>2. QED
    BY <1>4, <2>1 DEF InTime
<1>5. CASE /\ profile[p].hb_update = Off /\ profile[p].first_update /\ ~profile[p].is_updated
           /\ profile[p].first_hb # Off /\ silence[nf] + profile[p].first_hb <= FirstTimeout
  <2>1. silence'[nf] + profile[p].first_hb <= FirstTimeout
    BY <1>1, <1>2, <1>5, Times
  <2>2. QED
    BY <1>5, <2>1 DEF InTime
<1>6. CASE /\ profile[p].hb_update = Off /\ profile[p].first_update /\ ~profile[p].is_updated
           /\ silence[nf] = 0 /\ \E h \in Threads : http[h].p = p /\ http[h].pc \in {"arm", "subscribe"}
  <2>1. silence'[nf] = 0
    BY <1>6
  <2>2. \E g \in Threads : http'[g].p = p /\ http'[g].pc \in {"arm", "subscribe"}
    BY <1>6
  <2>3. QED
    BY <1>6, <2>1, <2>2 DEF InTime
<1>7. QED
  BY <1>3, <1>4, <1>5, <1>6 DEF InTime

\* In time means not longer silent than allowed.
LEMMA InTimeSilence ==
  ASSUME TypeOK, NEW nf \in Nfs, instance_id2nrf_profile[nf] \in Profiles, InTime(nf)
  PROVE  silence[nf] <= LongestSilence
<1>1. PICK p \in Profiles : p = instance_id2nrf_profile[nf]
  OBVIOUS
<1>2. silence[nf] \in Nat /\ profile[p] \in Objects
  BY Times, TypeParts DEF TimeTypes, ObjectTypes
<1>3. profile[p].first_hb \in Off..FirstTimeout /\ profile[p].hb_update \in Off..FirstUpdateTimeout
  BY <1>2, ObjectFields
<1>4. /\ profile[p].hb_update # Off /\ silence[nf] + profile[p].hb_update <= LongestSilence =>
           silence[nf] <= LongestSilence
      /\ profile[p].first_hb # Off /\ silence[nf] + profile[p].first_hb <= FirstTimeout =>
           silence[nf] <= LongestSilence
  BY <1>2, <1>3, Times
<1>5. QED
  BY <1>1, <1>2, <1>4, Times DEF InTime

\* The slot and the suspended set stay, and silence does not grow.
LEMMA RemovedStays ==
  ASSUME TypeOK, TypeOK', NEW nf \in Nfs, NEW p \in Profiles,
         instance_id2nrf_profile[nf] = p, instance_id2nrf_profile'[nf] = p,
         silence'[nf] \in {0, silence[nf]}, tick'.p = p <=> tick.p = p, tick.p = p => tick'.pc = tick.pc,
         tick'.pc = "clear" <=> tick.pc = "clear", UNCHANGED timing,
         \A i \in 0..1 : nf \in suspended_nf[i] => nf \in suspended_nf'[i],
         Removed(nf)
  PROVE  Removed(nf)'
<1>1. silence[nf] \in Nat /\ silence'[nf] \in Nat /\ silence'[nf] <= silence[nf] /\ cleanup \in Nat
  BY Times, TypeParts DEF TimeTypes
<1>2. NextPart' = NextPart /\ \A i \in 0..1 : Left(i)' = Left(i) /\ Left(i) \in Nat
  BY <1>1, Times DEF NextPart, Left, timing
<1>3. CASE tick.p = p /\ tick.pc \in {"first_list", "list"} /\ silence[nf] <= LongestSilence
  <2>1. silence'[nf] <= LongestSilence
    BY <1>1, <1>3, Times
  <2>2. QED
    BY <1>3, <2>1 DEF Removed
<1>4. CASE \E i \in 0..1 :
             /\ nf \in suspended_nf[i] /\ (tick.pc = "clear" => i # NextPart)
             /\ silence[nf] + Left(i) <= Forgotten
  <2>1. PICK i \in 0..1 :
          /\ nf \in suspended_nf[i] /\ (tick.pc = "clear" => i # NextPart)
          /\ silence[nf] + Left(i) <= Forgotten
    BY <1>4
  <2>2. silence'[nf] + Left(i) <= Forgotten
    BY <1>1, <1>2, <2>1, Times
  <2>3. /\ nf \in suspended_nf'[i] /\ (tick'.pc = "clear" => i # NextPart')
        /\ silence'[nf] + Left(i)' <= Forgotten
    BY <1>2, <2>1, <2>2
  <2>4. QED
    BY <2>3 DEF Removed
<1>5. QED
  BY <1>3, <1>4 DEF Removed

\* What does not touch an NF leaves it watched, or leaving.
LEMMA UntouchedSilent ==
  ASSUME TypeOK, TypeOK', Owned, Owned', NEW nf \in Nfs, Untouched(nf), Watched(nf), Leaving(nf)
  PROVE  Watched(nf)' /\ Leaving(nf)'
<1>1. SUFFICES ASSUME Steady(nf)' PROVE Watched(nf)' /\ Leaving(nf)'
  BY DEF Watched, Leaving
<1>2. PICK p \in Profiles : p = instance_id2nrf_profile'[nf] /\ p \notin disturbed'
  BY <1>1 DEF Steady
<1>3. /\ p = instance_id2nrf_profile[nf] /\ p \notin disturbed /\ profile'[p] = profile[p]
      /\ tick'.p = p <=> tick.p = p
  BY <1>2 DEF Untouched
<1>4. Steady(nf) /\ (Active(nf)' <=> Active(nf))
  BY <1>2, <1>3 DEF Steady, Active
<1>5. tick.p = p => tick.nf = nf /\ tick'.pc = tick.pc
  BY <1>3 DEF Owned, Untouched
<1>6. ASSUME NEW h \in Threads, http[h].p = p PROVE http'[h] = http[h]
  <2>1. http[h].nf = nf
    BY <1>3, <1>6 DEF Owned
  <2>2. QED
    BY <2>1 DEF Untouched
<1>7. /\ silence'[nf] = silence[nf] /\ (tick'.pc = "clear" <=> tick.pc = "clear") /\ UNCHANGED timing
      /\ \A i \in 0..1 : nf \in suspended_nf[i] => nf \in suspended_nf'[i]
      /\ \A h \in Threads : http'[h].nf = nf => http'[h] = http[h]
  BY DEF Untouched
<1>8. CASE Active(nf)'
  <2>1. InTime(nf)
    BY <1>4, <1>8 DEF Watched
  <2>2. \A h \in Threads : http[h].p = p /\ http[h].pc \in {"arm", "subscribe"} =>
          \E g \in Threads : http'[g].p = p /\ http'[g].pc \in {"arm", "subscribe"}
    BY <1>6
  <2>3. InTime(nf)'
    BY <1>2, <1>3, <1>5, <1>7, <2>1, <2>2, InTimeStays
  <2>4. QED
    BY <1>2, <1>3, <1>4, <1>5, <1>8, <2>3 DEF Watched, Leaving
<1>9. CASE ~Active(nf)'
  <2>1. Removed(nf) /\ \A h \in Threads : http[h].nf = nf => http[h].pc \notin Updating
    BY <1>4, <1>9 DEF Leaving
  <2>2. Removed(nf)'
    BY <1>2, <1>3, <1>5, <1>7, <2>1, RemovedStays
  <2>3. \A h \in Threads : http'[h].nf = nf => http'[h].pc \notin Updating
    BY <1>7, <2>1
  <2>4. QED
    BY <1>9, <2>2, <2>3 DEF Watched, Leaving
<1>10. QED
  BY <1>8, <1>9

\* A request that leaves the time-outs of the object of nf leaves it watched.
LEMMA RequestWatched ==
  ASSUME TypeOK, TypeOK', Owned, NEW nf \in Nfs, NEW h \in Threads, OnlyThread(h), Watched(nf),
         NEW p \in Profiles, instance_id2nrf_profile'[nf] = p, instance_id2nrf_profile[nf] = p,
         p \notin disturbed, Active(nf),
         profile'[p].is_updated = profile[p].is_updated, profile'[p].first_update = profile[p].first_update,
         profile'[p].first_hb = profile[p].first_hb, profile'[p].hb_update = profile[p].hb_update,
         silence'[nf] \in {0, silence[nf]}, tick'.p = p <=> tick.p = p, tick'.pc = tick.pc,
         http[h].p = p => http[h].pc \notin {"arm", "subscribe"}
  PROVE  Watched(nf)'
<1>1. Steady(nf)
  BY DEF Steady
<1>2. InTime(nf)
  BY <1>1 DEF Watched
<1>3. \A g \in Threads : http[g].p = p /\ http[g].pc \in {"arm", "subscribe"} =>
          \E f \in Threads : http'[f].p = p /\ http'[f].pc \in {"arm", "subscribe"}
  BY DEF OnlyThread
<1>4. InTime(nf)'
  BY <1>2, <1>3, InTimeStays
<1>5. tick.p = p => tick.pc \notin {"first_list", "list"} /\ (tick.pc = "first_reset" => profile[p].hb_update # Off)
  BY <1>1 DEF Watched
<1>6. QED
  BY <1>4, <1>5 DEF Watched

\* A request that leaves the suspended set, or updates, leaves nf leaving.
LEMMA RequestLeaving ==
  ASSUME TypeOK, TypeOK', Owned, NEW nf \in Nfs, NEW h \in Threads, OnlyThread(h), Leaving(nf),
         NEW p \in Profiles, instance_id2nrf_profile'[nf] = p, instance_id2nrf_profile[nf] = p,
         p \notin disturbed, ~Active(nf),
         silence'[nf] \in {0, silence[nf]}, tick'.p = p <=> tick.p = p, tick'.pc = tick.pc, UNCHANGED timing,
         \/ http[h].nf = nf /\ http[h].pc \in Updating
         \/ UNCHANGED suspended_nf /\ (http'[h].nf = nf => http'[h].pc \notin Updating)
  PROVE  Leaving(nf)'
<1>1. Steady(nf)
  BY DEF Steady
<1>2. Removed(nf) /\ \A g \in Threads : http[g].nf = nf => http[g].pc \notin Updating
  BY <1>1 DEF Leaving
<1>3. UNCHANGED suspended_nf /\ (http'[h].nf = nf => http'[h].pc \notin Updating)
  BY <1>2
<1>4. Removed(nf)'
  BY <1>2, <1>3, RemovedStays
<1>5. \A g \in Threads : http'[g].nf = nf => http'[g].pc \notin Updating
  BY <1>2, <1>3 DEF OnlyThread
<1>6. QED
  BY <1>4, <1>5 DEF Leaving

\* The requests that begin.
LEMMA SilentStarts ==
  ASSUME TypeOK, TypeOK', Owned, NEW h \in Threads, NEW nf \in Nfs, Watched(nf), Leaving(nf),
         Register(h, nf) \/ Heartbeat(h, nf) \/ ChangeProfile(h, nf) \/ Deregister(h, nf)
  PROVE  Watched(nf)' /\ Leaving(nf)'
<1>1. CASE Register(h, nf)
  <2>1. PICK p \in Profiles :
          /\ ~Referenced(p)
          /\ instance_id2nrf_profile' = [instance_id2nrf_profile EXCEPT ![nf] = p]
          /\ http'[h].pc = "arm" /\ http'[h].nf = nf /\ http'[h].p = p
          /\ KeptWith(p, [profile[p] EXCEPT !.nf = nf], {})
    BY <1>1, RegisterFacts
  <2>2. PICK o : o = [profile[p] EXCEPT !.nf = nf]
    OBVIOUS
  <2>3. profile[p] = Blank /\ tick.p # p
    BY <2>1 DEF Owned
  <2>4. /\ o.nf_status = "REGISTERED" /\ o.hb_update = Off /\ o.first_update /\ ~o.is_updated
    BY <2>2, <2>3 DEF Blank
  <2>5. instance_id2nrf_profile'[nf] = p
    BY <2>1, TypeParts DEF MapTypes
  <2>6. profile'[p] = o
    BY <2>1, <2>2 DEF Referenced, KeptWith
  <2>7. silence'[nf] = 0 /\ tick'.p # p
    <3>1. silence'[nf] = 0
      BY <1>1, TypeParts DEF Register, TimeTypes
    <3>2. SlotStays
      BY <1>1, RegisterFacts
    <3>3. QED
      BY <2>3, <3>1, <3>2, BlankFields DEF SlotStays
  <2>8. InTime(nf)'
    BY <2>1, <2>4, <2>5, <2>6, <2>7 DEF InTime
  <2>9. Active(nf)'
    BY <2>4, <2>5, <2>6, BlankFields DEF Active
  <2>10. QED
    BY <2>5, <2>7, <2>8, <2>9 DEF Watched, Leaving
<1>2. CASE Heartbeat(h, nf)
  <2>1. PICK p \in Profiles : p = instance_id2nrf_profile[nf]
    BY <1>2, HeartbeatFacts
  <2>2. /\ http[h] = Idle /\ OnlyThread(h) /\ silence'[nf] = 0
        /\ UNCHANGED <<instance_id2nrf_profile, tick>>
    BY <1>2, HeartbeatFacts DEF database
  <2>3. /\ profile'[p].nf_status = "REGISTERED" /\ profile'[p].is_updated = profile[p].is_updated
        /\ profile'[p].first_update = profile[p].first_update
        /\ profile'[p].first_hb = profile[p].first_hb /\ profile'[p].hb_update = profile[p].hb_update
    BY <1>2, <2>1, HeartbeatFacts DEF Becomes
  <2>4. Quiet
    BY <1>2, HeartbeatQuiet
  <2>5. Active(nf)'
    BY <2>1, <2>2, <2>3, BlankFields DEF Active
  <2>6. CASE Steady(nf)'
    <3>1. Steady(nf) /\ Active(nf)
      BY <2>4, <2>5, <2>6 DEF Quiet
    <3>2. p \notin disturbed
      BY <2>1, <3>1 DEF Steady
    <3>3. http[h].p # p
      BY <2>2, BlankFields
    <3>4. Watched(nf)'
      BY <2>1, <2>2, <2>3, <3>1, <3>2, <3>3, RequestWatched
    <3>5. QED
      BY <2>5, <3>4 DEF Leaving
  <2>7. QED
    BY <2>5, <2>6 DEF Watched, Leaving
<1>3. CASE ChangeProfile(h, nf) \/ Deregister(h, nf)
  <2>1. /\ http[h] = Idle /\ http'[h].pc \notin Updating /\ OnlyThread(h)
        /\ UNCHANGED <<instance_id2nrf_profile, suspended_nf, profile, disturbed, timing, tick, silence>>
    BY <1>3, ChangeFacts, DeregisterFacts DEF database, Updating
  <2>2. SUFFICES ASSUME Steady(nf)' PROVE Watched(nf)' /\ Leaving(nf)'
    BY DEF Watched, Leaving
  <2>3. PICK p \in Profiles : p = instance_id2nrf_profile[nf] /\ p \notin disturbed
    BY <2>1, <2>2 DEF Steady
  <2>4. http[h].p # p /\ (Active(nf)' <=> Active(nf))
    BY <2>1, BlankFields DEF Active
  <2>5. CASE Active(nf)
    <3>1. Watched(nf)'
      BY <2>1, <2>3, <2>4, <2>5, RequestWatched
    <3>2. QED
      BY <2>4, <2>5, <3>1 DEF Leaving
  <2>6. CASE ~Active(nf)
    <3>1. Leaving(nf)'
      BY <2>1, <2>3, <2>6, RequestLeaving
    <3>2. QED
      BY <2>4, <2>6, <3>1 DEF Watched
  <2>7. QED
    BY <2>5, <2>6
<1>4. QED
  BY <1>1, <1>2, <1>3

\* A step of a request on an object of nf: which time-outs and which suspensions
\* it leaves alone.
LEMMA SilentStep ==
  ASSUME TypeOK, TypeOK', Owned, NEW h \in Threads, NEW nf \in Nfs, Watched(nf), Leaving(nf),
         http[h].nf = nf, OnlyThread(h), UNCHANGED timing, silence'[nf] = silence[nf],
         tick'.pc = tick.pc,
         \A p \in Profiles : instance_id2nrf_profile[nf] = p /\ instance_id2nrf_profile'[nf] = p =>
           (tick'.p = p <=> tick.p = p),
         \A p \in Profiles : instance_id2nrf_profile'[nf] = p /\ p \notin disturbed' =>
           /\ instance_id2nrf_profile[nf] = p /\ p \notin disturbed
           /\ \/ profile'[p].nf_status = profile[p].nf_status
              \/ profile'[p].nf_status = "REGISTERED" /\ profile[p].nf_status = "REGISTERED",
         \A p \in Profiles : instance_id2nrf_profile[nf] = p /\ Active(nf) /\ InTime(nf)
             /\ instance_id2nrf_profile'[nf] = p =>
           \/ /\ http[h].p = p => http[h].pc \notin {"arm", "subscribe"}
              /\ profile'[p].is_updated = profile[p].is_updated
              /\ profile'[p].first_update = profile[p].first_update
              /\ profile'[p].first_hb = profile[p].first_hb /\ profile'[p].hb_update = profile[p].hb_update
           \/ InTime(nf)' /\ profile'[p].hb_update # Off
           \/ InTime(nf)' /\ profile'[p].hb_update = profile[p].hb_update,
         \/ http[h].pc \in Updating
         \/ UNCHANGED suspended_nf /\ (http'[h].nf = nf => http'[h].pc \notin Updating)
  PROVE  Watched(nf)' /\ Leaving(nf)'
<1>1. SUFFICES ASSUME Steady(nf)' PROVE Watched(nf)' /\ Leaving(nf)'
  BY DEF Watched, Leaving
<1>2. PICK p \in Profiles : p = instance_id2nrf_profile'[nf] /\ p \notin disturbed'
  BY <1>1 DEF Steady
<1>3. p = instance_id2nrf_profile[nf] /\ p \notin disturbed /\ (tick'.p = p <=> tick.p = p)
  BY <1>2
<1>4. Steady(nf) /\ (Active(nf)' <=> Active(nf))
  BY <1>2, <1>3, BlankFields DEF Steady, Active
<1>5. CASE Active(nf)
  <2>1. InTime(nf)
    BY <1>4, <1>5 DEF Watched
  <2>2. CASE /\ http[h].p = p => http[h].pc \notin {"arm", "subscribe"}
             /\ profile'[p].is_updated = profile[p].is_updated
             /\ profile'[p].first_update = profile[p].first_update
             /\ profile'[p].first_hb = profile[p].first_hb /\ profile'[p].hb_update = profile[p].hb_update
    <3>1. Watched(nf)'
      BY <1>2, <1>3, <1>5, <2>2, RequestWatched
    <3>2. QED
      BY <1>4, <1>5, <3>1 DEF Leaving
  <2>3. CASE InTime(nf)' /\ (profile'[p].hb_update # Off \/ profile'[p].hb_update = profile[p].hb_update)
    <3>1. tick.p = p => tick.pc \notin {"first_list", "list"} /\ (tick.pc = "first_reset" => profile[p].hb_update # Off)
      BY <1>3, <1>4, <1>5 DEF Watched
    <3>2. tick'.p = p => tick'.pc \notin {"first_list", "list"} /\ (tick'.pc = "first_reset" => profile'[p].hb_update # Off)
      BY <1>3, <2>3, <3>1
    <3>3. QED
      BY <1>2, <1>4, <1>5, <2>3, <3>2 DEF Watched, Leaving
  <2>4. QED
    BY <1>2, <1>3, <1>5, <2>1, <2>2, <2>3
<1>6. CASE ~Active(nf)
  <2>1. Leaving(nf)'
    BY <1>2, <1>3, <1>6, RequestLeaving
  <2>2. QED
    BY <1>4, <1>6, <2>1 DEF Watched
<1>7. QED
  BY <1>5, <1>6

\* The first time-out is armed in time.
LEMMA SilentArm ==
  ASSUME TypeOK, TypeOK', Owned, HeardNow, NEW h \in Threads, NEW nf \in Nfs, Watched(nf), Leaving(nf),
         http[h].nf = nf, subscribe_heartbeat_timeout_nfregistration(h)
  PROVE  Watched(nf)' /\ Leaving(nf)'
<1>1. /\ http[h] \in Works /\ http[h].pc = "arm" /\ http'[h].pc = "notify" /\ OnlyThread(h)
      /\ OnlyObject(http[h].p)
      /\ UNCHANGED <<instance_id2nrf_profile, suspended_nf, timing, tick, silence, disturbed>>
  BY ArmFacts DEF database, history
<1>2. PICK q \in Profiles : q = http[h].p
  BY <1>1, WorksFields
<1>3. /\ profile'[q].nf_status = profile[q].nf_status /\ profile'[q].is_updated = profile[q].is_updated
      /\ profile'[q].first_update = profile[q].first_update
      /\ profile'[q].first_hb = FirstTimeout /\ profile'[q].hb_update = profile[q].hb_update
  BY <1>2, ArmFacts DEF Becomes
<1>4. silence[nf] = 0
  BY <1>1 DEF HeardNow
<1>5. instance_id2nrf_profile[nf] = q /\ InTime(nf) => InTime(nf)' /\ profile'[q].hb_update = profile[q].hb_update
  <2>1. SUFFICES ASSUME instance_id2nrf_profile[nf] = q, InTime(nf) PROVE InTime(nf)'
    BY <1>3
  <2>2. FirstTimeout # Off /\ 0 + FirstTimeout <= FirstTimeout
    BY Times
  <2>3. CASE /\ profile[q].hb_update = Off /\ profile[q].first_update /\ ~profile[q].is_updated
    BY <1>1, <1>3, <1>4, <2>1, <2>2, <2>3 DEF InTime
  <2>4. CASE ~(profile[q].hb_update = Off /\ profile[q].first_update /\ ~profile[q].is_updated)
    BY <1>1, <1>3, <2>1, <2>4 DEF InTime
  <2>5. QED
    BY <2>3, <2>4
<1>6. ASSUME NEW p \in Profiles
      PROVE  /\ profile'[p].nf_status = profile[p].nf_status
             /\ p # q => /\ profile'[p].is_updated = profile[p].is_updated
                         /\ profile'[p].first_update = profile[p].first_update
                         /\ profile'[p].first_hb = profile[p].first_hb /\ profile'[p].hb_update = profile[p].hb_update
  BY <1>1, <1>2, <1>3 DEF OnlyObject
<1>7. UNCHANGED suspended_nf /\ http'[h].pc \notin Updating
  BY <1>1 DEF Updating
<1>8. QED
  BY <1>1, <1>2, <1>5, <1>6, <1>7, SilentStep

\* The first time-out goes when the one after an update is about to come.
LEMMA SilentUnsubscribe ==
  ASSUME TypeOK, TypeOK', Owned, HeardNow, NEW h \in Threads, NEW nf \in Nfs, Watched(nf), Leaving(nf),
         http[h].nf = nf, unsubscribe_heartbeat_timeout_nfregistration(h)
  PROVE  Watched(nf)' /\ Leaving(nf)'
<1>1. /\ http[h] \in Works /\ http[h].pc = "unsubscribe" /\ http'[h].pc = "subscribe"
      /\ http'[h].p = http[h].p /\ OnlyThread(h) /\ OnlyObject(http[h].p)
      /\ UNCHANGED <<instance_id2nrf_profile, suspended_nf, timing, tick, silence, disturbed>>
  BY UnsubscribeFacts DEF database, history
<1>2. PICK q \in Profiles : q = http[h].p
  BY <1>1, WorksFields
<1>3. /\ profile'[q].nf_status = profile[q].nf_status /\ profile'[q].is_updated = profile[q].is_updated
      /\ profile'[q].first_update = profile[q].first_update /\ profile'[q].hb_update = profile[q].hb_update
  BY <1>2, UnsubscribeFacts DEF Becomes
<1>4. silence[nf] = 0 /\ http[h].pc \in Updating
  BY <1>1 DEF HeardNow, Updating
<1>5. instance_id2nrf_profile[nf] = q /\ InTime(nf) => InTime(nf)' /\ profile'[q].hb_update = profile[q].hb_update
  <2>1. SUFFICES ASSUME instance_id2nrf_profile[nf] = q, InTime(nf) PROVE InTime(nf)'
    BY <1>3
  <2>2. CASE /\ profile[q].hb_update = Off /\ profile[q].first_update /\ ~profile[q].is_updated
    BY <1>1, <1>2, <1>3, <1>4, <2>1, <2>2 DEF InTime
  <2>3. CASE ~(profile[q].hb_update = Off /\ profile[q].first_update /\ ~profile[q].is_updated)
    BY <1>1, <1>3, <2>1, <2>3 DEF InTime
  <2>4. QED
    BY <2>2, <2>3
<1>6. ASSUME NEW p \in Profiles
      PROVE  /\ profile'[p].nf_status = profile[p].nf_status
             /\ p # q => /\ profile'[p].is_updated = profile[p].is_updated
                         /\ profile'[p].first_update = profile[p].first_update
                         /\ profile'[p].first_hb = profile[p].first_hb /\ profile'[p].hb_update = profile[p].hb_update
  BY <1>1, <1>2, <1>3 DEF OnlyObject
<1>7. QED
  BY <1>1, <1>2, <1>4, <1>5, <1>6, SilentStep

\* The time-out after an update is armed in time.
LEMMA SilentSubscribe ==
  ASSUME TypeOK, TypeOK', Owned, HeardNow, UpdatesDisturbed,
         NEW h \in Threads, NEW nf \in Nfs, Watched(nf), Leaving(nf), http[h].nf = nf, Subscribe(h)
  PROVE  Watched(nf)' /\ Leaving(nf)'
<1>1. /\ http[h] \in Works /\ http[h].pc \in Updating /\ OnlyThread(h) /\ OnlyObject(http[h].p)
      /\ UNCHANGED <<instance_id2nrf_profile, suspended_nf, timing, tick, silence, disturbed>>
  BY SubscribeFacts DEF database, history, Updating
<1>2. PICK q \in Profiles : q = http[h].p
  BY <1>1, WorksFields
<1>3. /\ profile'[q].nf_status = "REGISTERED" /\ profile'[q].is_updated = profile[q].is_updated
      /\ profile'[q].first_update = (profile[q].first_update /\ profile[q].hb_update # Off)
      /\ profile'[q].hb_update = IF profile[q].hb_update = Off /\ profile[q].first_update
                                 THEN FirstUpdateTimeout ELSE profile[q].hb_update
  BY <1>2, SubscribeFacts DEF Becomes
<1>4. silence[nf] = 0
  BY <1>1 DEF HeardNow
<1>5. profile[q].nf_status = "REGISTERED" \/ q \in disturbed
  BY <1>1, <1>2 DEF UpdatesDisturbed
<1>6. instance_id2nrf_profile[nf] = q /\ InTime(nf) =>
        InTime(nf)' /\ (profile'[q].hb_update # Off \/ profile'[q].hb_update = profile[q].hb_update)
  <2>1. SUFFICES ASSUME instance_id2nrf_profile[nf] = q, InTime(nf)
                 PROVE  InTime(nf)' /\ (profile'[q].hb_update # Off \/ profile'[q].hb_update = profile[q].hb_update)
    OBVIOUS
  <2>2. CASE profile[q].hb_update = Off /\ profile[q].first_update
    <3>1. profile'[q].hb_update = FirstUpdateTimeout
      BY <1>3, <2>2
    <3>2. /\ FirstUpdateTimeout # Off /\ 0 + FirstUpdateTimeout <= LongestSilence
          /\ 0 + FirstUpdateTimeout <= FirstUpdateTimeout
      BY Times
    <3>3. QED
      BY <1>1, <1>4, <2>1, <3>1, <3>2 DEF InTime
  <2>3. CASE ~(profile[q].hb_update = Off /\ profile[q].first_update)
    <3>1. profile'[q].hb_update = profile[q].hb_update
      BY <1>3, <2>3
    <3>2. QED
      BY <1>1, <1>3, <2>1, <2>3, <3>1 DEF InTime
  <2>4. QED
    BY <2>2, <2>3
<1>7. ASSUME NEW p \in Profiles, p \notin disturbed
      PROVE  \/ profile'[p].nf_status = profile[p].nf_status
             \/ profile'[p].nf_status = "REGISTERED" /\ profile[p].nf_status = "REGISTERED"
  BY <1>1, <1>2, <1>3, <1>5, <1>7 DEF OnlyObject
<1>8. ASSUME NEW p \in Profiles, p # q
      PROVE  /\ profile'[p].is_updated = profile[p].is_updated
             /\ profile'[p].first_update = profile[p].first_update
             /\ profile'[p].first_hb = profile[p].first_hb /\ profile'[p].hb_update = profile[p].hb_update
  BY <1>1, <1>2, <1>8 DEF OnlyObject
<1>9. QED
  BY <1>1, <1>2, <1>6, <1>7, <1>8, SilentStep

\* The requests that keep the objects as they are.
LEMMA SilentKept ==
  ASSUME TypeOK, TypeOK', Owned, NEW h \in Threads, NEW nf \in Nfs, Watched(nf), Leaving(nf),
         http[h].nf = nf, OnlyThread(h), UNCHANGED <<suspended_nf, timing, silence>>, SlotStays,
         http[h] \in Works, http[h].pc \notin {"arm", "subscribe"},
         NEW marked, KeptWith(http[h].p, profile[http[h].p], marked),
         \A p \in Profiles : instance_id2nrf_profile'[nf] = p =>
           instance_id2nrf_profile[nf] = p \/ p \in disturbed',
         http[h].pc \in Updating \/ http'[h].pc \notin Updating
  PROVE  Watched(nf)' /\ Leaving(nf)'
<1>1. ASSUME NEW p \in Profiles, instance_id2nrf_profile'[nf] = p
      PROVE  /\ Referenced(p)' /\ profile'[p] = profile[p] /\ (tick'.p = p <=> tick.p = p)
             /\ p \in disturbed => p \in disturbed'
  <2>1. Referenced(p)'
    BY <1>1 DEF Referenced
  <2>2. QED
    BY <2>1, BlankFields DEF KeptWith, SlotStays
<1>2. tick'.pc = tick.pc
  BY DEF SlotStays
<1>3. QED
  BY <1>1, <1>2, SilentStep

\* The last step of a heartbeat flags the object.
LEMMA SilentFlag ==
  ASSUME TypeOK, TypeOK', Owned, HeardNow, ArmedOnce,
         NEW h \in Threads, NEW nf \in Nfs, Watched(nf), Leaving(nf), http[h].nf = nf, EndHeartbeat(h)
  PROVE  Watched(nf)' /\ Leaving(nf)'
<1>1. /\ http[h] \in Works /\ http[h].pc = "flag" /\ http'[h] = Idle /\ OnlyThread(h) /\ SlotStays
      /\ UNCHANGED <<instance_id2nrf_profile, timing, silence>>
  BY FlagFacts
<1>2. PICK q \in Profiles : q = http[h].p
  BY <1>1, WorksFields
<1>3. PICK o \in Objects :
        /\ KeptWith(http[h].p, o, {})
        /\ LET r == profile[http[h].p] IN
           /\ o.nf_status = r.nf_status /\ o.is_updated = TRUE
           /\ o.first_update = r.first_update /\ o.first_hb = r.first_hb /\ o.hb_update = r.hb_update
  BY FlagFacts
<1>4. silence[nf] = 0 /\ ~profile[q].first_update /\ http[h].pc \in Updating
  BY <1>1, <1>2 DEF HeardNow, ArmedOnce, Updating
<1>5. ASSUME NEW p \in Profiles, instance_id2nrf_profile'[nf] = p
      PROVE  /\ profile'[p] = (IF p = q THEN o ELSE profile[p]) /\ (tick'.p = p <=> tick.p = p)
             /\ p \in disturbed => p \in disturbed'
  <2>1. Referenced(p)'
    BY <1>5 DEF Referenced
  <2>2. QED
    BY <1>1, <1>2, <1>3, <2>1, BlankFields DEF KeptWith, SlotStays
<1>6. instance_id2nrf_profile[nf] = q /\ InTime(nf) => InTime(nf)' /\ profile'[q].hb_update = profile[q].hb_update
  <2>1. SUFFICES ASSUME instance_id2nrf_profile[nf] = q, InTime(nf)
                 PROVE  InTime(nf)' /\ profile'[q].hb_update = profile[q].hb_update
    OBVIOUS
  <2>2. profile'[q] = o /\ (tick'.p = q <=> tick.p = q) /\ instance_id2nrf_profile'[nf] = q
    BY <1>1, <1>5, <2>1
  <2>3. o.hb_update = profile[q].hb_update /\ o.hb_update \in Off..FirstUpdateTimeout
    BY <1>2, <1>3, ObjectFields
  <2>4. 0 + o.hb_update <= FirstUpdateTimeout
    BY <2>3, Times
  <2>5. \/ tick.p = q /\ tick.pc \in {"suspend", "first_suspend"} /\ silence[nf] <= LongestSilence
        \/ profile[q].hb_update # Off /\ silence[nf] + profile[q].hb_update <= LongestSilence
    BY <1>4, <2>1 DEF InTime
  <2>6. InTime(nf)'
    BY <1>1, <1>4, <2>2, <2>3, <2>4, <2>5 DEF InTime, SlotStays
  <2>7. QED
    BY <2>2, <2>3, <2>6
<1>7. ASSUME NEW p \in Profiles, instance_id2nrf_profile'[nf] = p
      PROVE  profile'[p].nf_status = profile[p].nf_status
  BY <1>2, <1>3, <1>5, <1>7
<1>8. tick'.pc = tick.pc
  BY <1>1 DEF SlotStays
<1>9. QED
  BY <1>1, <1>2, <1>4, <1>5, <1>6, <1>7, <1>8, SilentStep

\* The requests that are under way.
LEMMA SilentSteps ==
  ASSUME TypeOK, TypeOK', Owned, HeardNow, ArmedOnce, UpdatesDisturbed,
         NEW h \in Threads, NEW nf \in Nfs, Watched(nf), Leaving(nf), http[h].nf = nf,
         \/ subscribe_heartbeat_timeout_nfregistration(h) \/ nf_status_registered(h)
         \/ update_nf_profile(h) \/ unsubscribe_heartbeat_timeout_nfregistration(h)
         \/ Subscribe(h) \/ EndHeartbeat(h) \/ remove_nf_profile(h)
  PROVE  Watched(nf)' /\ Leaving(nf)'
<1>1. CASE nf_status_registered(h)
  <2>1. /\ http[h] \in Works /\ http[h].pc = "notify" /\ http'[h] = Idle /\ OnlyThread(h) /\ SlotStays
        /\ KeptWith(http[h].p, profile[http[h].p], {})
        /\ UNCHANGED <<instance_id2nrf_profile, suspended_nf, timing, silence>>
    BY <1>1, NotifyFacts DEF database
  <2>2. http'[h].pc \notin Updating /\ http[h].pc \notin {"arm", "subscribe"}
    BY <2>1, BlankFields DEF Updating
  <2>3. QED
    BY <2>1, <2>2, SilentKept
<1>2. CASE update_nf_profile(h)
  <2>1. PICK marked : marked = IF instance_id2nrf_profile[http[h].nf] \in {http[h].p, NoProfile} THEN {}
                               ELSE {http[h].p}
    OBVIOUS
  <2>2. KeptWith(http[h].p, profile[http[h].p],
                 IF instance_id2nrf_profile[http[h].nf] \in {http[h].p, NoProfile} THEN {}
                 ELSE {http[h].p})
    BY <1>2, UpdateFacts, Zenon
  <2>3. KeptWith(http[h].p, profile[http[h].p], marked)
    BY <2>1, <2>2
  <2>4. /\ http[h] \in Works /\ http[h].pc \in {"put_back", "replace"} /\ OnlyThread(h) /\ SlotStays
        /\ UNCHANGED <<suspended_nf, timing, silence>>
        /\ instance_id2nrf_profile'[nf] = IF instance_id2nrf_profile[nf] # NoProfile THEN http[h].p
                                          ELSE instance_id2nrf_profile[nf]
    BY <1>2, UpdateFacts
  <2>5. http[h].pc \in Updating \/ http'[h].pc \notin Updating
    BY <1>2, UpdateFacts, BlankFields DEF Updating
  <2>6. ASSUME NEW p \in Profiles, instance_id2nrf_profile'[nf] = p, instance_id2nrf_profile[nf] # p
        PROVE  p \in disturbed'
    <3>1. p = http[h].p /\ marked = {p} /\ Referenced(p)'
      BY <2>1, <2>4, <2>6 DEF Referenced
    <3>2. QED
      BY <2>3, <3>1 DEF KeptWith
  <2>7. QED
    BY <2>3, <2>4, <2>5, <2>6, SilentKept
<1>3. CASE remove_nf_profile(h)
  <2>1. instance_id2nrf_profile'[nf] = NoProfile
    BY <1>3, RemoveFacts
  <2>2. QED
    BY <2>1, BlankFields DEF Watched, Leaving, Steady
<1>4. QED
  BY <1>1, <1>2, <1>3, SilentArm, SilentUnsubscribe, SilentSubscribe, SilentFlag

\* A slot of another object leaves nf watched, or leaving.
LEMMA SilentElsewhere ==
  ASSUME TypeOK, TypeOK', NEW nf \in Nfs, Watched(nf), Leaving(nf),
         NEW p \in Profiles, instance_id2nrf_profile'[nf] = p, instance_id2nrf_profile[nf] = p,
         p \notin disturbed, profile'[p] = profile[p], silence'[nf] = silence[nf],
         tick.p # p, tick'.p # p, tick.pc # "clear", tick'.pc # "clear",
         UNCHANGED <<timing, http>>,
         \A i \in 0..1 : nf \in suspended_nf[i] => nf \in suspended_nf'[i]
  PROVE  Watched(nf)' /\ Leaving(nf)'
<1>1. Steady(nf) /\ (Active(nf)' <=> Active(nf))
  BY DEF Steady, Active
<1>2. CASE Active(nf)
  <2>1. InTime(nf)
    BY <1>1, <1>2 DEF Watched
  <2>2. InTime(nf)'
    BY <2>1, InTimeStays
  <2>3. QED
    BY <1>1, <1>2, <2>2 DEF Watched, Leaving
<1>3. CASE ~Active(nf)
  <2>1. Removed(nf) /\ \A h \in Threads : http[h].nf = nf => http[h].pc \notin Updating
    BY <1>1, <1>3 DEF Leaving
  <2>2. Removed(nf)'
    <3>1. UNCHANGED timing
      OBVIOUS
    <3>2. QED
      BY <2>1, <3>1, RemovedStays
  <2>3. QED
    BY <1>1, <1>3, <2>1, <2>2 DEF Watched, Leaving
<1>4. QED
  BY <1>2, <1>3

\* A time-out that runs out comes in time, or sees an update and starts again.
LEMMA SilentTimeouts ==
  ASSUME TypeOK, TypeOK', Owned, NEW q \in Profiles, NEW nf \in Nfs, Watched(nf), Leaving(nf),
         handle_heartbeat_timeout_nfregistration(q) \/ handle_heartbeat_timeout_nfupdate(q)
  PROVE  Watched(nf)' /\ Leaving(nf)'
<1>1. /\ tick = Resting /\ tick'.p = q /\ tick' \in Slots /\ OnlyObject(q)
      /\ UNCHANGED <<database, timing, http, history>>
  BY FirstTimeoutFacts, TimeoutFacts
<1>2. SUFFICES ASSUME Steady(nf)' PROVE Watched(nf)' /\ Leaving(nf)'
  BY DEF Watched, Leaving
<1>3. PICK p \in Profiles : p = instance_id2nrf_profile'[nf] /\ p \notin disturbed'
  BY <1>2 DEF Steady
<1>4. /\ p = instance_id2nrf_profile[nf] /\ p \notin disturbed /\ silence'[nf] = silence[nf]
      /\ UNCHANGED <<suspended_nf, http, timing>>
  BY <1>1, <1>3 DEF database, history
<1>5. tick.p # p /\ tick.pc = "idle" /\ tick'.pc # "clear"
  BY <1>1, BlankFields DEF Slots
<1>6. CASE q # p
  <2>1. profile'[p] = profile[p]
    BY <1>1, <1>6 DEF OnlyObject
  <2>2. QED
    BY <1>1, <1>3, <1>4, <1>5, <1>6, <2>1, SilentElsewhere
<1>7. CASE q = p
  <2>1. Steady(nf) /\ (Active(nf)' <=> Active(nf))
    <3>1. profile'[p].nf_status = profile[p].nf_status
      BY <1>7, FirstTimeoutFacts, TimeoutFacts DEF Becomes
    <3>2. QED
      BY <1>3, <1>4, <3>1, BlankFields DEF Steady, Active
  <2>2. silence[nf] \in Nat /\ profile[p] \in Objects
    BY Times, TypeParts DEF TimeTypes, ObjectTypes
  <2>3. profile[p].first_hb \in Int /\ profile[p].hb_update \in Int
    BY <2>2, Times, ObjectFields
  <2>4. CASE Active(nf)
    <3>1. InTime(nf) /\ silence[nf] <= LongestSilence
      <4>1. InTime(nf)
        BY <2>1, <2>4 DEF Watched
      <4>2. QED
        BY <1>4, <4>1, InTimeSilence
    <3>2. \/ /\ profile[p].hb_update # Off /\ silence[nf] + profile[p].hb_update <= LongestSilence
             /\ profile[p].is_updated => silence[nf] + profile[p].hb_update <= FirstUpdateTimeout
          \/ profile[p].hb_update = Off /\ ~profile[p].is_updated
      BY <1>4, <1>5, <3>1 DEF InTime
    <3>3. CASE handle_heartbeat_timeout_nfregistration(p)
      <4>1. /\ tick'.pc = IF profile[p].is_updated THEN "first_reset" ELSE "first_suspend"
            /\ profile'[p].hb_update = profile[p].hb_update
        BY <3>3, FirstTimeoutFacts DEF Becomes
      <4>2. profile[p].is_updated => profile[p].hb_update # Off /\ silence[nf] + profile[p].hb_update <= LongestSilence
        BY <3>2
      <4>3. InTime(nf)'
        BY <1>1, <1>3, <1>4, <1>7, <3>1, <4>1, <4>2 DEF InTime
      <4>4. QED
        BY <1>1, <1>3, <1>7, <2>1, <2>4, <4>1, <4>2, <4>3 DEF Watched, Leaving
    <3>4. CASE handle_heartbeat_timeout_nfupdate(p)
      <4>1. /\ tick'.pc = IF profile[p].is_updated THEN "reset" ELSE "suspend"
            /\ profile[p].hb_update = 0 /\ profile'[p].hb_update = HeartBeat
        BY <3>4, TimeoutFacts DEF Becomes
      <4>2. profile[p].is_updated => silence[nf] + HeartBeat <= LongestSilence
        BY <2>2, <3>2, <4>1, Times
      <4>3. HeartBeat # Off
        BY Times
      <4>4. InTime(nf)'
        BY <1>1, <1>3, <1>4, <1>7, <3>1, <4>1, <4>2, <4>3 DEF InTime
      <4>5. QED
        BY <1>1, <1>3, <1>7, <2>1, <2>4, <4>1, <4>4 DEF Watched, Leaving
    <3>5. QED
      BY <1>7, <3>3, <3>4
  <2>5. CASE ~Active(nf)
    <3>1. Removed(nf) /\ \A h \in Threads : http[h].nf = nf => http[h].pc \notin Updating
      BY <2>1, <2>5 DEF Leaving
    <3>2. PICK i \in 0..1 : nf \in suspended_nf[i] /\ silence[nf] + Left(i) <= Forgotten
      BY <1>5, <3>1 DEF Removed
    <3>3. Left(i)' = Left(i)
      BY <1>4 DEF timing, Left, NextPart
    <3>4. Removed(nf)'
      BY <1>4, <1>5, <3>2, <3>3 DEF Removed
    <3>5. QED
      BY <1>4, <2>1, <2>5, <3>1, <3>4 DEF Watched, Leaving
  <2>6. QED
    BY <2>4, <2>5
<1>8. QED
  BY <1>6, <1>7

\* The left time is a number.
LEMMA LeftTimes ==
  ASSUME TypeOK
  PROVE  /\ cleanup \in 0..Interval /\ NextPart \in 0..1
         /\ \A i \in 0..1 : Left(i) \in Nat /\ Left(i) <= 2 * Interval
         /\ cleanup < Interval \/ NextPart = Part => Left(Part) <= 2 * Interval - 1
<1>1. TimeTypes
  BY TypeParts
<1>2. cleanup \in 0..Interval /\ NextPart \in 0..1
  BY <1>1 DEF TimeTypes, NextPart
<1>3. \A i \in 0..1 : Left(i) \in Nat /\ Left(i) <= 2 * Interval
  BY <1>2, Times DEF Left
<1>4. cleanup < Interval \/ NextPart = Part => Left(Part) <= 2 * Interval - 1
  BY <1>2, Times DEF Left
<1>5. QED
  BY <1>2, <1>3, <1>4

\* Whoever is listed now goes with the next or the second next removal.
LEMMA ListedInTime ==
  ASSUME TypeOK
  PROVE  Part \in 0..1 /\ Left(Part) \in Nat /\ Left(Part) <= 2 * Interval - 1
<1>1. TimeTypes
  BY TypeParts
<1>2. Part = IF clock < Interval THEN 0 ELSE 1
  BY <1>1, PartValue
<1>3. clock \in 0..2 * Interval - 1
  BY <1>1 DEF TimeTypes
<1>4. ASSUME cleanup = Interval PROVE NextPart = Part
  BY <1>2, <1>3, <1>4, Times DEF NextPart
<1>5. cleanup \in 0..Interval
  BY LeftTimes
<1>6. QED
  BY <1>2, <1>4, <1>5, LeftTimes, Times

\* A slot that suspends nf does so in time, with no request under way.
LEMMA SilentSuspend ==
  ASSUME TypeOK, TypeOK', Owned, NEW nf \in Nfs, Watched(nf), Leaving(nf), SetSuspended
  PROVE  Watched(nf)' /\ Leaving(nf)'
<1>1. /\ tick \in Slots /\ tick.pc \in {"first_suspend", "suspend"}
      /\ tick' \in Slots /\ tick'.p = tick.p /\ tick'.pc \in {"first_list", "list"}
      /\ OnlyObject(tick.p)
      /\ UNCHANGED <<database, timing, http, told, silence, deadline>>
      /\ disturbed' = IF tick.p \in Profiles /\ Busy(tick.nf) THEN disturbed \cup {tick.p} ELSE disturbed
  BY SuspendFacts
<1>2. SUFFICES ASSUME Steady(nf)' PROVE Watched(nf)' /\ Leaving(nf)'
  BY DEF Watched, Leaving
<1>3. PICK p \in Profiles : p = instance_id2nrf_profile'[nf] /\ p \notin disturbed'
  BY <1>2 DEF Steady
<1>4. /\ p = instance_id2nrf_profile[nf] /\ p \notin disturbed /\ silence'[nf] = silence[nf]
      /\ UNCHANGED <<suspended_nf, http, timing>>
  BY <1>1, <1>3 DEF database
<1>5. tick.pc # "clear" /\ tick'.pc # "clear"
  BY <1>1
<1>6. CASE tick.p # p
  <2>1. profile'[p] = profile[p] /\ tick'.p # p
    BY <1>1, <1>6 DEF OnlyObject
  <2>2. QED
    BY <1>3, <1>4, <1>5, <1>6, <2>1, SilentElsewhere
<1>7. CASE tick.p = p
  <2>1. tick.nf = nf
    BY <1>4, <1>7 DEF Owned
  <2>2. \A h \in Threads : http'[h].nf # nf
    BY <1>1, <1>3, <1>4, <1>7, <2>1 DEF Busy
  <2>3. ~Active(nf)'
    <3>1. profile'[p].nf_status = "SUSPENDED"
      BY <1>7, SuspendFacts DEF Becomes
    <3>2. QED
      BY <1>3, <3>1 DEF Active
  <2>4. Steady(nf)
    BY <1>4 DEF Steady
  <2>5. CASE Active(nf)
    <3>1. InTime(nf)
      BY <2>4, <2>5 DEF Watched
    <3>2. silence'[nf] <= LongestSilence
      BY <1>4, <3>1, InTimeSilence
    <3>3. Removed(nf)'
      BY <1>1, <1>3, <1>7, <3>2 DEF Removed
    <3>4. QED
      BY <2>2, <2>3, <3>3 DEF Watched, Leaving
  <2>6. CASE ~Active(nf)
    <3>1. Removed(nf)
      BY <2>4, <2>6 DEF Leaving
    <3>2. PICK i \in 0..1 : nf \in suspended_nf[i] /\ silence[nf] + Left(i) <= Forgotten
      BY <1>1, <3>1 DEF Removed
    <3>3. Left(i)' = Left(i)
      BY <1>4 DEF timing, Left, NextPart
    <3>4. Removed(nf)'
      BY <1>4, <1>5, <3>2, <3>3 DEF Removed
    <3>5. QED
      BY <2>2, <2>3, <3>4 DEF Watched, Leaving
  <2>7. QED
    BY <2>5, <2>6
<1>8. QED
  BY <1>6, <1>7

\* A suspended NF is listed in time.
LEMMA SilentList ==
  ASSUME TypeOK, TypeOK', Owned, NEW nf \in Nfs, Watched(nf), Leaving(nf), add_to_suspended_list
  PROVE  Watched(nf)' /\ Leaving(nf)'
<1>1. /\ tick \in Slots /\ tick.pc \in {"first_list", "list"}
      /\ tick' \in Slots /\ tick'.p = tick.p /\ tick'.pc \in {"first_reset", "reset"}
      /\ UNCHANGED <<instance_id2nrf_profile, subscriptions, profile, timing, http, history>>
      /\ \A i \in 0..1 : suspended_nf[i] \subseteq suspended_nf'[i]
      /\ tick.p \in Profiles => tick.nf \in suspended_nf'[Part]
  BY ListFacts
<1>2. SUFFICES ASSUME Steady(nf)' PROVE Watched(nf)' /\ Leaving(nf)'
  BY DEF Watched, Leaving
<1>3. PICK p \in Profiles : p = instance_id2nrf_profile'[nf] /\ p \notin disturbed'
  BY <1>2 DEF Steady
<1>4. /\ p = instance_id2nrf_profile[nf] /\ p \notin disturbed /\ silence'[nf] = silence[nf]
      /\ UNCHANGED <<profile, http, timing>>
  BY <1>1, <1>3 DEF history
<1>5. /\ tick.pc # "clear" /\ tick'.pc # "clear"
      /\ \A i \in 0..1 : nf \in suspended_nf[i] => nf \in suspended_nf'[i]
  BY <1>1
<1>6. CASE tick.p # p
  BY <1>1, <1>3, <1>4, <1>5, <1>6, SilentElsewhere
<1>7. CASE tick.p = p
  <2>1. tick.nf = nf
    BY <1>4, <1>7 DEF Owned
  <2>2. Steady(nf)
    BY <1>4 DEF Steady
  <2>3. ~Active(nf) /\ ~Active(nf)'
    <3>1. ~Active(nf)
      BY <1>1, <1>4, <1>7, <2>2 DEF Watched
    <3>2. QED
      BY <1>3, <1>4, <3>1 DEF Active
  <2>4. Removed(nf) /\ \A h \in Threads : http[h].nf = nf => http[h].pc \notin Updating
    BY <2>2, <2>3 DEF Leaving
  <2>5. Removed(nf)'
    <3>1. \A i \in 0..1 : Left(i)' = Left(i)
      BY <1>4 DEF timing, Left, NextPart
    <3>2. CASE silence[nf] <= LongestSilence
      <4>1. silence[nf] + Left(Part) <= Forgotten /\ Part \in 0..1
        <5>1. silence[nf] \in Nat
          BY Times, TypeParts DEF TimeTypes
        <5>2. QED
          BY <3>2, <5>1, ListedInTime, Times
      <4>2. nf \in suspended_nf'[Part]
        BY <1>1, <1>7, <2>1
      <4>3. QED
        BY <1>4, <1>5, <3>1, <4>1, <4>2 DEF Removed
    <3>3. CASE \E i \in 0..1 : nf \in suspended_nf[i] /\ silence[nf] + Left(i) <= Forgotten
      BY <1>4, <1>5, <3>1, <3>3 DEF Removed
    <3>4. QED
      BY <2>4, <3>2, <3>3 DEF Removed
  <2>6. QED
    BY <1>4, <2>3, <2>4, <2>5 DEF Watched, Leaving
<1>8. QED
  BY <1>6, <1>7

\* A slot ends and leaves the time-out after an update.
LEMMA SilentEndSlot ==
  ASSUME TypeOK, TypeOK', Owned, NEW nf \in Nfs, Watched(nf), Leaving(nf), EndSlot
  PROVE  Watched(nf)' /\ Leaving(nf)'
<1>1. /\ tick \in Slots /\ tick.pc \in {"first_reset", "reset"} /\ tick' = Resting
      /\ OnlyObject(tick.p) /\ UNCHANGED <<database, timing, http, history>>
  BY EndSlotFacts
<1>2. SUFFICES ASSUME Steady(nf)' PROVE Watched(nf)' /\ Leaving(nf)'
  BY DEF Watched, Leaving
<1>3. PICK p \in Profiles : p = instance_id2nrf_profile'[nf] /\ p \notin disturbed'
  BY <1>2 DEF Steady
<1>4. /\ p = instance_id2nrf_profile[nf] /\ p \notin disturbed /\ silence'[nf] = silence[nf]
      /\ UNCHANGED <<suspended_nf, http, timing>>
  BY <1>1, <1>3 DEF database, history
<1>5. tick.pc # "clear" /\ tick'.pc = "idle" /\ tick'.p # p
  BY <1>1, BlankFields
<1>6. CASE tick.p # p
  <2>1. profile'[p] = profile[p]
    BY <1>1, <1>6 DEF OnlyObject
  <2>2. QED
    BY <1>3, <1>4, <1>5, <1>6, <2>1, SilentElsewhere
<1>7. CASE tick.p = p
  <2>1. /\ profile'[p].nf_status = profile[p].nf_status /\ profile'[p].is_updated = FALSE
        /\ profile'[p].first_update = profile[p].first_update /\ profile'[p].hb_update = profile[p].hb_update
        /\ tick.pc = "reset" => profile'[p].first_hb = profile[p].first_hb
    BY <1>7, EndSlotFacts DEF Becomes
  <2>2. Steady(nf) /\ (Active(nf)' <=> Active(nf))
    BY <1>3, <1>4, <2>1, BlankFields DEF Steady, Active
  <2>3. CASE Active(nf)
    <3>1. InTime(nf) /\ (tick.pc = "first_reset" => profile[p].hb_update # Off)
      BY <1>4, <1>7, <2>2, <2>3 DEF Watched
    <3>2. ASSUME profile[p].hb_update # Off PROVE InTime(nf)'
      BY <1>3, <1>4, <1>1, <2>1, <3>1, <3>2 DEF InTime
    <3>3. ASSUME profile[p].hb_update = Off PROVE InTime(nf)'
      BY <1>3, <1>4, <1>1, <2>1, <3>1, <3>3 DEF InTime
    <3>4. InTime(nf)'
      BY <3>2, <3>3
    <3>5. QED
      BY <1>3, <1>5, <2>2, <2>3, <3>4 DEF Watched, Leaving
  <2>4. CASE ~Active(nf)
    <3>1. Removed(nf) /\ \A h \in Threads : http[h].nf = nf => http[h].pc \notin Updating
      BY <2>2, <2>4 DEF Leaving
    <3>2. PICK i \in 0..1 : nf \in suspended_nf[i] /\ silence[nf] + Left(i) <= Forgotten
      BY <1>1, <3>1 DEF Removed
    <3>3. Left(i)' = Left(i)
      BY <1>4 DEF timing, Left, NextPart
    <3>4. Removed(nf)'
      BY <1>4, <1>5, <3>2, <3>3 DEF Removed
    <3>5. QED
      BY <1>4, <2>2, <2>4, <3>1, <3>4 DEF Watched, Leaving
  <2>5. QED
    BY <2>3, <2>4
<1>8. QED
  BY <1>6, <1>7

\* The removal that is due is that of the part which is not in use.
LEMMA RemovedPart ==
  ASSUME TypeOK, cleanup = 0
  PROVE  /\ Part \in 0..1 /\ NextPart = 1 - Part
         /\ \A i \in 0..1 : i # NextPart => i = Part /\ Left(i) = Interval
<1>1. TimeTypes
  BY TypeParts
<1>2. Part = IF clock < Interval THEN 0 ELSE 1
  BY <1>1, PartValue
<1>3. clock \in 0..2 * Interval - 1
  BY <1>1 DEF TimeTypes
<1>4. NextPart = IF clock < Interval THEN 1 ELSE 0
  BY <1>3, Times DEF NextPart
<1>5. \A i \in 0..1 : i # NextPart => i = Part /\ Left(i) = Interval
  BY <1>2, <1>3, <1>4, Times DEF Left
<1>6. QED
  BY <1>2, <1>4, <1>5

\* The removal takes no NF that is registered, and those that are suspended in time.
LEMMA SilentErase ==
  ASSUME TypeOK, TypeOK', Owned, NEW nf \in Nfs, Watched(nf), Leaving(nf), EraseSuspended
  PROVE  Watched(nf)' /\ Leaving(nf)'
<1>1. /\ tick = Resting /\ cleanup = 0 /\ tick'.pc = "clear" /\ tick'.p = NoProfile
      /\ KeptWith(NoProfile, Blank, {})
      /\ UNCHANGED <<suspended_nf, subscriptions, timing, http, told, silence, deadline>>
  BY EraseFacts
<1>2. SUFFICES ASSUME Steady(nf)' PROVE Watched(nf)' /\ Leaving(nf)'
  BY DEF Watched, Leaving
<1>3. PICK p \in Profiles : p = instance_id2nrf_profile'[nf] /\ p \notin disturbed'
  BY <1>2 DEF Steady
<1>4. p = instance_id2nrf_profile[nf] /\ nf \notin suspended_nf[1 - Part]
  <2>1. instance_id2nrf_profile'[nf] =
          IF nf \in suspended_nf[1 - Part] THEN NoProfile ELSE instance_id2nrf_profile[nf]
    BY EraseFacts
  <2>2. QED
    BY <1>3, <2>1, BlankFields
<1>5. profile'[p] = profile[p] /\ p \notin disturbed
  <2>1. Referenced(p)'
    BY <1>3 DEF Referenced
  <2>2. QED
    BY <1>1, <1>3, <2>1, BlankFields DEF KeptWith
<1>6. Steady(nf) /\ (Active(nf)' <=> Active(nf))
  BY <1>3, <1>4, <1>5 DEF Steady, Active
<1>7. tick.p # p /\ tick'.p # p /\ tick.pc = "idle"
  BY <1>1, BlankFields
<1>8. CASE Active(nf)
  <2>1. InTime(nf)
    BY <1>6, <1>8 DEF Watched
  <2>2. silence'[nf] = silence[nf] /\ UNCHANGED http
    BY <1>1
  <2>3. InTime(nf)'
    BY <1>3, <1>4, <1>5, <1>7, <2>1, <2>2, InTimeStays
  <2>4. QED
    BY <1>3, <1>6, <1>7, <1>8, <2>3 DEF Watched, Leaving
<1>9. CASE ~Active(nf)
  <2>1. Removed(nf) /\ \A h \in Threads : http[h].nf = nf => http[h].pc \notin Updating
    BY <1>6, <1>9 DEF Leaving
  <2>2. PICK i \in 0..1 : nf \in suspended_nf[i] /\ silence[nf] + Left(i) <= Forgotten
    BY <1>7, <2>1 DEF Removed
  <2>3. NextPart' = NextPart /\ Left(i)' = Left(i)
    BY <1>1 DEF timing, Left, NextPart
  <2>4. i # NextPart
    BY <1>1, <1>4, <2>2, RemovedPart
  <2>5. Removed(nf)'
    BY <1>1, <2>2, <2>3, <2>4 DEF Removed
  <2>6. QED
    BY <1>1, <1>6, <1>9, <2>1, <2>5 DEF Watched, Leaving
<1>10. QED
  BY <1>8, <1>9

\* The part that is not emptied is the next one.
LEMMA SilentClear ==
  ASSUME TypeOK, TypeOK', ClearTime, NEW nf \in Nfs, Watched(nf), Leaving(nf), ClearSuspended
  PROVE  Watched(nf)' /\ Leaving(nf)'
<1>1. /\ tick \in Clears /\ tick.pc = "clear" /\ tick' = Resting /\ cleanup' = Interval
      /\ \A i \in 0..1 : i # 1 - Part => suspended_nf'[i] = suspended_nf[i]
      /\ UNCHANGED <<instance_id2nrf_profile, subscriptions, profile, clock, http, history>>
  BY ClearFacts
<1>2. SUFFICES ASSUME Steady(nf)' PROVE Watched(nf)' /\ Leaving(nf)'
  BY DEF Watched, Leaving
<1>3. PICK p \in Profiles : p = instance_id2nrf_profile'[nf] /\ p \notin disturbed'
  BY <1>2 DEF Steady
<1>4. /\ p = instance_id2nrf_profile[nf] /\ p \notin disturbed /\ silence'[nf] = silence[nf]
      /\ UNCHANGED <<profile, http>>
  BY <1>1, <1>3 DEF history
<1>5. Steady(nf) /\ (Active(nf)' <=> Active(nf))
  BY <1>3, <1>4 DEF Steady, Active
<1>6. tick.p # p /\ tick'.p # p /\ tick'.pc = "idle"
  BY <1>1, BlankFields DEF Clears
<1>7. CASE Active(nf)
  <2>1. InTime(nf)
    BY <1>5, <1>7 DEF Watched
  <2>2. InTime(nf)'
    BY <1>3, <1>4, <1>6, <2>1, InTimeStays
  <2>3. QED
    BY <1>3, <1>5, <1>6, <1>7, <2>2 DEF Watched, Leaving
<1>8. CASE ~Active(nf)
  <2>1. Removed(nf) /\ \A h \in Threads : http[h].nf = nf => http[h].pc \notin Updating
    BY <1>5, <1>8 DEF Leaving
  <2>2. PICK i \in 0..1 : nf \in suspended_nf[i] /\ i # NextPart /\ silence[nf] + Left(i) <= Forgotten
    BY <1>1, <2>1 DEF Removed
  <2>3. cleanup = 0
    BY <1>1 DEF ClearTime
  <2>4. i = Part /\ Left(i) = Interval /\ Part \in 0..1
    BY <2>2, <2>3, RemovedPart
  <2>5. Left(i)' = Interval
    <3>1. TimeTypes
      BY TypeParts
    <3>2. i = IF clock < Interval THEN 0 ELSE 1
      BY <2>4, <3>1, PartValue
    <3>3. clock' = clock /\ clock \in 0..2 * Interval - 1
      BY <1>1, <3>1 DEF TimeTypes
    <3>4. NextPart' = i
      BY <1>1, <3>2, <3>3, Times DEF NextPart
    <3>5. QED
      BY <1>1, <3>4 DEF Left
  <2>6. nf \in suspended_nf'[i]
    BY <1>1, <2>2, <2>4
  <2>7. Removed(nf)'
    BY <1>4, <1>6, <2>2, <2>4, <2>5, <2>6 DEF Removed
  <2>8. QED
    BY <1>4, <1>5, <1>8, <2>1, <2>7 DEF Watched, Leaving
<1>9. QED
  BY <1>7, <1>8

\* Time takes silence, the time-outs and the removals along.
LEMMA SilentPass ==
  ASSUME TypeOK, TypeOK', NEW nf \in Nfs, Watched(nf), Leaving(nf), TimePasses
  PROVE  Watched(nf)' /\ Leaving(nf)'
<1>1. /\ (\A h \in Threads : http[h] = Idle) /\ tick = Resting /\ cleanup >= 1
      /\ clock' = (IF clock + 1 = 2 * Interval THEN 0 ELSE clock + 1) /\ cleanup' = cleanup - 1
      /\ silence'[nf] <= silence[nf] + 1
      /\ UNCHANGED <<database, http, tick, told, disturbed>>
  BY PassFacts
<1>2. SUFFICES ASSUME Steady(nf)' PROVE Watched(nf)' /\ Leaving(nf)'
  BY DEF Watched, Leaving
<1>3. PICK p \in Profiles : p = instance_id2nrf_profile'[nf] /\ p \notin disturbed'
  BY <1>2 DEF Steady
<1>4. p = instance_id2nrf_profile[nf] /\ p \notin disturbed /\ UNCHANGED suspended_nf
  BY <1>1, <1>3 DEF database
<1>5. /\ profile'[p].nf_status = profile[p].nf_status /\ profile'[p].is_updated = profile[p].is_updated
      /\ profile'[p].first_update = profile[p].first_update
      /\ profile'[p].first_hb = Down(profile[p].first_hb) /\ profile'[p].hb_update = Down(profile[p].hb_update)
      /\ profile[p].first_hb # 0 /\ profile[p].hb_update # 0
  BY PassFacts DEF Becomes
<1>6. Steady(nf) /\ (Active(nf)' <=> Active(nf))
  BY <1>3, <1>4, <1>5, BlankFields DEF Steady, Active
<1>7. tick.p # p /\ tick'.p # p /\ tick.pc = "idle" /\ tick'.pc = "idle"
  BY <1>1, BlankFields
<1>8. /\ silence[nf] \in Nat /\ silence'[nf] \in Nat /\ Off = -1
      /\ profile[p].first_hb \in Off..FirstTimeout /\ profile[p].hb_update \in Off..FirstUpdateTimeout
  <2>1. profile[p] \in Objects /\ silence[nf] \in Nat
    BY Times, TypeParts DEF TimeTypes, ObjectTypes
  <2>2. silence'[nf] \in Nat
    BY Times DEF TypeOK
  <2>3. QED
    BY <2>1, <2>2, ObjectFields, Times
<1>9. CASE Active(nf)
  <2>1. InTime(nf)
    BY <1>6, <1>9 DEF Watched
  <2>2. \A h \in Threads : http[h].pc \notin {"arm", "subscribe"}
    BY <1>1, BlankFields
  <2>3. CASE /\ profile[p].hb_update # Off /\ silence[nf] + profile[p].hb_update <= LongestSilence
             /\ profile[p].is_updated => silence[nf] + profile[p].hb_update <= FirstUpdateTimeout
    <3>1. profile'[p].hb_update = profile[p].hb_update - 1 /\ profile'[p].hb_update # Off
      BY <1>5, <1>8, <2>3, Times DEF Down
    <3>2. silence'[nf] + profile'[p].hb_update <= silence[nf] + profile[p].hb_update
      BY <1>1, <1>8, <3>1, Times
    <3>3. /\ silence'[nf] + profile'[p].hb_update <= LongestSilence
          /\ profile[p].is_updated => silence'[nf] + profile'[p].hb_update <= FirstUpdateTimeout
      BY <1>8, <2>3, <3>1, <3>2, Times
    <3>4. InTime(nf)'
      BY <1>3, <1>5, <3>1, <3>3 DEF InTime
    <3>5. QED
      BY <1>3, <1>6, <1>7, <1>9, <3>4 DEF Watched, Leaving
  <2>4. CASE /\ profile[p].hb_update = Off /\ profile[p].first_update /\ ~profile[p].is_updated
             /\ profile[p].first_hb # Off /\ silence[nf] + profile[p].first_hb <= FirstTimeout
    <3>1. /\ profile'[p].hb_update = Off /\ profile'[p].first_hb = profile[p].first_hb - 1
          /\ profile'[p].first_hb # Off
      BY <1>5, <1>8, <2>4, Times DEF Down
    <3>2. silence'[nf] + profile'[p].first_hb <= FirstTimeout
      BY <1>1, <1>8, <2>4, <3>1, Times
    <3>3. InTime(nf)'
      BY <1>3, <1>5, <2>4, <3>1, <3>2 DEF InTime
    <3>4. QED
      BY <1>3, <1>6, <1>7, <1>9, <3>3 DEF Watched, Leaving
  <2>5. QED
    BY <1>4, <1>7, <2>1, <2>2, <2>3, <2>4 DEF InTime
<1>10. CASE ~Active(nf)
  <2>1. Removed(nf)
    BY <1>6, <1>10 DEF Leaving
  <2>2. PICK i \in 0..1 : nf \in suspended_nf[i] /\ silence[nf] + Left(i) <= Forgotten
    BY <1>7, <2>1 DEF Removed
  <2>3. Left(i)' = Left(i) - 1 /\ Left(i) \in Nat
    <3>1. clock \in 0..2 * Interval - 1 /\ cleanup \in 0..Interval /\ Left(i) \in Nat
      BY LeftTimes, TypeParts DEF TimeTypes
    <3>2. NextPart' = NextPart
      BY <1>1, <3>1, Times DEF NextPart
    <3>3. QED
      BY <1>1, <3>1, <3>2, Times DEF Left
  <2>4. silence'[nf] + Left(i)' <= Forgotten
    BY <1>1, <1>8, <2>2, <2>3, Times
  <2>5. Removed(nf)'
    BY <1>4, <1>7, <2>2, <2>4 DEF Removed
  <2>6. \A h \in Threads : http'[h].nf # nf
    BY <1>1, BlankFields
  <2>7. QED
    BY <1>6, <1>10, <2>5, <2>6 DEF Watched, Leaving
<1>11. QED
  BY <1>9, <1>10

\* NFs that stop stay watched, and leave.
LEMMA SilentNext ==
  ASSUME TypeOK, Owned, Reported, SilentGo, [Next]_vars
  PROVE  SilentGo'
<1>1. TypeOK' /\ Owned' /\ UpdatesDisturbed'
  BY OwnedNext, ReportedNext DEF SilentGo
<1>2. CASE Next
  <2>1. HeardNow' /\ ArmedOnce' /\ ClearTime'
    BY <1>1, <1>2, HeardNext, ArmedNext, ClearNext DEF SilentGo
  <2>2. ASSUME NEW m \in Nfs PROVE Watched(m)' /\ Leaving(m)'
    <3>1. /\ UpdatesDisturbed /\ HeardNow /\ ArmedOnce /\ ClearTime /\ Watched(m) /\ Leaving(m)
      BY DEF SilentGo
    <3>2. ASSUME Untouched(m) PROVE Watched(m)' /\ Leaving(m)'
      BY <1>1, <3>1, <3>2, UntouchedSilent
    <3>3. ASSUME NEW h \in Threads, HttpThread(h) PROVE Watched(m)' /\ Leaving(m)'
      <4>1. ASSUME NEW nf \in Nfs, Register(h, nf) \/ Heartbeat(h, nf) \/ ChangeProfile(h, nf) \/ Deregister(h, nf)
            PROVE  Watched(m)' /\ Leaving(m)'
        <5>1. CASE m = nf
          BY <1>1, <3>1, <4>1, <5>1, SilentStarts
        <5>2. CASE m # nf
          BY <1>1, <3>2, <4>1, <5>2, OthersStart
        <5>3. QED
          BY <5>1, <5>2
      <4>2. CASE \/ subscribe_heartbeat_timeout_nfregistration(h) \/ nf_status_registered(h)
                 \/ update_nf_profile(h) \/ unsubscribe_heartbeat_timeout_nfregistration(h)
                 \/ Subscribe(h) \/ EndHeartbeat(h) \/ remove_nf_profile(h)
        <5>1. CASE http[h].nf = m
          BY <1>1, <3>1, <4>2, <5>1, SilentSteps
        <5>2. CASE http[h].nf # m
          BY <1>1, <3>2, <4>2, <5>2, OthersGoOn
        <5>3. QED
          BY <5>1, <5>2
      <4>3. CASE \/ \E s \in Subs : CreateSubscription(h, s) \/ RemoveSubscription(h, s)
                 \/ find_nf_profiles(h)
        BY <1>1, <3>2, <4>3, OthersSubscriptions
      <4>4. QED
        BY <3>3, <4>1, <4>2, <4>3 DEF HttpThread
    <3>4. CASE TickTask
      BY <1>1, <3>1, <3>4, SilentErase, SilentClear, SilentTimeouts, SilentSuspend, SilentList, SilentEndSlot
         DEF TickTask
    <3>5. CASE TimePasses
      BY <1>1, <3>1, <3>5, SilentPass
    <3>6. QED
      BY <1>2, <3>3, <3>4, <3>5 DEF Next
  <2>3. QED
    BY <1>1, <2>1, <2>2 DEF SilentGo
<1>3. CASE UNCHANGED vars
  <2>1. HeardNow' /\ ArmedOnce' /\ ClearTime'
    BY <1>3 DEF vars, database, timing, history, SilentGo, HeardNow, ArmedOnce, ClearTime
  <2>2. ASSUME NEW m \in Nfs PROVE Watched(m)' /\ Leaving(m)'
    <3>1. Untouched(m)
      BY <1>3 DEF vars, database, timing, history, Untouched
    <3>2. QED
      BY <1>1, <3>1, UntouchedSilent DEF SilentGo
  <2>3. QED
    BY <1>1, <2>1, <2>2 DEF SilentGo
<1>4. QED
  BY <1>2, <1>3

-----------------------------------------------------------------------------
(* The theorems.                                                            *)

\* No NF is there to begin with.
LEMMA InvariantsInit ==
  ASSUME Init
  PROVE  Reported /\ UpdatesDisturbed /\ PromptKept /\ SilentGo
<1>1. /\ \A nf \in Nfs : instance_id2nrf_profile[nf] = NoProfile /\ deadline[nf] = Late
      /\ \A h \in Threads : http[h].pc = "idle"
      /\ \A p \in Profiles : profile[p] = Blank
      /\ tick.pc = "idle" /\ subscriptions = {}
  BY BlankFields DEF Init
<1>2. Reported /\ UpdatesDisturbed /\ PromptKept
  BY <1>1, Zenon DEF Reported, UpdatesDisturbed, PromptKept, Kept, Updating
<1>3. \A nf \in Nfs : Watched(nf) /\ Leaving(nf)
  BY <1>1, BlankFields DEF Watched, Leaving, Steady
<1>4. HeardNow /\ ArmedOnce /\ ClearTime
  BY <1>1, BlankObject DEF HeardNow, ArmedOnce, ClearTime, Updating
<1>5. QED
  BY <1>2, <1>3, <1>4 DEF SilentGo

\* A registered object that no suspension met is steady.
LEMMA ActiveSteady ==
  ASSUME TypeOK, NEW nf \in Nfs, instance_id2nrf_profile[nf] # NoProfile,
         instance_id2nrf_profile[nf] \notin disturbed
  PROVE  Steady(nf) /\ instance_id2nrf_profile[nf] \in Profiles
BY TypeParts DEF MapTypes, Steady

\* Who is registered while no request is under way was told.
LEMMA ReportedTold ==
  ASSUME TypeOK, Reported
  PROVE  NoRegistrationMissed
<1>1. SUFFICES ASSUME NEW s \in subscriptions, NEW nf \in Nfs, Active(nf),
                      instance_id2nrf_profile[nf] \notin disturbed, ~Busy(nf),
                      \A h \in Threads : http[h].sub # s
               PROVE  nf \in told[s]
  BY DEF NoRegistrationMissed
<1>2. Steady(nf)
  BY <1>1, ActiveSteady DEF Active
<1>3. Awaited(s, nf)
  BY <1>1, <1>2 DEF Reported
<1>4. QED
  BY <1>1, <1>3 DEF Awaited, Busy

\* What is kept is registered.
LEMMA KeptActive ==
  ASSUME TypeOK, PromptKept
  PROVE  PromptNfStaysDiscoverable
<1>1. SUFFICES ASSUME NEW nf \in Nfs, deadline[nf] # Late PROVE Active(nf)
  BY DEF PromptNfStaysDiscoverable
<1>2. Kept(nf)
  BY DEF PromptKept
<1>3. PICK p \in Profiles : p = instance_id2nrf_profile[nf] /\ profile[p].nf_status = "REGISTERED"
  BY <1>1, <1>2 DEF Kept
<1>4. QED
  BY <1>3, BlankFields DEF Active

\* What is watched or leaving has not been silent for too long.
LEMMA SilentBounds ==
  ASSUME TypeOK, SilentGo
  PROVE  SilentNfGoes
<1>1. SUFFICES ASSUME NEW nf \in Nfs, instance_id2nrf_profile[nf] # NoProfile,
                      instance_id2nrf_profile[nf] \notin disturbed
               PROVE  /\ Active(nf) => silence[nf] <= LongestSilence
                      /\ silence[nf] <= Forgotten
  BY DEF SilentNfGoes
<1>2. Steady(nf) /\ instance_id2nrf_profile[nf] \in Profiles /\ Watched(nf) /\ Leaving(nf)
  BY <1>1, ActiveSteady DEF SilentGo
<1>3. silence[nf] \in Nat
  BY Times, TypeParts DEF TimeTypes
<1>4. silence[nf] <= LongestSilence => silence[nf] <= Forgotten
  BY <1>3, Times
<1>5. CASE Active(nf)
  <2>1. silence[nf] <= LongestSilence
    BY <1>2, <1>5, InTimeSilence DEF Watched
  <2>2. QED
    BY <1>4, <2>1
<1>6. CASE ~Active(nf)
  <2>1. CASE silence[nf] <= LongestSilence
    BY <1>4, <2>1
  <2>2. CASE \E i \in 0..1 : silence[nf] + Left(i) <= Forgotten
    <3>1. PICK i \in 0..1 : silence[nf] + Left(i) <= Forgotten
      BY <2>2
    <3>2. Left(i) \in Nat
      BY LeftTimes
    <3>3. QED
      BY <1>3, <1>6, <3>1, <3>2, Times
  <2>3. QED
    BY <1>2, <1>6, <2>1, <2>2 DEF Leaving, Removed
<1>7. QED
  BY <1>5, <1>6

\* The map, the objects, the threads and the timers are what they are declared to be.
THEOREM TypeCorrect == Spec => []TypeOK
<1>1. Init => TypeOK /\ Owned
  BY OwnedInit
<1>2. TypeOK /\ Owned /\ [Next]_vars => TypeOK' /\ Owned'
  BY OwnedNext
<1>3. QED
  BY <1>1, <1>2, PTL DEF Spec

\* A subscriber is told of every registered NF, however its subscription and the
\* registration (handle_create_subscription, handle_register_nf_instance) meet.
THEOREM RegistrationsAreReported == Spec => []NoRegistrationMissed
<1>1. Init => TypeOK /\ Owned /\ Reported /\ UpdatesDisturbed
  BY OwnedInit, InvariantsInit
<1>2. TypeOK /\ Owned /\ Reported /\ UpdatesDisturbed /\ [Next]_vars =>
        TypeOK' /\ Owned' /\ Reported' /\ UpdatesDisturbed'
  BY OwnedNext, ReportedNext
<1>3. TypeOK /\ Reported => NoRegistrationMissed
  BY ReportedTold
<1>4. QED
  BY <1>1, <1>2, <1>3, PTL DEF Spec

\* An NF that sends its heartbeats less than Slack late is neither suspended by a
\* time-out of its profile nor removed.
THEOREM PromptNfsStay == Spec => []PromptNfStaysDiscoverable
<1>1. Init => TypeOK /\ Owned /\ PromptKept
  BY OwnedInit, InvariantsInit
<1>2. TypeOK /\ Owned /\ PromptKept /\ [Next]_vars => TypeOK' /\ Owned' /\ PromptKept'
  BY OwnedNext, KeptNext
<1>3. TypeOK /\ PromptKept => PromptNfStaysDiscoverable
  BY KeptActive
<1>4. QED
  BY <1>1, <1>2, <1>3, PTL DEF Spec

\* An NF that stops is suspended by a time-out and removed by one of the next two
\* removals, unless it had come back from suspension.
THEOREM SilentNfsGo == Spec => []SilentNfGoes
<1>1. Init => TypeOK /\ Owned /\ Reported /\ SilentGo
  BY OwnedInit, InvariantsInit
<1>2. TypeOK /\ Owned /\ Reported /\ SilentGo /\ [Next]_vars => TypeOK' /\ Owned' /\ Reported' /\ SilentGo'
  BY OwnedNext, ReportedNext, SilentNext DEF SilentGo
<1>3. TypeOK /\ SilentGo => SilentNfGoes
  BY SilentBounds
<1>4. QED
  BY <1>1, <1>2, <1>3, PTL DEF Spec
=============================================================================
