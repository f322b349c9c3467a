--------------------------- MODULE NrfManagement ---------------------------
(***************************************************************************)
(* NF management in the NRF (nrf_app, nrf_profile): registration, update,   *)
(* deregistration, heartbeats and suspension of network functions, and the  *)
(* subscriptions to their status.  HTTP threads run the requests, one task  *)
(* ticks every millisecond and runs the time-outs of profiles and the       *)
(* removal of suspended NFs.  An action ends where another thread can come  *)
(* between.                                                                  *)
(*                                                                          *)
(* Time passes in units in which a request is instantaneous: it passes only *)
(* while no request and no slot is under way.  Timers count down to 0, when *)
(* their slot is due.  A profile is its status and heartbeat state; of the  *)
(* status only REGISTERED and SUSPENDED, the values this core's NFs send.   *)
(***************************************************************************)
EXTENDS Integers, FiniteSets

CONSTANTS
    Nfs,
    Subs,         \* subscriptions to the NF type of all Nfs
    Threads,      \* the HTTP server's
    Profiles,     \* objects nrf_profile, used again when destroyed
    HeartBeat,    \* nrf_cfg heartbeat
    Slack,        \* the 2000 ms added to the first time-out after an update
    Interval,     \* suspended_nf_interval
    CleanupPhases \* where the tick task starts within an interval

NoProfile == "no profile"
NoNf == "no NF"

ASSUME SetsAssumption ==
    /\ IsFiniteSet(Profiles) /\ NoProfile \notin Profiles /\ NoNf \notin Nfs \cup Subs
    /\ Cardinality(Nfs) + Cardinality(Threads) <= Cardinality(Profiles)
ASSUME TimesAssumption ==
    /\ HeartBeat \in Nat \ {0} /\ Slack \in Nat \ {0} /\ 2 * Slack <= HeartBeat
    /\ Interval \in Nat \ {0} /\ CleanupPhases \subseteq 1..Interval

VARIABLES
    instance_id2nrf_profile,
    profile,        \* the objects
    suspended_nf,   \* the two parts of the suspended set
    subscriptions,  \* subscrition_id2nrf_subscription
    clock,          \* the time of day, modulo two intervals
    cleanup,        \* time to the next handle_remove_suspended_nf
    http,           \* what each HTTP thread does
    tick,           \* what the tick task does
    told,           \* history: per subscription, the NFs notified as registered
    silence,        \* history: per NF, time since it registered or sent a heartbeat
    deadline,       \* history: per NF, when its next heartbeat is late
    disturbed       \* history: objects suspended before or while their NF was heard
                    \* of, and those stored again over a newer registration

database == <<instance_id2nrf_profile, suspended_nf, subscriptions>>
timing == <<clock, cleanup>>
history == <<told, silence, deadline, disturbed>>
vars == <<database, profile, timing, http, tick, history>>

Off == -1    \* a connection that is not connected
Late == -1   \* an NF that is not known to keep to its schedule

FirstTimeout == 2 * HeartBeat
FirstUpdateTimeout == HeartBeat + Slack
LongestSilence == 2 * HeartBeat + Slack
Forgotten == LongestSilence + 2 * Interval - 1

Blank == [nf |-> NoNf, nf_status |-> "REGISTERED", is_updated |-> FALSE,
          first_update |-> TRUE, first_hb |-> Off, hb_update |-> Off]
Idle == [pc |-> "idle", nf |-> NoNf, p |-> NoProfile, sub |-> NoNf]
Resting == [pc |-> "idle", nf |-> NoNf, p |-> NoProfile]

TypeOK ==
    /\ instance_id2nrf_profile \in [Nfs -> Profiles \cup {NoProfile}]
    /\ profile \in [Profiles ->
          [nf : Nfs \cup {NoNf}, nf_status : {"REGISTERED", "SUSPENDED"},
           is_updated : BOOLEAN, first_update : BOOLEAN,
           first_hb : Off..FirstTimeout, hb_update : Off..FirstUpdateTimeout]]
    /\ suspended_nf \in [0..1 -> SUBSET Nfs]
    /\ subscriptions \subseteq Subs
    /\ clock \in 0..2 * Interval - 1 /\ cleanup \in 0..Interval
    /\ http \in [Threads -> {Idle}
          \cup [pc : {"arm", "notify", "erase", "replace", "put_back", "unsubscribe",
                      "subscribe", "flag"},
                nf : Nfs, p : Profiles, sub : {NoNf}]
          \cup [pc : {"find"}, nf : {NoNf}, p : {NoProfile}, sub : Subs]]
    /\ tick \in {Resting}
          \cup [pc : {"clear"}, nf : {NoNf}, p : {NoProfile}]
          \cup [pc : {"first_suspend", "first_list", "first_reset", "suspend",
                      "list", "reset"},
                nf : Nfs, p : Profiles \cup {NoProfile}]
    /\ told \in [Subs -> SUBSET Nfs]
    /\ silence \in [Nfs -> 0..Forgotten + 1]
    /\ deadline \in [Nfs -> Late..HeartBeat + Slack - 1]
    /\ disturbed \subseteq Profiles

Init ==
    /\ instance_id2nrf_profile = [nf \in Nfs |-> NoProfile]
    /\ profile = [p \in Profiles |-> Blank]
    /\ suspended_nf = [i \in 0..1 |-> {}]
    /\ subscriptions = {}
    /\ clock = 0 /\ cleanup \in CleanupPhases
    /\ http = [h \in Threads |-> Idle]
    /\ tick = Resting
    /\ told = [s \in Subs |-> {}]
    /\ silence = [nf \in Nfs |-> 0]
    /\ deadline = [nf \in Nfs |-> Late]
    /\ disturbed = {}

-----------------------------------------------------------------------------
(* Objects are shared pointers: one lives while the map or a request refers *)
(* to it, and its destructor disconnects its timers.  A slot that runs in a *)
(* destroyed object goes on with what it finds there (p is NoProfile).      *)

Referenced(p) ==
    \/ \E nf \in Nfs : instance_id2nrf_profile[nf] = p
    \/ \E h \in Threads : http[h].p = p

\* The objects become new, those no longer referred to are destroyed.
Keep(new, marked) ==
    /\ profile' = [p \in Profiles |-> IF Referenced(p)' THEN new[p] ELSE Blank]
    /\ disturbed' = {p \in disturbed \cup marked : Referenced(p)'}

KeepSlot ==
    tick' = IF \E p \in Profiles : tick.p = p /\ ~Referenced(p)'
            THEN [tick EXCEPT !.p = NoProfile] ELSE tick

Active(nf) ==
    /\ instance_id2nrf_profile[nf] # NoProfile
    /\ profile[instance_id2nrf_profile[nf]].nf_status = "REGISTERED"

Busy(nf) == \E h \in Threads : http[h].nf = nf
Listed(nf) == nf \in suspended_nf[0] \cup suspended_nf[1]

\* The part of the suspended set in use at this time of day.
Part == (clock \div Interval) % 2

End(h) == http' = [http EXCEPT ![h] = Idle]
Goto(h, pc) == http' = [http EXCEPT ![h].pc = pc]

-----------------------------------------------------------------------------
(* handle_register_nf_instance: the new object replaces the old one in the  *)
(* map, then its first time-out is armed, then the subscribers are notified. *)

Register(h, nf) ==
    /\ http[h] = Idle
    /\ \E p \in Profiles :
          /\ ~Referenced(p)
          /\ instance_id2nrf_profile' = [instance_id2nrf_profile EXCEPT ![nf] = p]
          /\ http' = [http EXCEPT ![h] = [Idle EXCEPT !.pc = "arm", !.nf = nf, !.p = p]]
          /\ Keep([profile EXCEPT ![p].nf = nf], {})
    /\ KeepSlot
    /\ silence' = [silence EXCEPT ![nf] = 0]
    /\ deadline' = [deadline EXCEPT ![nf] =
          IF Busy(nf) \/ Listed(nf) \/ tick.nf = nf THEN Late
          ELSE HeartBeat + Slack - 1]
    /\ UNCHANGED <<suspended_nf, subscriptions, timing, told>>

subscribe_heartbeat_timeout_nfregistration(h) ==
    /\ http[h].pc = "arm"
    /\ profile' = [profile EXCEPT ![http[h].p].first_hb = FirstTimeout]
    /\ Goto(h, "notify")
    /\ UNCHANGED <<database, timing, tick, history>>

\* The notification goes out if the NF is still found.
nf_status_registered(h) ==
    /\ http[h].pc = "notify"
    /\ told' = IF instance_id2nrf_profile[http[h].nf] = NoProfile THEN told
               ELSE [s \in Subs |-> IF s \in subscriptions
                                    THEN told[s] \cup {http[h].nf} ELSE told[s]]
    /\ UNCHANGED <<database, timing, silence, deadline>>
    /\ End(h) /\ Keep(profile, {}) /\ KeepSlot

-----------------------------------------------------------------------------
(* handle_update_nf_instance; without a profile it is a 404.                *)

\* A heartbeat: replace_profile_info sets the status of the object found.
Heartbeat(h, nf) ==
    LET p == instance_id2nrf_profile[nf] IN
    /\ http[h] = Idle /\ p # NoProfile
    /\ profile' = [profile EXCEPT ![p].nf_status = "REGISTERED"]
    /\ disturbed' = IF profile[p].nf_status = "SUSPENDED" THEN disturbed \cup {p} ELSE disturbed
    /\ http' = [http EXCEPT ![h] = [Idle EXCEPT !.pc = "put_back", !.nf = nf, !.p = p]]
    /\ silence' = [silence EXCEPT ![nf] = 0]
    /\ deadline' = [deadline EXCEPT ![nf] =
          IF @ \in 0..Slack - 1 /\ ~Busy(nf) THEN @ + HeartBeat ELSE Late]
    /\ UNCHANGED <<database, timing, tick, told>>

\* A change of other attributes, of which the subscribers hear.
ChangeProfile(h, nf) ==
    LET p == instance_id2nrf_profile[nf] IN
    /\ http[h] = Idle /\ p # NoProfile
    /\ http' = [http EXCEPT ![h] = [Idle EXCEPT !.pc = "replace", !.nf = nf, !.p = p]]
    /\ deadline' = [deadline EXCEPT ![nf] = IF Busy(nf) THEN Late ELSE @]
    /\ UNCHANGED <<database, profile, timing, tick, told, silence, disturbed>>

\* The object found is stored again, unless the id is gone.
PutBack(map, h) ==
    IF map[http[h].nf] = NoProfile THEN map ELSE [map EXCEPT ![http[h].nf] = http[h].p]

update_nf_profile(h) ==
    /\ http[h].pc \in {"put_back", "replace"}
    /\ instance_id2nrf_profile' = PutBack(instance_id2nrf_profile, h)
    /\ IF http[h].pc = "replace" THEN End(h) ELSE Goto(h, "unsubscribe")
    /\ Keep(profile,
            IF instance_id2nrf_profile[http[h].nf] \in {http[h].p, NoProfile} THEN {}
            ELSE {http[h].p})
    /\ KeepSlot
    /\ UNCHANGED <<suspended_nf, subscriptions, timing, told, silence, deadline>>

\* With the first time-out pending the thread sleeps before it subscribes.
unsubscribe_heartbeat_timeout_nfregistration(h) ==
    /\ http[h].pc = "unsubscribe" /\ profile[http[h].p].first_hb # Off
    /\ profile' = [profile EXCEPT ![http[h].p].first_hb = Off]
    /\ Goto(h, "subscribe")
    /\ UNCHANGED <<database, timing, tick, history>>

\* The fault of arming it without the 2000 ms.
WithoutSlack(o) ==
    IF o.hb_update = Off /\ o.first_update
    THEN [o EXCEPT !.hb_update = HeartBeat, !.first_update = FALSE]
    ELSE o

\* The fault of adding them twice.
SlackTwice(o) ==
    IF o.hb_update = Off /\ o.first_update
    THEN [o EXCEPT !.hb_update = FirstUpdateTimeout + Slack, !.first_update = FALSE]
    ELSE o

\* Only the first call arms the time-out.
subscribe_heartbeat_timeout_nfupdate(o) ==
    IF o.hb_update = Off /\ o.first_update
    THEN [o EXCEPT !.hb_update = FirstUpdateTimeout, !.first_update = FALSE]
    ELSE o

\* After the sleep, or if the first time-out was not pending; set_nf_status.
Subscribe(h) ==
    /\ \/ http[h].pc = "subscribe"
       \/ http[h].pc = "unsubscribe" /\ profile[http[h].p].first_hb = Off
    /\ profile' = [profile EXCEPT ![http[h].p] =
          [subscribe_heartbeat_timeout_nfupdate(@) EXCEPT !.nf_status = "REGISTERED"]]
    /\ Goto(h, "flag")
    /\ UNCHANGED <<database, timing, tick, history>>

\* The second set is looked at only if the first one did not hold the NF.
remove_from_suspended_list(nf) ==
    LET i == IF nf \in suspended_nf[0] THEN 0 ELSE 1 IN
    suspended_nf' = [suspended_nf EXCEPT ![i] = @ \ {nf}]

\* set_status_updated(true), and out of the suspended set.
EndHeartbeat(h) ==
    /\ http[h].pc = "flag"
    /\ remove_from_suspended_list(http[h].nf)
    /\ UNCHANGED <<instance_id2nrf_profile, subscriptions, timing, told, silence, deadline>>
    /\ End(h) /\ Keep([profile EXCEPT ![http[h].p].is_updated = TRUE], {}) /\ KeepSlot

-----------------------------------------------------------------------------
(* handle_deregister_nf_instance: notification, then removal.  The NF stays *)
(* in the suspended set.                                                    *)

Deregister(h, nf) ==
    /\ http[h] = Idle /\ instance_id2nrf_profile[nf] # NoProfile
    /\ http' = [http EXCEPT ![h] = [Idle EXCEPT !.pc = "erase", !.nf = nf,
                                                !.p = instance_id2nrf_profile[nf]]]
    /\ told' = [s \in Subs |-> IF s \in subscriptions THEN told[s] \ {nf} ELSE told[s]]
    /\ deadline' = [deadline EXCEPT ![nf] = Late]
    /\ UNCHANGED <<database, profile, timing, tick, silence, disturbed>>

remove_nf_profile(h) ==
    /\ http[h].pc = "erase"
    /\ instance_id2nrf_profile' = [instance_id2nrf_profile EXCEPT ![http[h].nf] = NoProfile]
    /\ End(h) /\ Keep(profile, {}) /\ KeepSlot
    /\ deadline' = [deadline EXCEPT ![http[h].nf] = Late]
    /\ UNCHANGED <<suspended_nf, subscriptions, timing, told, silence>>

-----------------------------------------------------------------------------
(* handle_create_subscription: the subscription is stored, then the NFs     *)
(* that are there are reported.                                             *)

CreateSubscription(h, s) ==
    /\ http[h] = Idle
    /\ s \notin subscriptions /\ \A g \in Threads : http[g].sub # s
    /\ subscriptions' = subscriptions \cup {s}
    /\ http' = [http EXCEPT ![h] = [Idle EXCEPT !.pc = "find", !.sub = s]]
    /\ UNCHANGED <<instance_id2nrf_profile, suspended_nf, profile, timing, tick, history>>

\* The fault of reporting nothing of what was there before.
FindNothing(h) ==
    /\ http[h].pc = "find"
    /\ End(h)
    /\ UNCHANGED <<database, profile, timing, tick, history>>

find_nf_profiles(h) ==
    /\ http[h].pc = "find"
    /\ told' = [told EXCEPT ![http[h].sub] = @ \cup {nf \in Nfs : Active(nf)}]
    /\ End(h)
    /\ UNCHANGED <<database, profile, timing, tick, silence, deadline, disturbed>>

RemoveSubscription(h, s) ==
    /\ http[h] = Idle /\ s \in subscriptions /\ \A g \in Threads : http[g].sub # s
    /\ subscriptions' = subscriptions \ {s}
    /\ told' = [told EXCEPT ![s] = {}]
    /\ UNCHANGED <<instance_id2nrf_profile, suspended_nf, profile, timing, http, tick,
                   silence, deadline, disturbed>>

-----------------------------------------------------------------------------
(* The tick task: the removal of suspended NFs is connected first, then the *)
(* time-outs of the profiles, in any order.                                 *)

\* The fault of the other parity.
SamePart == suspended_nf[Part]

CleanupSet == suspended_nf[1 - Part]

\* handle_remove_suspended_nf: the profiles, then the set.
EraseSuspended ==
    /\ tick = Resting /\ cleanup = 0
    /\ instance_id2nrf_profile' = [nf \in Nfs |->
          IF nf \in CleanupSet THEN NoProfile ELSE instance_id2nrf_profile[nf]]
    /\ tick' = [Resting EXCEPT !.pc = "clear"]
    /\ UNCHANGED <<suspended_nf, subscriptions, timing, http, told, silence, deadline>>
    /\ Keep(profile, {})

ClearSuspended ==
    /\ tick.pc = "clear"
    /\ suspended_nf' = [suspended_nf EXCEPT ![1 - Part] = {}]
    /\ cleanup' = Interval
    /\ tick' = Resting
    /\ UNCHANGED <<instance_id2nrf_profile, subscriptions, profile, clock, http, history>>

SlotOf(p, pc) == tick' = [pc |-> pc, nf |-> profile[p].nf, p |-> p]

handle_heartbeat_timeout_nfregistration(p) ==
    /\ tick = Resting /\ cleanup # 0
    /\ profile[p].first_hb = 0
    /\ profile' = [profile EXCEPT ![p].first_hb = FirstTimeout]
    /\ SlotOf(p, IF profile[p].is_updated THEN "first_reset" ELSE "first_suspend")
    /\ UNCHANGED <<database, timing, http, history>>

handle_heartbeat_timeout_nfupdate(p) ==
    /\ tick = Resting /\ cleanup # 0
    /\ profile[p].hb_update = 0
    /\ profile' = [profile EXCEPT ![p].hb_update = HeartBeat]
    /\ SlotOf(p, IF profile[p].is_updated THEN "reset" ELSE "suspend")
    /\ UNCHANGED <<database, timing, http, history>>

\* What the slot does to its object, if that still exists.
InSlot(o) == profile' = IF tick.p = NoProfile THEN profile ELSE [profile EXCEPT ![tick.p] = o]
Slot == profile[tick.p]

\* The time-out after an update is also unsubscribed.
SetSuspended ==
    /\ tick.pc \in {"first_suspend", "suspend"}
    /\ InSlot([Slot EXCEPT !.nf_status = "SUSPENDED",
                           !.hb_update = IF tick.pc = "suspend" THEN Off ELSE @])
    /\ disturbed' = IF tick.p # NoProfile /\ Busy(tick.nf) THEN disturbed \cup {tick.p} ELSE disturbed
    /\ tick' = [tick EXCEPT !.pc = IF @ = "suspend" THEN "list" ELSE "first_list"]
    /\ UNCHANGED <<database, timing, http, told, silence, deadline>>

\* The id of a destroyed object may or may not still be there.
add_to_suspended_list ==
    /\ tick.pc \in {"first_list", "list"}
    /\ \/ suspended_nf' = [suspended_nf EXCEPT ![Part] = @ \cup {tick.nf}]
       \/ tick.p = NoProfile /\ UNCHANGED suspended_nf
    /\ tick' = [tick EXCEPT !.pc = IF @ = "list" THEN "reset" ELSE "first_reset"]
    /\ UNCHANGED <<instance_id2nrf_profile, subscriptions, profile, timing, http, history>>

\* set_status_updated(false); the first time-out also disconnects itself.
EndSlot ==
    /\ tick.pc \in {"first_reset", "reset"}
    /\ InSlot([Slot EXCEPT !.is_updated = FALSE,
                           !.first_hb = IF tick.pc = "reset" THEN @ ELSE Off])
    /\ tick' = Resting
    /\ UNCHANGED <<database, timing, http, history>>

-----------------------------------------------------------------------------
Due == \/ cleanup = 0
       \/ \E p \in Profiles : profile[p].first_hb = 0 \/ profile[p].hb_update = 0

Down(t) == IF t = Off THEN Off ELSE t - 1

TimePasses ==
    /\ \A h \in Threads : http[h] = Idle
    /\ tick = Resting /\ ~Due
    /\ profile' = [p \in Profiles |-> [profile[p] EXCEPT !.first_hb = Down(@), !.hb_update = Down(@)]]
    /\ clock' = (clock + 1) % (2 * Interval)
    /\ cleanup' = cleanup - 1
    /\ silence' = [nf \in Nfs |-> IF silence[nf] > Forgotten THEN silence[nf] ELSE silence[nf] + 1]
    /\ deadline' = [nf \in Nfs |-> Down(deadline[nf])]
    /\ UNCHANGED <<database, http, tick, told, disturbed>>

HttpThread(h) ==
    \/ \E nf \in Nfs : \/ Register(h, nf)
                       \/ Heartbeat(h, nf)
                       \/ ChangeProfile(h, nf)
                       \/ Deregister(h, nf)
    \/ subscribe_heartbeat_timeout_nfregistration(h) \/ nf_status_registered(h)
    \/ update_nf_profile(h) \/ unsubscribe_heartbeat_timeout_nfregistration(h)
    \/ Subscribe(h) \/ EndHeartbeat(h) \/ remove_nf_profile(h)
    \/ \E s \in Subs : CreateSubscription(h, s) \/ RemoveSubscription(h, s)
    \/ find_nf_profiles(h)

TickTask ==
    \/ EraseSuspended \/ ClearSuspended
    \/ \E p \in Profiles : \/ handle_heartbeat_timeout_nfregistration(p)
                           \/ handle_heartbeat_timeout_nfupdate(p)
    \/ SetSuspended \/ add_to_suspended_list \/ EndSlot

Next == TimePasses \/ TickTask \/ \E h \in Threads : HttpThread(h)

Spec == Init /\ [][Next]_vars

-----------------------------------------------------------------------------
(* Properties.                                                              *)

Of(nf) == profile[instance_id2nrf_profile[nf]]

\* A network function that sends a heartbeat every HeartBeat units, each less
\* than Slack late, one request at a time, stays registered and discoverable:
\* neither the time-outs of its profile nor the removal of suspended NFs hit it.
\* (It registered while it was not in the suspended set.)
PromptNfStaysDiscoverable ==
    \A nf \in Nfs : deadline[nf] # Late => Active(nf)

\* A network function that stops is no longer discoverable after at most two
\* heartbeat intervals and the slack, and its profile is removed within two
\* intervals of the removal of suspended NFs, unless it had come back from
\* suspension.
SilentNfGoes ==
    \A nf \in Nfs : /\ instance_id2nrf_profile[nf] # NoProfile
                    /\ instance_id2nrf_profile[nf] \notin disturbed
                    => /\ Active(nf) => silence[nf] <= LongestSilence
                       /\ silence[nf] <= Forgotten

\* However the creation of a subscription and a registration meet, the
\* subscriber is told of every NF that is registered, except of those that were
\* suspended in between.
NoRegistrationMissed ==
    \A s \in subscriptions, nf \in Nfs :
        /\ Active(nf) /\ instance_id2nrf_profile[nf] \notin disturbed
        /\ ~Busy(nf) /\ \A h \in Threads : http[h].sub # s
        => nf \in told[s]

\* Does not hold: "Subscribe again to heartbeat timeout if not done (e.g., change
\* status from SUSPENDED to REGISTERED)" (nrf_app.cpp), a registered NF that is
\* not being updated has a time-out pending.
RegisteredIsWatched ==
    \A nf \in Nfs : Active(nf) /\ ~Busy(nf) /\ tick.nf # nf
                    => Of(nf).first_hb # Off \/ Of(nf).hb_update # Off

\* Does not hold: "Handle the event triggered each suspended interval to remove
\* suspended NFs" (nrf_app.hpp), only profiles that are suspended are removed.
RemovesOnlySuspended ==
    [][EraseSuspended => \A nf \in CleanupSet : ~Active(nf)]_vars

\* Does not hold: "All NFs in the first set will be removed at Tn+2"
\* (nrf_app.hpp), an NF that is suspended is not among those the next expiry
\* removes.
SuspendedWaitsOneExpiry ==
    [][\A nf \in Nfs, i \in 0..1 :
          nf \in suspended_nf'[i] /\ nf \notin suspended_nf[i]
          => i = ((clock + cleanup) \div Interval) % 2]_vars
=============================================================================
