SPECIFICATION Spec
CONSTANTS
    nf1 = nf1
    nf2 = nf2
    sub1 = sub1
    thread1 = thread1
    thread2 = thread2
    profile1 = profile1
    profile2 = profile2
    profile3 = profile3
    profile4 = profile4
    Nfs = {nf1}
    Subs = {sub1}
    Threads = {thread1, thread2}
    Profiles = {profile1, profile2, profile3}
    HeartBeat = 2
    Slack = 1
    Interval = 4
    CleanupPhases = {3}
SYMMETRY Symmetry
INVARIANT TypeOK
INVARIANT PromptNfStaysDiscoverable
 
INVARIANT NoRegistrationMissed
