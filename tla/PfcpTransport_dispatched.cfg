SPECIFICATION FairSpec
CONSTANTS
    smf = smf
    upf = upf
    heartbeat = heartbeat
    report = report
    Nodes = {smf, upf}
    Requesters = {smf, upf}
    Types = {heartbeat}
    ReportTypes = {}
    FirstSeqs = {0}
    SeqModulus = 3
    N1 = 1
    MaxRequests = 1
    MaxTrxns = 2
    DispatchTimers = TRUE
PROPERTY RetriesStop
 
 
CHECK_DEADLOCK FALSE
