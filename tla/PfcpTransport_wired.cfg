SPECIFICATION Spec
CONSTANTS
    smf = smf
    upf = upf
    heartbeat = heartbeat
    report = report
    Nodes = {smf, upf}
    Requesters = {smf, upf}
    Types = {heartbeat, report}
    ReportTypes = {report}
    FirstSeqs = {0, 3}
    SeqModulus = 4
    N1 = 1
    MaxRequests = 1
    MaxTrxns = 3
    DispatchTimers = FALSE
INVARIANT TypeOK
INVARIANT ExchangesStayApart
PROPERTY ImplementsService
CHECK_DEADLOCK FALSE
