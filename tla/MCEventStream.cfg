SPECIFICATION FairSpec
CONSTANTS
    a1 = a1
    c1 = c1
    c2 = c2
    s1 = s1
    s2 = s2
    NoThread = NoThread
    Agents = {a1}
    Conns = {c1, c2}
    AgentOf <- BothOfOne
    Senders = {s1, s2}
    MaxEvents = 2
INVARIANT TypeOK
INVARIANT ReceivedWithoutGaps
PROPERTY BroadcastReachesListeners
PROPERTY DeadConnectionsLeave
PROPERTY StopTakesEffect
