CONSTANTS
    Procs = {p1, p2}
    Working = {p1}
    TTL = 1
    Stamps = {1, 2, 3, 4}
    MaxGen = 2
    MaxFaults = 1
SPECIFICATION LeaderFairSpec
PROPERTIES RequestedStepsDown SomeoneLeads
