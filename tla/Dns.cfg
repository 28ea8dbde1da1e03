SPECIFICATION DnsSpec
CONSTANTS
    Client = {c1, c2}
    Name = {n1, n2}
    ErrorLimit = 2
    Room = 2
    MaxFaults = 3
INVARIANTS
    OwnAnswer
 
