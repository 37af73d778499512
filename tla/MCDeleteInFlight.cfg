\* A registered device deleted while a worker polls it.
SPECIFICATION Spec
CONSTANTS
    w1 = w1  w2 = w2  a1 = a1  a2 = a2  h1 = h1  h2 = h2  ip1 = ip1  ip2 = ip2
    Host = {h1}
    YamlHost = {}
    Addr = {ip1}
    Address <- OwnAddress
    Silent = {ip1}
    Worker = {w1}
    Operator = {}
    AlertId = {a1, a2}
    Note = {}
    MaxRow = 2
    CountCap = 3
    Faults = FALSE
PROPERTY DeletedStaysDeleted
