\* Liveness: two workers and a YAML switch, no faults; beside it the other parts.
SPECIFICATION PartsSpec
CONSTANTS
    w1 = w1  w2 = w2  a1 = a1  h1 = h1  ip1 = ip1
    Host = {h1}
    YamlHost = {h1}
    Addr = {ip1}
    Address <- OwnAddress
    Silent = {ip1}
    Worker = {w1, w2}
    Operator = {}
    AlertId = {a1}
    Note = {}
    MaxRow = 1
    CountCap = 3
    Faults = FALSE
PROPERTIES Recovery SendersEnd CheckingEnds
\* The poller of the webhooks has no poll left.
CHECK_DEADLOCK FALSE
