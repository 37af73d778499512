\* A device that answers, or simulate requests racing two workers on one device,
\* or every sequence of at most MaxPolls poll results.
SPECIFICATION EitherSpec
CONSTANTS
    w1 = w1  w2 = w2  a1 = a1  a2 = a2  h1 = h1  h2 = h2  ip1 = ip1  ip2 = ip2  o1 = o1
    Host = {h1}
    YamlHost = {h1}
    Addr = {ip1}
    Address <- OwnAddress
    Silent = {}
    Worker = {w1, w2}
    Operator = {}
    AlertId = {a1, a2}
    Note = {}
    MaxRow = 3
    CountCap = 3
    Faults = FALSE
    MaxPolls = 9
SYMMETRY Symmetry
INVARIANTS OneActiveIncident AnsweringStaysUp
    HistoryTypeOK StateMatchesHistory CountersMatchHistory
\* A sequence of MaxPolls results is not extended: the bound, not the code.
CHECK_DEADLOCK FALSE
