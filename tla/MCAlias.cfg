\* A YAML switch and a registered device at one address that always answers.
SPECIFICATION Spec
CONSTANTS
    w1 = w1  w2 = w2  a1 = a1  a2 = a2  h1 = h1  h2 = h2  ip1 = ip1  ip2 = ip2
    Host = {h1, h2}
    YamlHost = {h1}
    Addr = {ip1}
    Address <- SharedAddress
    Silent = {}
    Worker = {w1}
    Operator = {}
    AlertId = {a1, a2}
    Note = {}
    MaxRow = 1
    CountCap = 3
    Faults = FALSE
INVARIANT AnsweringIsNotDown
