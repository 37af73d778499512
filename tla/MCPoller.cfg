\* Two workers polling one registered device that may be deleted and
\* registered again, with faults and annotations, and nobody simulating.
SPECIFICATION Spec
CONSTANTS
    w1 = w1  w2 = w2  a1 = a1  a2 = a2  h1 = h1  h2 = h2  ip1 = ip1  ip2 = ip2
    Host = {h1}
    YamlHost = {}
    Addr = {ip1}
    Address <- OwnAddress
    Silent = {ip1}
    Worker = {w1, w2}
    Operator = {}
    AlertId = {a1, a2}
    Note = {ack}
    MaxRow = 2
    CountCap = 3
    Faults = TRUE
SYMMETRY Symmetry
INVARIANTS TypeOK IncidentMeansDown OutageHasIncident UnresolvedIsActive
    ThresholdsKept TimelineTruthful AnnouncedOnce NoOrphans
PROPERTIES ResolvedForGood OutageEndsBySuccesses AnnotationsKept ImplementsIncident
