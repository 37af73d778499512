\* Two requests in progress, two tokens, one address under three sets of credentials, two of
\* which differ in blanks; beside it the reports.
SPECIFICATION EachSpec
CONSTANTS
    Config = {f1, f2, f3}
    Alike = {f1, f2}
    Address <- OneAddress
    Fingerprint <- Trimmed
    Token = {t1, t2}
    Call = {c1, c2}
    MaxDevices = 0
    Faults = TRUE
    Age = {}
    Slot = {s1, s2}
    Window = {30}
    Target = {95, 99}
    Recipient = {"r1"}
    Sends = 1
SYMMETRY Symmetry
INVARIANTS RegisteredWasTested TokenAdmitsOne AddressesDiffer 
