SPECIFICATION Spec
CONSTANTS
    Requests = {r1, r2}
    Writers = {w1}
    Keys = {k1}
    Ops = {"search", "invoke"}
    MaxEntries = 1
    MaxWrites = 1
    None = None
SYMMETRY Symmetry
INVARIANTS ToolSetsSeeEarlierWrites IndexMatchesDiscoveries
