\* Two pages, one list, one item, and one await that throws.
SPECIFICATION PageSpec
CONSTANTS
    Page = {p1, p2}
    List = {l1}
    Item = {i1}
    MaxFaults = 1
    MaxQueue = 2
    MaxEvents = 3
SYMMETRY PageSymmetry
INVARIANTS ReadsItsWrites DivergesOnlyByOvertaking
CHECK_DEADLOCK FALSE
