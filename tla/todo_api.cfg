\* Three requests about one identifier.
SPECIFICATION Spec
CONSTANTS
    Call = {q1, q2, q3}
    Id = {i1}
    MaxNumber = 2
SYMMETRY CallSymmetry
INVARIANTS LossesExplained EditsOnlyWhatIsThere
CHECK_DEADLOCK FALSE
