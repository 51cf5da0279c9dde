\* A bare Actor and a holder of handles and commands, two calls at a time.
SPECIFICATION Spec
CONSTANTS
    Holder = {h1, h2}
    Bare = {h1}
    Call = {c1, c2}
    EventType <- Written3
    StateOf <- StatusOf
    Offers <- HandleOffers
    MaxSequence <- TwoOrThree
    BareTypes <- MadeOrDeleted
    HandleTypes <- Deletion
    MaxLate = 1
SYMMETRY CallSymmetry
INVARIANTS StaleOnlyThroughGaps DoneIsDecided
