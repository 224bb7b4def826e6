SPECIFICATION FairSpec
CONSTANTS
    n1 = n1
    n2 = n2
    p1 = p1
    Nodes <- MCNodes
    Protos <- MCProtos
    Nil = Nil
    MaxEvents = 1
    Cap = 1
    MaxPending = 2
    MaxLoadID = 4
INVARIANTS
    FormShowsChosenSpoke
    RunIsWatched
    CompletionIsTrue
    NoMenuAfterReplacement
PROPERTIES
    SuspendedComesBack
    RunEndsOnScreen
