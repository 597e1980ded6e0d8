SPECIFICATION FairSpec
CONSTANT N = 3
INVARIANT OneOutcomeEach
PROPERTY JobEnds
CHECK_DEADLOCK FALSE
