SPECIFICATION Spec
CONSTANTS
    QueueThreshold = 2
    TestLimit = 5
    Depths = {0, 1, 2, 3}
    Saturations = {0, 95, 100}
PROPERTY ClosesOnSuccesses
