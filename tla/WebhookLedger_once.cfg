SPECIFICATION Spec
CONSTANTS
    LastBlock = 2
    Kinds = {k1, k2}
    Workers = 2
    MaxDelivered = 4
    MaxPending = 4
    Modes = {"normal"}
    MaxReplays = 1
    MaxFaults = 2
INVARIANTS DeliveredMeansReceived
PROPERTIES NoResend EveryEventArrives
