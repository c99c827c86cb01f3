SPECIFICATION Spec
CONSTANTS
    LastBlock = 2
    Kinds = {k1, k2}
    Workers = 2
    MaxDelivered = 1
    MaxPending = 1
    Modes = {"normal", "noWebhook", "dryRun", "noUrl"}
    MaxReplays = 1
    MaxFaults = 2
SYMMETRY KindSymmetry
INVARIANTS NothingLost CheckpointBounded
