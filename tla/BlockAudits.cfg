SPECIFICATION AuditSpec
CONSTANTS
    proxy = proxy
    twin = twin
    clone = clone
    implAt = implAt
    shell = shell
    cloned = cloned
    implCode = implCode
    Loop = Loop
    Savers = {Loop, w1, w2}
    LastBlock = 2
    Deployments = {proxy, twin, clone}
    Accounts = {proxy, twin, clone, implAt}
    Direct <- MCDirect
    Traced <- MCTraced
    CodeOf <- MCCodeOf
    Form <- MCForm
    CloneOf <- MCCloneOf
    ImplSlot <- MCImplSlot
    BeaconSlot <- MCBeaconSlot
    BeaconSays <- MCBeaconSays
    Forwards = {}
    None = None
    MaxCache = 1
    MaxRules = 1
    MaxEdits = 1
    MaxVersion = 60
    MaxFaults = 1
INVARIANTS DrainedIsLatest CommittedMeansProcessed ReportsAreOwn AuditorsBounded
PROPERTIES ImplementsRegister SavesSettle BlocksFinish
