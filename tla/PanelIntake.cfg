SPECIFICATION Spec
CONSTANTS
    chain = chain
    block1 = block1
    tx1 = tx1
    tx2 = tx2
    deployment1 = deployment1
    deployment2 = deployment2
    Dirs = {chain, block1, tx1, tx2}
    Root = chain
    Files = {deployment1, deployment2}
    Parent <- MCParent
    Depth <- MCDepth
    Dir <- MCDir
    First <- MCFirst
    SeenMax = 1
    SeenTrim = 1
    MaxFails = 1
    Nowhere = Nowhere
    Runs = {r1}
    Pages = {p1}
    None = None
    MaxRestarts = 1
PROPERTIES NoneOverlooked ArtifactsIngested OutcomeReachesPage
