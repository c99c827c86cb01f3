SPECIFICATION Spec
CONSTANTS
    f1 = f1
    f2 = f2
    h1 = h1
    code = code
    Findings = {f1, f2}
    Codes = {code}
    Results = {answer}
    Chains = {h1, h2, h3}
    Callers = {worker, user}
    Worker = worker
    Manual = {f1}
    Procs = {p1, p2}
    None = None
    MaxLive = 1
    MaxTimers = 2
    BatchSize = 2
    MaxIngests = 1
    ChainOf <- MCChainOf
    CodeOf <- MCCodeOf
INVARIANTS PoolBounded NoForkForgotten
PROPERTY FindingsSettle
