CONSTANTS
    p1 = p1  p2 = p2  p3 = p3
    u = u  v = v  s = s  t = t  c = c
    Procs = {p1, p2, p3}
    Kernels = {u, v, s, t, c}
    Ids = {1, 2, 3, 4}
    Signed = {s, t}
    Cachable = {u, v, s, t}
    ModuleId <- MCModuleId
    Signature <- MCSignature
    Size <- MCSize
    Pipeline <- MCPipeline
    SizeLimit = 3
    MaxTime = 2
    MaxKills = 1
    MaxActive = 2

SPECIFICATION Spec
SYMMETRY MCSymmetry

INVARIANTS
    TypeOK
    NoForeignObject
    SequentialRunsSafe
    TruncatedHasWriter
    OrphanHasCause
    CleanAtTheEnd

PROPERTIES
    EvictsLeastRecentlyUsed
