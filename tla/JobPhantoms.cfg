\* Redis errors and expiring locks, no crash: no phantom row.
SPECIFICATION Spec
CONSTANTS
    j1 = j1  j2 = j2  j3 = j3  w1 = w1  w2 = w2  k1 = k1  k2 = k2
    NoJob = NoJob
    Job = {j1, j2, j3}
    Worker = {w1}
    Key <- OneKey
    KeyOf <- OneKeyOf
    TypeOf <- OneTypeOf
    Serves <- OneServes
    Callback = {}
    Faults = {"redis", "ttl"}
SYMMETRY SymmetricJobs
INVARIANTS NoPhantomRow
