\* A whisper and a diarization key of one video; a step fault anywhere.
SPECIFICATION Spec
CONSTANTS
    j1 = j1  j2 = j2  j3 = j3  w1 = w1  w2 = w2  k1 = k1  k2 = k2
    NoJob = NoJob
    Job = {j1, j2, j3}
    Worker = {w1, w2}
    Key <- TwoKeys
    KeyOf <- TwoKeysOf
    TypeOf <- TwoTypesOf
    Serves <- TwoServes
    Callback = {j1}
    Faults = {"step"}
INVARIANTS QueuedHasRow AnswerResolves CompleteIsStored
