\* Two tasks of one video whose downloads differ in length.
SPECIFICATION Spec
CONSTANTS
    Slack = 2
    MaxChapters = 3
    Tolerance = 1
    Backend = "openai"
    Fallback = TRUE
    MaxBytes = 5000
    Rate = 50
    Densities = {50, 52, 60}
    Encoded = 70
    Durations = {90, 200, 250}
    Answers <- Said
    MaxTasks = 2
    NoAudio = NoAudio
CHECK_DEADLOCK FALSE
INVARIANTS WholeAudio PartsFit Stitched OwnAudio  ChaptersOrdered SpeakersOverlap
