\* Two requests with chapters and speakers, under fairness; no task is timed out or killed.
SPECIFICATION FairSpec
CONSTANTS
    r1 = r1  r2 = r2  r3 = r3  en = en  fr = fr
    Author = {r1, r3}
    Lang = {en}
    NoRow = NoRow
    LangOf <- AllEnglish
    ForceOf <- MixedForce
    Include <- Everything
    Waiting = {r1}
    MaxPolls = 2
    Spoken = en
    TaskFaults = {}
INVARIANTS AudioReleased
PROPERTIES ChaptersKept RequestsEnd
