\* Three requests race with both workers, purges, expiry, timeouts and kills.
SPECIFICATION Spec
CONSTANTS
    r1 = r1
    r2 = r2
    r3 = r3
    en = en
    fr = fr
    Author = {r1, r2, r3}
    Lang = {en}
    NoRow = NoRow
    LangOf <- AllEnglish
    ForceOf <- MixedForce
    Include <- Everything
    Waiting = {r1}
    MaxPolls = 1
    Spoken = en
    TaskFaults = {"timeout", "kill"}
INVARIANTS TagsMatchFlag CompleteIsCached
PROPERTY NoRevival
