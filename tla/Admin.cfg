SPECIFICATION FairSpec
CONSTANTS
    a = a
    b = b
    codec = codec
    thinker = thinker
    talker = talker
    vocoder = vocoder
    NoOp = NoOp
    NoResult = NoResult
    Ops = {a, b}
    Stages = {thinker, talker, vocoder, codec}
    Outcomes <- OutcomesOf
    Ranks <- RanksOf
    Resolutions <- TargetLists
    Updates = {a}
    Supporting = {thinker, talker, vocoder}
INVARIANTS
    SuccessIsEverywhere
    RepliesAreOwn
    SameOrder
PROPERTIES
    CallsEnd
    NoRankLeftBehind
CHECK_DEADLOCK FALSE
