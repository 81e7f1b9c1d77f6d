SPECIFICATION Spec
CHECK_DEADLOCK FALSE
CONSTANTS
    Symbols <- MCSymbols
    Keys <- MCKeys
    PathKeys <- MCPathKeys
    HostSep = "backslash"
    ForeignSep = "slash"
    Given <- MCGiven
    Tails <- MCTails
    Texts <- MCTexts
    MaxText = 5
INVARIANTS
    RoundTrip
    RecoversTail
    RaisesOnlyOnMissingValue
    SurvivesNextTurn
