CONSTANTS
    Names <- MCNames
    Norm <- MCNorm
    Sane <- MCSane
    Exes <- MCExes
    Absolute <- MCAbsolute
    ShortName <- MCShort
    Categories <- MicCamera
    Permissions <- MCPermissions
    UserFiles <- MCUserFiles
    SystemFile <- MCSystem
    Presets <- MCPresets
    Baseline <- MCBaseline
    Declared <- MCDeclared
    None = None
    Garbage = Garbage
    MaxCalls = 2
    MaxFaults = 1
SPECIFICATION Spec
INVARIANTS
    TypeOK
    OneRulePerName
    DoneIsDurable
    SplitAnnouncedOnce
PROPERTIES
    RestartGrantsNothing
    MergeNeverGuesses
    ImportOnlyAdds
    AnswerIsObeyed
CHECK_DEADLOCK FALSE
