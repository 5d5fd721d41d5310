CONSTANTS
    Keys = {"relay", "b1", "v1"}
    NotAPoint = NotAPoint
    NotANumber = NotANumber
    NotHex = NotHex
    ZeroRoot = ZeroRoot
    Callers = {"startup", "sync", "other"}
    Impatient = {"other"}
    Commands <- SomeCommands
    Replies <- SomeReplies
    MaxQueue = 2
    Entities <- SomeEntities
    Scenarios <- SomeScenarios
SPECIFICATION FairStartupSpec
INVARIANTS
    StartupTypeOK
    RegistrationsAuthentic
    AcceptedInDomainInForce
    ConvertedIffEncoded
PROPERTIES
    SilenceIsContained
    ComesUp
CHECK_DEADLOCK FALSE
