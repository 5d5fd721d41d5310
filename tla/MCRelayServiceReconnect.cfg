CONSTANTS
    ChainSlots <- MCChainSlots
    Validators <- MCValidators
    Randaos = {zero, r1}
    DefaultRandao = zero
    SlotsPerEpoch = 3
    Proposer <- MCProposer
    NextEpochViews <- MCNextEpochViews
    MaxWire = 2
    MaxSkip = 2
SPECIFICATION FairRelayServiceSpec
PROPERTY
    ReconnectsAfterDisconnect
