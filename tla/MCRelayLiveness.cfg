CONSTANTS
    Slots = {1}
    Bids = {"low", "high"}
    Bid <- OneSlotBid
    NoBid = NoBid
    ExpiringSlots = {1}
    ChainSlots = {0, 1}
    Validators = {"v1"}
    NoValidator = NoValidator
    Randaos = {"r1"}
    DefaultRandao = "r1"
    Whitelist = {"b1"}
    Retrievals = {"get"}
    Retrieval <- OneRetrieval
    Commitments = {"commit"}
    Commitment <- OneCommitment
SPECIFICATION FairRelaySpec
PROPERTY
    EveryRequestAnswered
