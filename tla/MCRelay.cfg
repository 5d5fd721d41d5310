CONSTANTS
    Slots = {1}
    Bids = {"low", "high", "forged"}
    Bid <- RivalBid
    NoBid = NoBid
    ExpiringSlots = {}
    ChainSlots = {0, 1}
    Validators = {"v1"}
    NoValidator = NoValidator
    Randaos = {"r0", "r1"}
    DefaultRandao = "r0"
    Whitelist = {"b1"}
    Retrievals = {"get"}
    Retrieval <- OneRetrieval
    Commitments = {"commit"}
    Commitment <- OneCommitment
SPECIFICATION RelaySpec
INVARIANTS
    RelayTypeOK
    AuctionSound
    PayloadsKeptForWinners
    DeliveredToItsProposer
    HeaderIsOfBestBid
    PayloadNotBelowHeader
