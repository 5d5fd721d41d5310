CONSTANTS
    Slots <- MCSlots
    Bids <- MCBids
    Bid <- MCBid
    NoBid = NoBid
    ExpiringSlots <- MCExpiringSlots
SPECIFICATION FairAuctioneerSpec
INVARIANTS
    AuctioneerTypeOK
    OneInitialiser
    BestBidIsHighest
    RefusalHasWinner
PROPERTIES
    BestBidOnlyRises
    EveryCallReturns
    ImplementsBestBid
CHECK_DEADLOCK FALSE
