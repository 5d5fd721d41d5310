CONSTANTS
    Slots <- MCSlots
    Bids <- MCBids
    Bid <- MCBid
    NoBid = NoBid
    ExpiringSlots <- MCExpiringSlots
SPECIFICATION AuctioneerSpec
INVARIANT
    RefusedMeansNotHigher
CHECK_DEADLOCK FALSE
