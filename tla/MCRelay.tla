------------------------------ MODULE MCRelay ------------------------------
EXTENDS Relay

BidFor(slot, value, parent, hash, signed) ==
    [slot |-> slot, value |-> value, builder |-> "b1", randao |-> "r1",
     parent |-> parent, hash |-> hash, signed |-> signed]

\* Two bids compete for slot 1 on different parents, one is badly signed.
OneSlotBid == [low    |-> BidFor(1, 1, "p", "h1", TRUE),
               high   |-> BidFor(1, 2, "q", "h2", TRUE),
               forged |-> BidFor(1, 3, "p", "h3", FALSE)]

\* The same with the parents exchanged: the higher bid is the one asked for.
RivalBid == [low    |-> BidFor(1, 1, "q", "h1", TRUE),
             high   |-> BidFor(1, 2, "p", "h2", TRUE),
             forged |-> BidFor(1, 3, "p", "h3", FALSE)]

OneRetrieval == [get |-> [slot |-> 1, parent |-> "p", pubkey |-> "v1"]]

\* The proposer of slot 1 commits to the block with hash h1.
OneCommitment ==
    [commit |-> [slot |-> 1, index |-> "v1", hash |-> "h1", signer |-> "v1"]]

============================================================================
