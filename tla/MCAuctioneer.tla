---------------------------- MODULE MCAuctioneer ----------------------------
(* Three bids compete for slot 1 (two of equal value), two for slot 2, whose *)
(* entry may expire while the auction goes on.                               *)
EXTENDS Auctioneer

MCSlots == {1, 2}
MCBids == {"low", "mid", "tie", "late", "early"}
MCBid == [low   |-> [slot |-> 1, value |-> 1],
          mid   |-> [slot |-> 1, value |-> 2],
          tie   |-> [slot |-> 1, value |-> 2],
          early |-> [slot |-> 2, value |-> 2],
          late  |-> [slot |-> 2, value |-> 1]]
MCExpiringSlots == {2}

============================================================================
