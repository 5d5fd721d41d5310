------------------------------ MODULE BestBid ------------------------------
(***************************************************************************)
(* What the Auctioneer trait promises to the use cases, with no cache and  *)
(* no concurrency inside a call: one best bid per slot, and a verdict per  *)
(* submitted bid.  A bid is accepted in the very step that makes it the    *)
(* best one, and only if it is strictly higher than the one it replaces.   *)
(* A bid is refused only in an auction that has accepted another one.      *)
(***************************************************************************)
EXTENDS Naturals

CONSTANTS
    Slots,          \* slots an auction may run for
    Bids,           \* identities of the submitted bids (one allocation each)
    Bid,            \* what a bid says: at least its slot and its value
    NoBid,          \* no bid for the slot
    ExpiringSlots   \* slots whose auction outlives the cache's time to live

VARIABLES
    best,           \* slot -> its best bid
    verdict         \* bid -> the answer its submitter got, if any

BestBidVars == <<best, verdict>>

Verdicts == {"none", "accepted", "refused"}

BestBidInit ==
    /\ best = [s \in Slots |-> NoBid]
    /\ verdict = [b \in Bids |-> "none"]

Accept(b) ==
    LET s == Bid[b].slot IN
    /\ verdict[b] = "none"
    /\ best[s] # NoBid => Bid[b].value > Bid[best[s]].value
    /\ best' = [best EXCEPT ![s] = b]
    /\ verdict' = [verdict EXCEPT ![b] = "accepted"]

\* Several callers waiting for the same slot may be answered at once.
Refuse(B) ==
    /\ \A b \in B :
        /\ verdict[b] = "none"
        /\ \E a \in Bids : Bid[a].slot = Bid[b].slot /\ verdict[a] = "accepted"
    /\ verdict' = [b \in Bids |-> IF b \in B THEN "refused" ELSE verdict[b]]
    /\ UNCHANGED best

Forget(s) ==
    /\ s \in ExpiringSlots
    /\ best' = [best EXCEPT ![s] = NoBid]
    /\ UNCHANGED verdict

BestBidNext ==
    \/ \E b \in Bids : Accept(b)
    \/ \E B \in SUBSET Bids : Refuse(B)
    \/ \E s \in Slots : Forget(s)

BestBidSpec == BestBidInit /\ [][BestBidNext]_BestBidVars

============================================================================
