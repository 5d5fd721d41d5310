----------------------------- MODULE Auctioneer -----------------------------
(***************************************************************************)
(* MemoryAuctioneer (crates/datastore/src/auctioneer/memory): one moka     *)
(* cache from slot to the best bid, shared by every bidder stream.         *)
(*                                                                         *)
(* compare_and_bid is one call of entry(slot).or_insert_with_if(init, p).  *)
(* The cache is a library; what it does is modelled from its documented    *)
(* contract, "concurrent calls on the same entry are coalesced":           *)
(*   lookup    the entry is read; kept if present and p does not hold      *)
(*   enter     the caller becomes the key's one initialiser, or waits for  *)
(*             the present one                                             *)
(*   recheck   the initialiser reads the entry again, p applied again      *)
(*   insert    init is evaluated and stored                                *)
(*   resolve   the value is handed to every waiter, the key is released    *)
(* A waiter is handed the initialiser's value and p is NOT applied to it.  *)
(*                                                                         *)
(* A bid is named by its allocation (the Arc made per submission): the     *)
(* code compares pointers, so two submissions of one bid are two bids.     *)
(***************************************************************************)
EXTENDS Naturals

CONSTANTS
    Slots,          \* slots an auction may run for
    Bids,           \* identities of the submitted bids, one per Arc
    Bid,            \* what a bid says: at least its slot and its value
    NoBid,          \* no entry, or no initialiser
    ExpiringSlots   \* slots whose auction outlives the cache's time to live

ASSUME BidAssumption ==
    /\ NoBid \notin Bids
    /\ \A b \in Bids : Bid[b].slot \in Slots /\ Bid[b].value \in Nat
    /\ ExpiringSlots \subseteq Slots

VARIABLES
    cache,   \* slot -> the bid in the cache
    waiter,  \* slot -> the caller initialising the entry
    call     \* bid -> where its compare_and_bid call is

AuctioneerVars == <<cache, waiter, call>>

SlotOf(b) == Bid[b].slot
ValueOf(b) == Bid[b].value

Holding == {"recheck", "insert", "resolve"}
Refused == {"outbid", "coalesced"}
Done == {"accepted"} \cup Refused
Phases == {"idle", "lookup", "enter", "joined"} \cup Holding \cup Done

AuctioneerTypeOK ==
    /\ cache \in [Slots -> Bids \cup {NoBid}]
    /\ waiter \in [Slots -> Bids \cup {NoBid}]
    /\ call \in [Bids -> Phases]

AuctioneerInit ==
    /\ cache = [s \in Slots |-> NoBid]
    /\ waiter = [s \in Slots |-> NoBid]
    /\ call = [b \in Bids |-> "idle"]

\* Mutant of Replaces: a tie replaces the entry.
ReplacesOnTie(b) ==
    LET existing == cache[SlotOf(b)] IN
    existing # NoBid => ValueOf(b) >= ValueOf(existing)

\* The predicate given to or_insert_with_if, and an absent entry.
Replaces(b) ==
    LET existing == cache[SlotOf(b)] IN
    existing # NoBid => ValueOf(b) > ValueOf(existing)

\* compare_and_bid(slot, bid) is entered.
Call(b) ==
    /\ call[b] = "idle"
    /\ call' = [call EXCEPT ![b] = "lookup"]
    /\ UNCHANGED <<cache, waiter>>

\* Mutant of Lookup: the entry itself is returned, not a verdict.
LookupReturnsEntry(b) ==
    /\ call[b] = "lookup"
    /\ call' = [call EXCEPT ![b] =
            IF Replaces(b) THEN "enter" ELSE cache[SlotOf(b)]]
    /\ UNCHANGED <<cache, waiter>>

\* An entry that is not replaced is returned at once: Err to the caller.
Lookup(b) ==
    /\ call[b] = "lookup"
    /\ call' = [call EXCEPT ![b] = IF Replaces(b) THEN "enter" ELSE "outbid"]
    /\ UNCHANGED <<cache, waiter>>

\* Mutant of Enter: concurrent callers are not coalesced.
EnterUnguarded(b) ==
    /\ call[b] = "enter"
    /\ waiter' = [waiter EXCEPT ![SlotOf(b)] = b]
    /\ call' = [call EXCEPT ![b] = "recheck"]
    /\ UNCHANGED cache

\* Mutant of Enter: a concurrent caller is refused, not made to wait.
EnterOrRefuse(b) ==
    /\ call[b] = "enter"
    /\ IF waiter[SlotOf(b)] = NoBid
       THEN /\ waiter' = [waiter EXCEPT ![SlotOf(b)] = b]
            /\ call' = [call EXCEPT ![b] = "recheck"]
       ELSE /\ call' = [call EXCEPT ![b] = "coalesced"]
            /\ UNCHANGED waiter
    /\ UNCHANGED cache

\* One initialiser per key; everyone else waits for its value.
Enter(b) ==
    /\ call[b] = "enter"
    /\ IF waiter[SlotOf(b)] = NoBid
       THEN /\ waiter' = [waiter EXCEPT ![SlotOf(b)] = b]
            /\ call' = [call EXCEPT ![b] = "recheck"]
       ELSE /\ call' = [call EXCEPT ![b] = "joined"]
            /\ UNCHANGED waiter
    /\ UNCHANGED cache

\* Mutant of Release: nobody tells the waiters.
ReleaseForgettingWaiters(b, v) ==
    /\ waiter' = [waiter EXCEPT ![SlotOf(b)] = NoBid]
    /\ call' = [call EXCEPT ![b] = v]

\* The initialiser of b's slot ends with answer v: everyone who waited is
\* handed a value that is not its own Arc, and the key is free again.
Release(b, v) ==
    /\ waiter' = [waiter EXCEPT ![SlotOf(b)] = NoBid]
    /\ call' = [c \in Bids |->
                    IF c = b THEN v
                    ELSE IF call[c] = "joined" /\ SlotOf(c) = SlotOf(b)
                         THEN "coalesced"
                         ELSE call[c]]

\* Mutant of Recheck: the first read is trusted.
RecheckSkipped(b) ==
    /\ call[b] = "recheck"
    /\ call' = [call EXCEPT ![b] = "insert"]
    /\ UNCHANGED <<cache, waiter>>

\* The entry may have been stored since the lookup.
Recheck(b) ==
    /\ call[b] = "recheck"
    /\ IF Replaces(b)
       THEN /\ call' = [call EXCEPT ![b] = "insert"]
            /\ UNCHANGED waiter
       ELSE Release(b, "outbid")
    /\ UNCHANGED cache

Insert(b) ==
    /\ call[b] = "insert"
    /\ cache' = [cache EXCEPT ![SlotOf(b)] = b]
    /\ call' = [call EXCEPT ![b] = "resolve"]
    /\ UNCHANGED waiter

\* Arc::ptr_eq holds for the initialiser alone: Ok to it, Err to the others.
Resolve(b) ==
    /\ call[b] = "resolve"
    /\ Release(b, "accepted")
    /\ UNCHANGED cache

\* time_to_live and time_to_idle: the entry is no longer visible.
Expire(s) ==
    /\ s \in ExpiringSlots
    /\ cache[s] # NoBid
    /\ cache' = [cache EXCEPT ![s] = NoBid]
    /\ UNCHANGED <<waiter, call>>

\* get_best_bid(slot)
BestBidOf(s) == cache[s]

\* The steps of a call in progress, whoever made it.
CallStep(b) == Lookup(b) \/ Enter(b) \/ Recheck(b) \/ Insert(b) \/ Resolve(b)

AuctioneerNext ==
    \/ \E b \in Bids : Call(b) \/ CallStep(b)
    \/ \E s \in Slots : Expire(s)

\* A call in progress is polled to completion: bidder tasks are detached, the
\* init future never suspends, and the initialiser always resolves.
AuctioneerFairness == \A b \in Bids : WF_AuctioneerVars(CallStep(b))

AuctioneerSpec == AuctioneerInit /\ [][AuctioneerNext]_AuctioneerVars

FairAuctioneerSpec == AuctioneerSpec /\ AuctioneerFairness

-----------------------------------------------------------------------------
\* Bids that compare_and_bid has stored, answered or about to be.
Stored == {b \in Bids : call[b] \in {"resolve", "accepted"}}

\* The best bid of a slot is replaced only by a strictly higher one, whatever
\* the interleaving of the calls: each caller decides on a value it read
\* earlier, so this rests on the second read being inside the key's section.
BestBidOnlyRises ==
    [][\A s \in Slots :
        cache[s] # NoBid /\ cache'[s] # NoBid /\ cache'[s] # cache[s]
            => ValueOf(cache'[s]) > ValueOf(cache[s])]_AuctioneerVars

\* While the entry lives, the cache holds the highest of the bids that were
\* stored or that lost on value: no accepted bid is lost to an earlier reader,
\* and no bid is turned down as too low against a bid that is gone.
BestBidIsHighest ==
    \A s \in Slots \ ExpiringSlots : \A b \in Bids :
        SlotOf(b) = s /\ (b \in Stored \/ call[b] = "outbid")
            => cache[s] # NoBid /\ ValueOf(cache[s]) >= ValueOf(b)

\* An auction never refuses everybody: a caller that was refused (outright or
\* as a waiter) was refused because another bid for its slot was stored.
RefusalHasWinner ==
    \A b \in Bids : call[b] \in Refused =>
        \E a \in Stored : SlotOf(a) = SlotOf(b)

\* Nobody waits for an initialiser that is not there, and the initialiser is
\* the one caller between entering and resolving: what makes the second read
\* and the store of one caller atomic with respect to the others.
OneInitialiser ==
    \A b \in Bids :
        /\ call[b] \in Holding <=> waiter[SlotOf(b)] = b
        /\ call[b] = "joined" => waiter[SlotOf(b)] # NoBid

\* compare_and_bid always returns, also to a caller that waits for another
\* one's value and whose initialiser was itself refused.
EveryCallReturns ==
    \A b \in Bids : call[b] = "lookup" ~> call[b] \in Done

\* A refusal says "bid value not high enough: provided {}, current {}".
RefusedMeansNotHigher ==
    \A b \in Bids : call[b] \in Refused =>
        \E a \in Stored : SlotOf(a) = SlotOf(b) /\ ValueOf(a) >= ValueOf(b)

\* The answer a call has got, or is bound to get, as BestBid sees it.
VerdictOf(b) ==
    IF call[b] \in {"resolve", "accepted"} THEN "accepted"
    ELSE IF call[b] \in Refused THEN "refused" ELSE "none"

Promise == INSTANCE BestBid WITH
    best <- cache, verdict <- [b \in Bids |-> VerdictOf(b)]

\* The cache with its coalesced calls implements the one-step auction: a
\* submission takes effect atomically when it is stored.
ImplementsBestBid == Promise!BestBidSpec

============================================================================
