-------------------------- MODULE AuctioneerProofs --------------------------
(***************************************************************************)
(* Proofs about Auctioneer, for every set of bids and slots.               *)
(*                                                                         *)
(* None of the safety invariants is inductive alone.  A caller past its    *)
(* second read relies on the cache not having changed since, which holds   *)
(* because it is the slot's one initialiser (OneInitialiser) and only the  *)
(* initialiser stores; and a refusal has a winner because what the cache   *)
(* holds was stored by a call for that slot (CacheIsStored).               *)
(***************************************************************************)
EXTENDS Auctioneer, TLAPS

\* What the cache holds was stored by a call for that very slot.
CacheIsStored ==
    \A s \in Slots : cache[s] # NoBid =>
        cache[s] \in Stored /\ SlotOf(cache[s]) = s

\* The initialiser of a slot bids for that slot.
WaiterBidsForSlot ==
    \A s \in Slots : waiter[s] # NoBid => SlotOf(waiter[s]) = s

\* A caller about to store still outbids the entry it is about to replace.
InsertOutbids ==
    \A b \in Bids : call[b] = "insert" => Replaces(b)

AuctioneerInv ==
    /\ AuctioneerTypeOK
    /\ OneInitialiser
    /\ WaiterBidsForSlot
    /\ CacheIsStored
    /\ InsertOutbids
    /\ BestBidIsHighest
    /\ RefusalHasWinner

\* The state of the cache, the waiters and the calls keeps its type in every
\* step of compare_and_bid and of the cache's expiry.
LEMMA AuctioneerTypeStep ==
    ASSUME AuctioneerTypeOK, [AuctioneerNext]_AuctioneerVars
    PROVE  AuctioneerTypeOK'
<1> USE BidAssumption DEF AuctioneerTypeOK, Phases, Holding, Done, Refused,
                          SlotOf
<1>1. ASSUME NEW b \in Bids, Call(b) PROVE AuctioneerTypeOK'
  BY <1>1 DEF Call
<1>2. ASSUME NEW b \in Bids, Lookup(b) PROVE AuctioneerTypeOK'
  BY <1>2 DEF Lookup
<1>3. ASSUME NEW b \in Bids, Enter(b) PROVE AuctioneerTypeOK'
  BY <1>3 DEF Enter
<1>4. ASSUME NEW b \in Bids, Recheck(b) PROVE AuctioneerTypeOK'
  BY <1>4 DEF Recheck, Release
<1>5. ASSUME NEW b \in Bids, Insert(b) PROVE AuctioneerTypeOK'
  BY <1>5 DEF Insert
<1>6. ASSUME NEW b \in Bids, Resolve(b) PROVE AuctioneerTypeOK'
  BY <1>6 DEF Resolve, Release
<1>7. ASSUME NEW s \in Slots, Expire(s) PROVE AuctioneerTypeOK'
  BY <1>7 DEF Expire
<1>8. CASE UNCHANGED AuctioneerVars
  BY <1>8 DEF AuctioneerVars
<1>9. QED
  BY <1>1, <1>2, <1>3, <1>4, <1>5, <1>6, <1>7, <1>8
     DEF AuctioneerNext, CallStep

\* Every behaviour of the auctioneer is well typed.
THEOREM AuctioneerTypeCorrect == AuctioneerSpec => []AuctioneerTypeOK
<1>1. AuctioneerInit => AuctioneerTypeOK
  BY DEF AuctioneerInit, AuctioneerTypeOK, Phases
<1>2. AuctioneerTypeOK /\ [AuctioneerNext]_AuctioneerVars => AuctioneerTypeOK'
  BY AuctioneerTypeStep
<1>3. QED
  BY <1>1, <1>2, PTL DEF AuctioneerSpec

-----------------------------------------------------------------------------
\* The strengthened invariant holds initially.
LEMMA InitInv == AuctioneerInit => AuctioneerInv
<1> SUFFICES ASSUME AuctioneerInit PROVE AuctioneerInv
  OBVIOUS
<1>1. AuctioneerTypeOK
  BY DEF AuctioneerInit, AuctioneerTypeOK, Phases
<1>2. OneInitialiser /\ WaiterBidsForSlot /\ CacheIsStored
  BY BidAssumption
     DEF AuctioneerInit, OneInitialiser, WaiterBidsForSlot, CacheIsStored,
         Holding, SlotOf
<1>3. InsertOutbids /\ BestBidIsHighest /\ RefusalHasWinner
  BY DEF AuctioneerInit, InsertOutbids, BestBidIsHighest, RefusalHasWinner,
         Stored, Refused
<1>4. QED
  BY <1>1, <1>2, <1>3 DEF AuctioneerInv

\* A caller that starts, looks up or enters touches neither the cache nor
\* anybody else's phase.
LEMMA CallInv ==
    ASSUME AuctioneerInv, NEW b \in Bids, Call(b), AuctioneerTypeOK'
    PROVE  AuctioneerInv'
<1> USE BidAssumption DEF AuctioneerInv, AuctioneerTypeOK, Call, SlotOf,
                          Stored, Refused, Holding
<1>1. OneInitialiser' /\ WaiterBidsForSlot'
  BY DEF OneInitialiser, WaiterBidsForSlot
<1>2. CacheIsStored'
  BY DEF CacheIsStored
<1>3. InsertOutbids'
  BY DEF InsertOutbids, Replaces
<1>4. BestBidIsHighest'
  BY DEF BestBidIsHighest
<1>5. RefusalHasWinner'
  BY DEF RefusalHasWinner
<1>6. QED
  BY <1>1, <1>2, <1>3, <1>4, <1>5 DEF AuctioneerInv

\* A lookup refuses only against an entry that is at least as high.
LEMMA LookupInv ==
    ASSUME AuctioneerInv, NEW b \in Bids, Lookup(b), AuctioneerTypeOK'
    PROVE  AuctioneerInv'
<1> USE BidAssumption DEF AuctioneerInv, AuctioneerTypeOK, Lookup, SlotOf,
                          Stored, Refused, Holding
<1>1. OneInitialiser' /\ WaiterBidsForSlot'
  BY DEF OneInitialiser, WaiterBidsForSlot
<1>2. CacheIsStored'
  BY DEF CacheIsStored
<1>3. InsertOutbids'
  BY DEF InsertOutbids, Replaces
<1>4. BestBidIsHighest'
  BY DEF BestBidIsHighest, Replaces, ValueOf, CacheIsStored
<1>5. RefusalHasWinner'
  BY DEF RefusalHasWinner, Replaces, CacheIsStored
<1>6. QED
  BY <1>1, <1>2, <1>3, <1>4, <1>5 DEF AuctioneerInv

\* Entering makes a caller the one initialiser, or a waiter of a present one.
LEMMA EnterInv ==
    ASSUME AuctioneerInv, NEW b \in Bids, Enter(b), AuctioneerTypeOK'
    PROVE  AuctioneerInv'
<1> USE BidAssumption DEF AuctioneerInv, AuctioneerTypeOK, Enter, SlotOf,
                          Stored, Refused, Holding
<1>1. OneInitialiser' /\ WaiterBidsForSlot'
  BY DEF OneInitialiser, WaiterBidsForSlot
<1>2. CacheIsStored'
  BY DEF CacheIsStored
<1>3. InsertOutbids'
  BY DEF InsertOutbids, Replaces
<1>4. BestBidIsHighest'
  BY DEF BestBidIsHighest
<1>5. RefusalHasWinner'
  BY DEF RefusalHasWinner
<1>6. QED
  BY <1>1, <1>2, <1>3, <1>4, <1>5 DEF AuctioneerInv

\* The second read either lets the initialiser go on, outbidding what it saw,
\* or ends its section with the entry that beat it as the winner.
LEMMA RecheckInv ==
    ASSUME AuctioneerInv, NEW b \in Bids, Recheck(b), AuctioneerTypeOK'
    PROVE  AuctioneerInv'
<1> USE BidAssumption DEF AuctioneerInv, AuctioneerTypeOK, Recheck, Release,
                          SlotOf, Stored, Refused, Holding
<1>1. OneInitialiser' /\ WaiterBidsForSlot'
  BY DEF OneInitialiser, WaiterBidsForSlot
<1>2. CacheIsStored'
  BY DEF CacheIsStored
<1>3. InsertOutbids'
  BY DEF InsertOutbids, Replaces
<1>4. BestBidIsHighest'
  BY DEF BestBidIsHighest, Replaces, ValueOf, CacheIsStored
<1>5. RefusalHasWinner'
  BY DEF RefusalHasWinner, Replaces, CacheIsStored
<1>6. QED
  BY <1>1, <1>2, <1>3, <1>4, <1>5 DEF AuctioneerInv

\* The store: the new best bid is above the old one, hence above every bid
\* decided before, and no other caller of the slot is about to store.
LEMMA InsertInv ==
    ASSUME AuctioneerInv, NEW b \in Bids, Insert(b), AuctioneerTypeOK'
    PROVE  AuctioneerInv'
<1> USE BidAssumption DEF AuctioneerInv, AuctioneerTypeOK, Insert, SlotOf,
                          Stored, Refused, Holding
<1>1. OneInitialiser' /\ WaiterBidsForSlot'
  BY DEF OneInitialiser, WaiterBidsForSlot
<1>2. CacheIsStored'
  BY DEF CacheIsStored
<1>3. InsertOutbids'
  BY DEF InsertOutbids, Replaces, OneInitialiser
<1>4. BestBidIsHighest'
  BY DEF BestBidIsHighest, InsertOutbids, Replaces, ValueOf, CacheIsStored
<1>5. RefusalHasWinner'
  BY DEF RefusalHasWinner
<1>6. QED
  BY <1>1, <1>2, <1>3, <1>4, <1>5 DEF AuctioneerInv

\* Resolving refuses the waiters in favour of a bid that is stored.
LEMMA ResolveInv ==
    ASSUME AuctioneerInv, NEW b \in Bids, Resolve(b), AuctioneerTypeOK'
    PROVE  AuctioneerInv'
<1> USE BidAssumption DEF AuctioneerInv, AuctioneerTypeOK, Resolve, Release,
                          SlotOf, Stored, Refused, Holding
<1>1. OneInitialiser' /\ WaiterBidsForSlot'
  BY DEF OneInitialiser, WaiterBidsForSlot
<1>2. CacheIsStored'
  BY DEF CacheIsStored
<1>3. InsertOutbids'
  BY DEF InsertOutbids, Replaces
<1>4. BestBidIsHighest'
  BY DEF BestBidIsHighest
<1>5. RefusalHasWinner'
  BY DEF RefusalHasWinner
<1>6. QED
  BY <1>1, <1>2, <1>3, <1>4, <1>5 DEF AuctioneerInv

\* An expired entry leaves its auction's history; only a slot that may expire
\* is concerned, and an absent entry is outbid by everyone.
LEMMA ExpireInv ==
    ASSUME AuctioneerInv, NEW s \in Slots, Expire(s), AuctioneerTypeOK'
    PROVE  AuctioneerInv'
<1> USE BidAssumption DEF AuctioneerInv, AuctioneerTypeOK, Expire, SlotOf,
                          Stored, Refused, Holding
<1>1. OneInitialiser' /\ WaiterBidsForSlot'
  BY DEF OneInitialiser, WaiterBidsForSlot
<1>2. CacheIsStored'
  BY DEF CacheIsStored
<1>3. InsertOutbids'
  BY DEF InsertOutbids, Replaces
<1>4. BestBidIsHighest'
  BY DEF BestBidIsHighest
<1>5. RefusalHasWinner'
  BY DEF RefusalHasWinner
<1>6. QED
  BY <1>1, <1>2, <1>3, <1>4, <1>5 DEF AuctioneerInv

\* A step that leaves the variables alone keeps the invariant.
LEMMA StutterInv ==
    ASSUME AuctioneerInv, UNCHANGED AuctioneerVars
    PROVE  AuctioneerInv'
BY DEF AuctioneerInv, AuctioneerVars, AuctioneerTypeOK, OneInitialiser,
       WaiterBidsForSlot, CacheIsStored, InsertOutbids, Replaces,
       BestBidIsHighest, RefusalHasWinner, Stored

\* Every step of the auctioneer keeps the inductive invariant.
LEMMA InvStep ==
    ASSUME AuctioneerInv, [AuctioneerNext]_AuctioneerVars
    PROVE  AuctioneerInv'
<1>1. AuctioneerTypeOK'
  BY AuctioneerTypeStep DEF AuctioneerInv
<1>2. QED
  BY <1>1, CallInv, LookupInv, EnterInv, RecheckInv, InsertInv, ResolveInv,
     ExpireInv, StutterInv DEF AuctioneerNext, CallStep

\* In every behaviour the strengthened invariant holds: one initialiser per
\* slot, the best bid is the highest decided one, every refusal has a winner.
THEOREM AuctioneerInvariant == AuctioneerSpec => []AuctioneerInv
<1>1. AuctioneerInit => AuctioneerInv
  BY InitInv
<1>2. AuctioneerInv /\ [AuctioneerNext]_AuctioneerVars => AuctioneerInv'
  BY InvStep
<1>3. QED
  BY <1>1, <1>2, PTL DEF AuctioneerSpec

\* While a slot's entry lives, it is the highest of the bids that were stored
\* or turned down on value.
THEOREM BestBidIsHighestAlways == AuctioneerSpec => []BestBidIsHighest
BY AuctioneerInvariant, PTL DEF AuctioneerInv

\* No auction refuses everybody.
THEOREM RefusalHasWinnerAlways == AuctioneerSpec => []RefusalHasWinner
BY AuctioneerInvariant, PTL DEF AuctioneerInv

\* The second read and the store of one caller are never interleaved with
\* another caller's for the same slot.
THEOREM OneInitialiserAlways == AuctioneerSpec => []OneInitialiser
BY AuctioneerInvariant, PTL DEF AuctioneerInv

-----------------------------------------------------------------------------
\* Every step that changes the best bid of a slot raises its value.
THEOREM BestBidOnlyRisesAlways == AuctioneerSpec => BestBidOnlyRises
<1> DEFINE Rises == \A s \in Slots :
        cache[s] # NoBid /\ cache'[s] # NoBid /\ cache'[s] # cache[s]
            => ValueOf(cache'[s]) > ValueOf(cache[s])
<1>1. ASSUME AuctioneerInv, AuctioneerNext PROVE Rises
  <2> USE <1>1, BidAssumption DEF AuctioneerInv, AuctioneerTypeOK
  <2>1. ASSUME NEW b \in Bids, Insert(b) PROVE Rises
    BY <2>1 DEF Insert, InsertOutbids, Replaces, SlotOf
  <2>2. ASSUME NEW s \in Slots, Expire(s) PROVE Rises
    BY <2>2 DEF Expire
  <2>3. ASSUME NEW b \in Bids,
               Call(b) \/ Lookup(b) \/ Enter(b) \/ Recheck(b) \/ Resolve(b)
        PROVE  Rises
    BY <2>3 DEF Call, Lookup, Enter, Recheck, Resolve
  <2>4. QED
    BY <2>1, <2>2, <2>3 DEF AuctioneerNext, CallStep
<1>2. AuctioneerInv /\ [AuctioneerNext]_AuctioneerVars
          => [Rises]_AuctioneerVars
  BY <1>1
<1>3. QED
  BY <1>2, AuctioneerInvariant, PTL DEF AuctioneerSpec, BestBidOnlyRises

-----------------------------------------------------------------------------
\* The refinement mapping at the start.
LEMMA PromiseInit == AuctioneerInit => Promise!BestBidInit
BY DEF AuctioneerInit, Promise!BestBidInit, VerdictOf, Refused

\* Storing is the one step that accepts, and it accepts a strictly higher bid.
LEMMA InsertAccepts ==
    ASSUME AuctioneerInv, NEW b \in Bids, Insert(b)
    PROVE  Promise!Accept(b)
<1> USE BidAssumption DEF AuctioneerInv, AuctioneerTypeOK, Insert, VerdictOf,
                          Refused, SlotOf
<1>1. cache[Bid[b].slot] # NoBid
          => Bid[b].value > Bid[cache[Bid[b].slot]].value
  BY DEF InsertOutbids, Replaces, ValueOf
<1>2. [c \in Bids |-> VerdictOf(c)][b] = "none"
  OBVIOUS
<1>3. [c \in Bids |-> VerdictOf(c)]'
        = [[c \in Bids |-> VerdictOf(c)] EXCEPT ![b] = "accepted"]
  OBVIOUS
<1>4. QED
  BY <1>1, <1>2, <1>3 DEF Promise!Accept

\* A step that keeps the cache and takes the calls in B, undecided and in an
\* auction that has stored a bid, to a refusal, maps to Refuse(B).
LEMMA RefusesSome ==
    ASSUME AuctioneerInv, NEW B \in SUBSET Bids,
           cache' = cache,
           \A b \in B : /\ VerdictOf(b) = "none"
                        /\ \E a \in Stored : SlotOf(a) = SlotOf(b),
           \A b \in B : VerdictOf(b)' = "refused",
           \A b \in Bids \ B : VerdictOf(b)' = VerdictOf(b)
    PROVE  Promise!BestBidNext
<1>1. \A b \in B : \E a \in Bids :
          /\ Bid[a].slot = Bid[b].slot
          /\ [c \in Bids |-> VerdictOf(c)][a] = "accepted"
  BY DEF Stored, VerdictOf, SlotOf
<1>2. Promise!Refuse(B)
  BY <1>1 DEF Promise!Refuse
<1>3. QED
  BY <1>2 DEF Promise!BestBidNext

\* Every step of the auctioneer is a step of its promise, or none.
LEMMA PromiseStep ==
    ASSUME AuctioneerInv, [AuctioneerNext]_AuctioneerVars
    PROVE  [Promise!BestBidNext]_(Promise!BestBidVars)
<1> DEFINE Waiting(b) ==
        {c \in Bids : c # b /\ call[c] = "joined" /\ SlotOf(c) = SlotOf(b)}
<1> USE BidAssumption DEF AuctioneerInv, AuctioneerTypeOK, VerdictOf, Refused
<1>1. ASSUME NEW b \in Bids, Call(b) PROVE Promise!BestBidNext
  BY <1>1, RefusesSome, {} \in SUBSET Bids DEF Call
<1>2. ASSUME NEW b \in Bids, Lookup(b) PROVE Promise!BestBidNext
  <2>1. CASE Replaces(b)
    BY <1>2, <2>1, RefusesSome, {} \in SUBSET Bids DEF Lookup
  <2>2. CASE ~Replaces(b)
    <3>1. cache[SlotOf(b)] \in Stored /\ SlotOf(cache[SlotOf(b)]) = SlotOf(b)
      BY <2>2 DEF Replaces, CacheIsStored, SlotOf
    <3>2. QED
      BY <1>2, <2>2, <3>1, RefusesSome, {b} \in SUBSET Bids DEF Lookup
  <2>3. QED
    BY <2>1, <2>2
<1>3. ASSUME NEW b \in Bids, Enter(b) PROVE Promise!BestBidNext
  BY <1>3, RefusesSome, {} \in SUBSET Bids DEF Enter
<1>4. ASSUME NEW b \in Bids, Recheck(b) PROVE Promise!BestBidNext
  <2>1. CASE Replaces(b)
    BY <1>4, <2>1, RefusesSome, {} \in SUBSET Bids DEF Recheck
  <2>2. CASE ~Replaces(b)
    <3>1. cache[SlotOf(b)] \in Stored /\ SlotOf(cache[SlotOf(b)]) = SlotOf(b)
      BY <2>2 DEF Replaces, CacheIsStored, SlotOf
    <3>2. Waiting(b) \cup {b} \in SUBSET Bids
      OBVIOUS
    <3>3. QED
      BY <1>4, <2>2, <3>1, <3>2, RefusesSome DEF Recheck, Release
  <2>3. QED
    BY <2>1, <2>2
<1>5. ASSUME NEW b \in Bids, Insert(b) PROVE Promise!BestBidNext
  BY <1>5, InsertAccepts DEF Promise!BestBidNext
<1>6. ASSUME NEW b \in Bids, Resolve(b) PROVE Promise!BestBidNext
  <2>1. b \in Stored
    BY <1>6 DEF Resolve, Stored
  <2>2. Waiting(b) \in SUBSET Bids
    OBVIOUS
  <2>3. QED
    BY <1>6, <2>1, <2>2, RefusesSome DEF Resolve, Release
<1>7. ASSUME NEW s \in Slots, Expire(s) PROVE Promise!BestBidNext
  <2>1. Promise!Forget(s)
    BY <1>7 DEF Expire, Promise!Forget
  <2>2. QED
    BY <2>1 DEF Promise!BestBidNext
<1>8. CASE UNCHANGED AuctioneerVars
  BY <1>8 DEF AuctioneerVars, Promise!BestBidVars
<1>9. QED
  BY <1>1, <1>2, <1>3, <1>4, <1>5, <1>6, <1>7, <1>8
     DEF AuctioneerNext, CallStep

\* The concurrent, coalescing cache implements the one-step auction.
THEOREM AuctioneerImplementsBestBid == AuctioneerSpec => ImplementsBestBid
<1>1. AuctioneerInit => Promise!BestBidInit
  BY PromiseInit
<1>2. AuctioneerInv /\ [AuctioneerNext]_AuctioneerVars
          => [Promise!BestBidNext]_(Promise!BestBidVars)
  BY PromiseStep
<1>3. QED
  BY <1>1, <1>2, AuctioneerInvariant, PTL
     DEF AuctioneerSpec, ImplementsBestBid, Promise!BestBidSpec

============================================================================
