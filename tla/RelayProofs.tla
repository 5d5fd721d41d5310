---------------------------- MODULE RelayProofs ----------------------------
(***************************************************************************)
(* Proofs about the handlers composed with the auctioneer and a ChainView. *)
(*                                                                         *)
(* The auctioneer inside the relay makes only Auctioneer steps, so all of  *)
(* AuctioneerInv holds here too; what is added is the bookkeeping of each  *)
(* handler: what it has established so far, and that this stays true       *)
(* because registrations are only added and a finished call stays so.      *)
(***************************************************************************)
EXTENDS Relay, AuctioneerProofs

\* Every step of the relay is a step of the auctioneer or leaves it alone.
LEMMA AuctioneerPart ==
    ASSUME [RelayNext]_RelayVars
    PROVE  [AuctioneerNext]_AuctioneerVars
<1>1. ASSUME NEW b \in Bids, SubmitStep(b)
      PROVE  [AuctioneerNext]_AuctioneerVars
  <2>1. CASE SubmitFindsDuty(b)
    BY <2>1 DEF SubmitFindsDuty, AuctioneerNext
  <2>2. CASE SubmitBids(b)
    BY <2>2 DEF SubmitBids, AuctioneerNext
  <2>3. CASE ~SubmitFindsDuty(b) /\ ~SubmitBids(b)
    BY <1>1, <2>3
       DEF SubmitStep, SubmitReadsHead, SubmitReadsAttributes,
           SubmitFindsNoDuty, SubmitRefused, SubmitSaves
  <2>4. QED
    BY <2>1, <2>2, <2>3
<1>2. ASSUME NEW r \in Retrievals, RetrieveStep(r)
      PROVE  UNCHANGED AuctioneerVars
  BY <1>2 DEF RetrieveStep, RetrieveReadsRegistration, RetrieveFindsNoDuty,
              RetrieveFindsDuty, RetrieveReadsHead, RetrieveReadsBest,
              RetrieveSends, RetrieveElsewhere
<1>3. ASSUME NEW c \in Commitments, UnblindStep(c)
      PROVE  UNCHANGED AuctioneerVars
  BY <1>3 DEF UnblindStep, UnblindFindsNoDuty, UnblindFindsDuty,
              UnblindVerifies, UnblindDelivers, UnblindElsewhere
<1>4. CASE ViewChanges
  BY <1>4 DEF ViewChanges, RequestVars
<1>5. CASE CacheExpires
  BY <1>5 DEF CacheExpires, AuctioneerNext
<1>6. CASE UNCHANGED RelayVars
  BY <1>6 DEF RelayVars
<1>7. QED
  BY <1>1, <1>2, <1>3, <1>4, <1>5, <1>6 DEF RelayNext

\* The auctioneer inside the relay behaves as Auctioneer says, so everything
\* proved about that module holds in the relay.
THEOREM RelayHasAuctioneer == RelaySpec => AuctioneerSpec
<1>1. RelayInit => AuctioneerInit
  BY DEF RelayInit
<1>2. [RelayNext]_RelayVars => [AuctioneerNext]_AuctioneerVars
  BY AuctioneerPart
<1>3. QED
  BY <1>1, <1>2, PTL DEF RelaySpec, AuctioneerSpec

\* The view of the chain is changed by ChainView steps only.
LEMMA ChainViewPart ==
    ASSUME [RelayNext]_RelayVars
    PROVE  [ChainViewNext]_ViewVars
<1>1. ASSUME NEW b \in Bids, SubmitStep(b) PROVE UNCHANGED ViewVars
  BY <1>1 DEF SubmitStep, SubmitReadsHead, SubmitReadsAttributes,
              SubmitFindsNoDuty, SubmitFindsDuty, SubmitBids, SubmitRefused,
              SubmitSaves, SubmitElsewhere
<1>2. ASSUME NEW r \in Retrievals, RetrieveStep(r) PROVE UNCHANGED ViewVars
  BY <1>2 DEF RetrieveStep, RetrieveReadsRegistration, RetrieveFindsNoDuty,
              RetrieveFindsDuty, RetrieveReadsHead, RetrieveReadsBest,
              RetrieveSends, RetrieveElsewhere
<1>3. ASSUME NEW c \in Commitments, UnblindStep(c) PROVE UNCHANGED ViewVars
  BY <1>3 DEF UnblindStep, UnblindFindsNoDuty, UnblindFindsDuty,
              UnblindVerifies, UnblindDelivers, UnblindElsewhere
<1>4. CASE ViewChanges
  BY <1>4 DEF ViewChanges
<1>5. CASE CacheExpires
  BY <1>5 DEF CacheExpires
<1>6. CASE UNCHANGED RelayVars
  BY <1>6 DEF RelayVars
<1>7. QED
  BY <1>1, <1>2, <1>3, <1>4, <1>5, <1>6 DEF RelayNext

\* The handlers never write to the view of the chain.
THEOREM RelayHasChainView == RelaySpec => ChainViewSpec
<1>1. RelayInit => ViewInit
  BY DEF RelayInit
<1>2. [RelayNext]_RelayVars => [ChainViewNext]_ViewVars
  BY ChainViewPart
<1>3. QED
  BY <1>1, <1>2, PTL DEF RelaySpec, ChainViewSpec

-----------------------------------------------------------------------------
\* A call goes forward only: a stored bid stays stored, an answer stands.
LEMMA CallsOnlyAdvance ==
    ASSUME AuctioneerTypeOK, [AuctioneerNext]_AuctioneerVars
    PROVE  \A b \in Bids :
              /\ call[b] = "accepted" => call'[b] = "accepted"
              /\ b \in Stored => b \in Stored'
              /\ call[b] # "idle" => call'[b] # "idle"
<1> USE DEF AuctioneerTypeOK, Stored
<1>1. CASE UNCHANGED AuctioneerVars
  BY <1>1 DEF AuctioneerVars
<1>2. ASSUME NEW c \in Bids, Call(c) \/ Lookup(c) \/ Enter(c) \/ Insert(c)
      PROVE  \A b \in Bids :
              /\ call[b] = "accepted" => call'[b] = "accepted"
              /\ b \in Stored => b \in Stored'
              /\ call[b] # "idle" => call'[b] # "idle"
  BY <1>2 DEF Call, Lookup, Enter, Insert
<1>3. ASSUME NEW c \in Bids, Recheck(c) \/ Resolve(c)
      PROVE  \A b \in Bids :
              /\ call[b] = "accepted" => call'[b] = "accepted"
              /\ b \in Stored => b \in Stored'
              /\ call[b] # "idle" => call'[b] # "idle"
  BY <1>3 DEF Recheck, Resolve, Release
<1>4. ASSUME NEW s \in Slots, Expire(s)
      PROVE  \A b \in Bids :
              /\ call[b] = "accepted" => call'[b] = "accepted"
              /\ b \in Stored => b \in Stored'
              /\ call[b] # "idle" => call'[b] # "idle"
  BY <1>4 DEF Expire
<1>5. QED
  BY <1>1, <1>2, <1>3, <1>4 DEF AuctioneerNext, CallStep

\* A step of a call in progress does not begin another one.
LEMMA CallStepBeginsNothing ==
    ASSUME AuctioneerTypeOK, NEW c \in Bids, CallStep(c)
    PROVE  \A b \in Bids : call[b] = "idle" <=> call'[b] = "idle"
<1> USE DEF AuctioneerTypeOK
<1>1. CASE Lookup(c) \/ Enter(c) \/ Insert(c)
  BY <1>1 DEF Lookup, Enter, Insert
<1>2. CASE Recheck(c) \/ Resolve(c)
  BY <1>2 DEF Recheck, Resolve, Release
<1>3. QED
  BY <1>1, <1>2 DEF CallStep

-----------------------------------------------------------------------------
\* The view: duties are of registered validators, in every step.
ViewInv == ViewTypeOK /\ \A d \in proposerDuties : is_registered(d.pubkey)

\* A change of the view keeps its invariant and revokes no registration.
LEMMA ViewStep ==
    ASSUME ViewInv, [ChainViewNext]_ViewVars
    PROVE  ViewInv' /\ validatorRegistrations \subseteq validatorRegistrations'
<1> USE DEF ViewInv, ViewTypeOK, is_registered
<1>1. ASSUME NEW s \in ChainSlots, HeadUpdate(s)
      PROVE  ViewInv' /\ validatorRegistrations \subseteq validatorRegistrations'
  BY <1>1 DEF HeadUpdate, set_head_slot
<1>2. ASSUME NEW r \in Randaos, AttributesUpdate(r)
      PROVE  ViewInv' /\ validatorRegistrations \subseteq validatorRegistrations'
  BY <1>2 DEF AttributesUpdate, set_payload_attributes
<1>3. ASSUME NEW v \in Validators, Registration(v)
      PROVE  ViewInv' /\ validatorRegistrations \subseteq validatorRegistrations'
  BY <1>3 DEF Registration, set_validator_registration
<1>4. ASSUME NEW D \in SUBSET Duty, DutiesUpdate(D)
      PROVE  ViewInv' /\ validatorRegistrations \subseteq validatorRegistrations'
  BY <1>4 DEF DutiesUpdate, set_proposer_duties
<1>5. CASE UNCHANGED ViewVars
  BY <1>5 DEF ViewVars
<1>6. QED
  BY <1>1, <1>2, <1>3, <1>4, <1>5 DEF ChainViewNext

-----------------------------------------------------------------------------
\* What submit_bid has checked of a bid by the time it is in a phase, and that
\* the auctioneer is called in the auction phase and not before.
SubmitProgress ==
    \A b \in Bids :
        /\ submit[b] \in {"attributes", "duty"} =>
              ValueOf(b) > 0 /\ Bid[b].builder \in Whitelist
        /\ call[b] # "idle" <=>
              submit[b] \in {"auction", "Ok", "BidValueNotHighEnough"}

\* What unblind_block has checked.
UnblindProgress ==
    \A c \in Commitments :
        /\ unblind[c] \in {"registration", "payload"} => signer[c] \in Validators
        /\ unblind[c] = "payload" =>
              signer[c] = Commitment[c].signer /\ is_registered(signer[c])

\* A header was built before the payload is read.
RetrieveProgress ==
    \A r \in Retrievals :
        retrieve[r] \in {"payload", "Ok"} => header[r] # NoBid

RelayInv ==
    /\ AuctioneerInv
    /\ ViewInv
    /\ HandlerTypeOK
    /\ SubmitProgress
    /\ UnblindProgress
    /\ RetrieveProgress
    /\ AuctionSound
    /\ PayloadsKeptForWinners
    /\ DeliveredToItsProposer
    /\ HeaderIsOfBestBid
    /\ PayloadNotBelowHeader

\* What no step takes back.
NothingTakenBack ==
    /\ validatorRegistrations \subseteq validatorRegistrations'
    /\ \A b \in Bids :
        /\ call[b] = "accepted" => call'[b] = "accepted"
        /\ b \in Stored => b \in Stored'
        /\ call[b] # "idle" => duty'[b] = duty[b]

\* A step that does not touch the submissions keeps what is known of them.
LEMMA SubmitsKept ==
    ASSUME RelayInv, NothingTakenBack, UNCHANGED <<submit, duty, blindedBlocks>>,
           \A b \in Bids : call[b] = "idle" <=> call'[b] = "idle"
    PROVE  /\ SubmitProgress'
           /\ AuctionSound'
           /\ PayloadsKeptForWinners'
<1> USE DEF RelayInv, NothingTakenBack
<1>1. SubmitProgress'
  BY DEF SubmitProgress
<1>2. AuctionSound'
  BY DEF AuctionSound, Valid
<1>3. PayloadsKeptForWinners'
  BY DEF PayloadsKeptForWinners, HandlerTypeOK
<1>4. QED
  BY <1>1, <1>2, <1>3

\* Stored bids stay stored, so headers read earlier stay headers of such bids.
LEMMA RetrievalsKept ==
    ASSUME RelayInv, NothingTakenBack, UNCHANGED RetrieveVars
    PROVE  /\ RetrieveProgress'
           /\ HeaderIsOfBestBid'
           /\ PayloadNotBelowHeader'
<1> USE DEF RelayInv, NothingTakenBack, RetrieveVars, HandlerTypeOK
<1>1. RetrieveProgress'
  BY DEF RetrieveProgress
<1>2. HeaderIsOfBestBid'
  BY DEF HeaderIsOfBestBid, SlotOf
<1>3. PayloadNotBelowHeader'
  BY DEF PayloadNotBelowHeader
<1>4. QED
  BY <1>1, <1>2, <1>3

\* Registrations and winners are never revoked, so deliveries stay justified.
LEMMA CommitmentsKept ==
    ASSUME RelayInv, NothingTakenBack, UNCHANGED UnblindVars
    PROVE  UnblindProgress' /\ DeliveredToItsProposer'
<1> USE DEF RelayInv, NothingTakenBack, UnblindVars, HandlerTypeOK
<1>1. UnblindProgress'
  BY DEF UnblindProgress, is_registered
<1>2. DeliveredToItsProposer'
  BY DEF DeliveredToItsProposer
<1>3. QED
  BY <1>1, <1>2

\* Steps of submit_bid.
LEMMA SubmitInv ==
    ASSUME RelayInv, NEW b \in Bids, SubmitStep(b), AuctioneerInv', ViewInv'
    PROVE  RelayInv'
<1> USE RelayAssumption, BidAssumption
<1>1. \A a \in Bids : /\ call[a] = "accepted" => call'[a] = "accepted"
                      /\ a \in Stored => a \in Stored'
                      /\ call[a] # "idle" => call'[a] # "idle"
  <2>1. RelayNext
    BY DEF RelayNext
  <2>2. [AuctioneerNext]_AuctioneerVars
    BY <2>1, AuctioneerPart
  <2>3. QED
    BY <2>2, CallsOnlyAdvance DEF RelayInv, AuctioneerInv
<1>2. UNCHANGED <<ViewVars, RetrieveVars, UnblindVars>>
  BY DEF SubmitStep, SubmitReadsHead, SubmitReadsAttributes,
         SubmitFindsNoDuty, SubmitFindsDuty, SubmitBids, SubmitRefused,
         SubmitSaves, SubmitElsewhere
<1>3. ASSUME \A a \in Bids : call[a] # "idle" => duty'[a] = duty[a],
             HandlerTypeOK', SubmitProgress', AuctionSound',
             PayloadsKeptForWinners'
      PROVE  RelayInv'
  <2>1. NothingTakenBack
    BY <1>1, <1>2, <1>3 DEF NothingTakenBack, ViewVars
  <2>2. QED
    BY <1>2, <1>3, <2>1, RetrievalsKept, CommitmentsKept DEF RelayInv
<1>4. CASE SubmitReadsHead(b)
  <2> USE <1>4 DEF SubmitReadsHead
  <2>1. HandlerTypeOK'
    BY <1>2 DEF RelayInv, HandlerTypeOK, SubmitDone, RetrieveVars, UnblindVars
  <2>2. SubmitProgress'
    BY DEF RelayInv, SubmitProgress, HandlerTypeOK, AuctioneerVars, ValueOf
  <2>3. AuctionSound' /\ PayloadsKeptForWinners'
    BY <1>2 DEF RelayInv, AuctionSound, Valid, PayloadsKeptForWinners,
                AuctioneerVars, ViewVars
  <2>4. QED
    BY <1>3, <2>1, <2>2, <2>3
<1>5. CASE SubmitReadsAttributes(b)
  <2> USE <1>5 DEF SubmitReadsAttributes
  <2>1. HandlerTypeOK'
    BY <1>2 DEF RelayInv, HandlerTypeOK, SubmitDone, RetrieveVars, UnblindVars
  <2>2. SubmitProgress'
    BY DEF RelayInv, SubmitProgress, HandlerTypeOK, AuctioneerVars
  <2>3. AuctionSound' /\ PayloadsKeptForWinners'
    BY <1>2 DEF RelayInv, AuctionSound, Valid, PayloadsKeptForWinners,
                AuctioneerVars, ViewVars
  <2>4. QED
    BY <1>3, <2>1, <2>2, <2>3
<1>6. CASE SubmitFindsNoDuty(b)
  <2> USE <1>6 DEF SubmitFindsNoDuty
  <2>1. HandlerTypeOK'
    BY <1>2 DEF RelayInv, HandlerTypeOK, SubmitDone, RetrieveVars, UnblindVars
  <2>2. SubmitProgress'
    BY DEF RelayInv, SubmitProgress, HandlerTypeOK, AuctioneerVars
  <2>3. AuctionSound' /\ PayloadsKeptForWinners'
    BY <1>2 DEF RelayInv, AuctionSound, Valid, PayloadsKeptForWinners,
                AuctioneerVars, ViewVars
  <2>4. QED
    BY <1>3, <2>1, <2>2, <2>3
<1>7. CASE SubmitFindsDuty(b) /\ ~Bid[b].signed
  <2> USE <1>7 DEF SubmitFindsDuty
  <2>1. HandlerTypeOK'
    BY <1>2 DEF RelayInv, HandlerTypeOK, SubmitDone, RetrieveVars, UnblindVars
  <2>2. SubmitProgress'
    BY DEF RelayInv, SubmitProgress, HandlerTypeOK, AuctioneerVars
  <2>3. AuctionSound' /\ PayloadsKeptForWinners'
    BY <1>2 DEF RelayInv, AuctionSound, Valid, PayloadsKeptForWinners,
                AuctioneerVars, ViewVars
  <2>4. QED
    BY <1>3, <2>1, <2>2, <2>3 DEF AuctioneerVars
<1>8. CASE SubmitFindsDuty(b) /\ Bid[b].signed
  <2> USE <1>8 DEF SubmitFindsDuty, Call
  <2>1. PICK d \in find_duty_by_slot(SlotOf(b)) :
            /\ duty' = [duty EXCEPT ![b] = d.pubkey]
            /\ submit' = [submit EXCEPT ![b] = "auction"]
            /\ Call(b)
    OBVIOUS
  <2>2. d.pubkey \in Validators /\ d.pubkey \in validatorRegistrations
    BY <2>1 DEF RelayInv, ViewInv, ViewTypeOK, Duty, find_duty_by_slot,
                is_registered
  <2>3. HandlerTypeOK'
    BY <1>2, <2>1, <2>2
       DEF RelayInv, HandlerTypeOK, SubmitDone, RetrieveVars, UnblindVars
  <2>4. SubmitProgress'
    BY <2>1 DEF RelayInv, SubmitProgress, HandlerTypeOK, AuctioneerInv,
                AuctioneerTypeOK
  <2>5. AuctionSound'
    BY <1>2, <2>1, <2>2
       DEF RelayInv, AuctionSound, Valid, SubmitProgress, HandlerTypeOK,
           AuctioneerInv, AuctioneerTypeOK, ViewVars
  <2>6. PayloadsKeptForWinners'
    BY <2>1 DEF RelayInv, PayloadsKeptForWinners, HandlerTypeOK,
                AuctioneerInv, AuctioneerTypeOK
  <2>7. \A a \in Bids : call[a] # "idle" => duty'[a] = duty[a]
    BY <2>1 DEF RelayInv, HandlerTypeOK
  <2>8. QED
    BY <1>3, <2>3, <2>4, <2>5, <2>6, <2>7
<1>9. CASE SubmitBids(b)
  <2> USE <1>9 DEF SubmitBids, SubmitVars
  <2>1. HandlerTypeOK'
    BY <1>2 DEF RelayInv, HandlerTypeOK, RetrieveVars, UnblindVars
  <2>2. NothingTakenBack
    BY <1>1, <1>2 DEF NothingTakenBack, ViewVars
  <2>3. \A a \in Bids : call[a] = "idle" <=> call'[a] = "idle"
    BY CallStepBeginsNothing DEF RelayInv, AuctioneerInv
  <2>4. QED
    BY <1>3, <2>1, <2>2, <2>3, SubmitsKept
<1>10. CASE SubmitRefused(b)
  <2> USE <1>10 DEF SubmitRefused
  <2>1. HandlerTypeOK'
    BY <1>2 DEF RelayInv, HandlerTypeOK, SubmitDone, RetrieveVars, UnblindVars
  <2>2. SubmitProgress'
    BY DEF RelayInv, SubmitProgress, HandlerTypeOK, AuctioneerVars
  <2>3. AuctionSound' /\ PayloadsKeptForWinners'
    BY <1>2 DEF RelayInv, AuctionSound, Valid, PayloadsKeptForWinners,
                AuctioneerVars, ViewVars
  <2>4. QED
    BY <1>3, <2>1, <2>2, <2>3
<1>11. CASE SubmitSaves(b)
  <2> USE <1>11 DEF SubmitSaves
  <2>1. HandlerTypeOK'
    BY <1>2 DEF RelayInv, HandlerTypeOK, SubmitDone, RetrieveVars, UnblindVars
  <2>2. SubmitProgress'
    BY DEF RelayInv, SubmitProgress, HandlerTypeOK, AuctioneerVars
  <2>3. AuctionSound'
    BY <1>2 DEF RelayInv, AuctionSound, Valid, AuctioneerVars, ViewVars
  <2>4. PayloadsKeptForWinners'
    BY DEF RelayInv, PayloadsKeptForWinners, HandlerTypeOK, AuctioneerVars
  <2>5. QED
    BY <1>3, <2>1, <2>2, <2>3, <2>4
<1>12. QED
  BY <1>4, <1>5, <1>6, <1>7, <1>8, <1>9, <1>10, <1>11 DEF SubmitStep

\* Steps of the retrieve handler: the header is of what the cache held, and
\* the second read of the cache is not below it.
LEMMA RetrieveInv ==
    ASSUME RelayInv, NEW r \in Retrievals, RetrieveStep(r)
    PROVE  RelayInv'
<1> USE RelayAssumption, BidAssumption
<1>1. UNCHANGED <<AuctioneerVars, ViewVars, SubmitVars, UnblindVars,
                  blindedBlocks>>
  BY DEF RetrieveStep, RetrieveReadsRegistration, RetrieveFindsNoDuty,
         RetrieveFindsDuty, RetrieveReadsHead, RetrieveReadsBest,
         RetrieveSends, RetrieveElsewhere
<1>2. AuctioneerInv' /\ ViewInv'
  <2>1. AuctioneerInv'
    BY <1>1, StutterInv DEF RelayInv
  <2>2. ViewInv'
    BY <1>1 DEF RelayInv, ViewInv, ViewTypeOK, ViewVars, is_registered
  <2>3. QED
    BY <2>1, <2>2
<1>3. NothingTakenBack
  BY <1>1 DEF NothingTakenBack, AuctioneerVars, ViewVars, SubmitVars, Stored
<1>4. SubmitProgress' /\ AuctionSound' /\ PayloadsKeptForWinners'
  BY <1>1, <1>3, SubmitsKept DEF SubmitVars, AuctioneerVars
<1>5. UnblindProgress' /\ DeliveredToItsProposer'
  BY <1>1, <1>3, CommitmentsKept
<1>6. HandlerTypeOK'
  <2> USE <1>1 DEF RelayInv, HandlerTypeOK, RetrieveDone, SubmitVars,
                   UnblindVars
  <2>1. CASE RetrieveReadsRegistration(r)
    BY <2>1 DEF RetrieveReadsRegistration
  <2>2. CASE RetrieveFindsNoDuty(r)
    BY <2>2 DEF RetrieveFindsNoDuty
  <2>3. CASE RetrieveFindsDuty(r)
    BY <2>3 DEF RetrieveFindsDuty
  <2>4. CASE RetrieveReadsHead(r)
    BY <2>4 DEF RetrieveReadsHead
  <2>5. CASE RetrieveReadsBest(r)
    BY <2>5 DEF RetrieveReadsBest, BestBidOf, AuctioneerInv, AuctioneerTypeOK
  <2>6. CASE RetrieveSends(r)
    BY <2>6 DEF RetrieveSends, BestBidOf, AuctioneerInv, AuctioneerTypeOK
  <2>7. QED
    BY <2>1, <2>2, <2>3, <2>4, <2>5, <2>6 DEF RetrieveStep
<1>7. ASSUME RetrieveProgress', HeaderIsOfBestBid', PayloadNotBelowHeader'
      PROVE  RelayInv'
  BY <1>2, <1>4, <1>5, <1>6, <1>7 DEF RelayInv
<1> USE DEF RelayInv, HandlerTypeOK
<1>8. CASE \/ RetrieveReadsRegistration(r) \/ RetrieveFindsNoDuty(r)
           \/ RetrieveFindsDuty(r) \/ RetrieveReadsHead(r)
  <2> USE <1>8 DEF RetrieveReadsRegistration, RetrieveFindsNoDuty,
                   RetrieveFindsDuty, RetrieveReadsHead
  <2>1. RetrieveProgress'
    BY DEF RetrieveProgress
  <2>2. HeaderIsOfBestBid'
    BY <1>3 DEF HeaderIsOfBestBid, NothingTakenBack, SlotOf
  <2>3. PayloadNotBelowHeader'
    BY DEF PayloadNotBelowHeader
  <2>4. QED
    BY <1>7, <2>1, <2>2, <2>3
<1>9. CASE RetrieveReadsBest(r)
  <2> USE <1>9 DEF RetrieveReadsBest, BestBidOf
  <2>1. RetrieveProgress'
    BY DEF RetrieveProgress
  <2>2. cache[Retrieval[r].slot] # NoBid =>
            /\ cache[Retrieval[r].slot] \in Stored
            /\ SlotOf(cache[Retrieval[r].slot]) = Retrieval[r].slot
    BY DEF AuctioneerInv, CacheIsStored
  <2>3. HeaderIsOfBestBid'
    <3>1. ASSUME NEW q \in Retrievals, header'[q] # NoBid
          PROVE  /\ header'[q] \in Stored
                 /\ Bid[header'[q]].slot = Retrieval[q].slot
                 /\ Bid[header'[q]].parent = Retrieval[q].parent
      <4>1. CASE header'[q] = header[q]
        BY <3>1, <4>1 DEF HeaderIsOfBestBid, SlotOf
      <4>2. CASE /\ q = r /\ header'[q] = cache[Retrieval[r].slot]
                 /\ Bid[cache[Retrieval[r].slot]].parent = Retrieval[r].parent
        BY <2>2, <3>1, <4>2 DEF SlotOf
      <4>3. QED
        BY <4>1, <4>2
    <3>2. Stored' = Stored
      BY <1>1 DEF Stored, AuctioneerVars
    <3>3. QED
      BY <3>1, <3>2 DEF HeaderIsOfBestBid, SlotOf
  <2>4. PayloadNotBelowHeader'
    BY DEF PayloadNotBelowHeader
  <2>5. QED
    BY <1>7, <2>1, <2>3, <2>4
<1>10. CASE RetrieveSends(r)
  <2> USE <1>10 DEF RetrieveSends, BestBidOf
  <2>1. RetrieveProgress'
    BY DEF RetrieveProgress
  <2>2. HeaderIsOfBestBid'
    BY <1>3 DEF HeaderIsOfBestBid, NothingTakenBack, SlotOf
  <2>3. Retrieval[r].slot \notin ExpiringSlots =>
            /\ cache[Retrieval[r].slot] # NoBid
            /\ ValueOf(cache[Retrieval[r].slot]) >= ValueOf(header[r])
    BY DEF RetrieveProgress, HeaderIsOfBestBid, AuctioneerInv,
           BestBidIsHighest
  <2>4. PayloadNotBelowHeader'
    BY <2>3 DEF PayloadNotBelowHeader, ValueOf
  <2>5. QED
    BY <1>7, <2>1, <2>2, <2>4
<1>11. QED
  BY <1>8, <1>9, <1>10 DEF RetrieveStep

\* Steps of unblind_block.
LEMMA UnblindInv ==
    ASSUME RelayInv, NEW c \in Commitments, UnblindStep(c)
    PROVE  RelayInv'
<1> USE RelayAssumption, BidAssumption
<1>1. UNCHANGED <<AuctioneerVars, ViewVars, SubmitVars, RetrieveVars,
                  blindedBlocks>>
  BY DEF UnblindStep, UnblindFindsNoDuty, UnblindFindsDuty, UnblindVerifies,
         UnblindDelivers, UnblindElsewhere
<1>2. AuctioneerInv'
  BY <1>1, StutterInv DEF RelayInv
<1>3. ViewInv'
  BY <1>1 DEF RelayInv, ViewInv, ViewTypeOK, ViewVars, is_registered
<1>4. NothingTakenBack
  BY <1>1 DEF NothingTakenBack, AuctioneerVars, ViewVars, SubmitVars, Stored
<1>5. SubmitProgress' /\ AuctionSound' /\ PayloadsKeptForWinners'
  BY <1>1, <1>4, SubmitsKept DEF SubmitVars, AuctioneerVars
<1>6. RetrieveProgress' /\ HeaderIsOfBestBid' /\ PayloadNotBelowHeader'
  BY <1>1, <1>4, RetrievalsKept
<1>7. ASSUME HandlerTypeOK', UnblindProgress', DeliveredToItsProposer'
      PROVE  RelayInv'
  BY <1>2, <1>3, <1>5, <1>6, <1>7 DEF RelayInv
<1> USE <1>1 DEF RelayInv, HandlerTypeOK, UnblindDone, SubmitVars,
                 RetrieveVars, AuctioneerVars, ViewVars, is_registered
<1>8. CASE UnblindFindsNoDuty(c)
  <2> USE <1>8 DEF UnblindFindsNoDuty
  <2>1. HandlerTypeOK'
    OBVIOUS
  <2>2. UnblindProgress'
    BY DEF UnblindProgress
  <2>3. DeliveredToItsProposer'
    BY DEF DeliveredToItsProposer
  <2>4. QED
    BY <1>7, <2>1, <2>2, <2>3
<1>9. CASE UnblindFindsDuty(c)
  <2> USE <1>9 DEF UnblindFindsDuty
  <2>1. \A d \in find_duty_by_slot(Commitment[c].slot) : d.pubkey \in Validators
    BY DEF ViewInv, ViewTypeOK, Duty, find_duty_by_slot
  <2>2. HandlerTypeOK'
    BY <2>1
  <2>3. UnblindProgress'
    BY <2>1 DEF UnblindProgress
  <2>4. DeliveredToItsProposer'
    BY DEF DeliveredToItsProposer
  <2>5. QED
    BY <1>7, <2>2, <2>3, <2>4
<1>10. CASE UnblindVerifies(c)
  <2> USE <1>10 DEF UnblindVerifies
  <2>1. HandlerTypeOK'
    OBVIOUS
  <2>2. UnblindProgress'
    BY DEF UnblindProgress
  <2>3. DeliveredToItsProposer'
    BY DEF DeliveredToItsProposer
  <2>4. QED
    BY <1>7, <2>1, <2>2, <2>3
<1>11. CASE UnblindDelivers(c)
  <2> USE <1>11 DEF UnblindDelivers
  <2>1. /\ signer[c] \in Validators
        /\ signer[c] = Commitment[c].signer
        /\ signer[c] \in validatorRegistrations
    BY DEF UnblindProgress
  <2>2. HandlerTypeOK'
    BY <2>1
  <2>3. UnblindProgress'
    BY DEF UnblindProgress
  <2>4. DeliveredToItsProposer'
    BY <2>1 DEF DeliveredToItsProposer, PayloadsKeptForWinners
  <2>5. QED
    BY <1>7, <2>2, <2>3, <2>4
<1>12. QED
  BY <1>8, <1>9, <1>10, <1>11 DEF UnblindStep

\* Steps of the environment: the view of the chain, the cache's expiry.
LEMMA EnvironmentInv ==
    ASSUME RelayInv, AuctioneerInv', ViewInv', NothingTakenBack,
           ViewChanges \/ CacheExpires \/ UNCHANGED RelayVars
    PROVE  RelayInv'
<1>1. UNCHANGED <<call, SubmitVars, RetrieveVars, UnblindVars, blindedBlocks>>
  BY DEF ViewChanges, CacheExpires, Expire, RelayVars, RequestVars,
         AuctioneerVars
<1>2. HandlerTypeOK'
  BY <1>1 DEF RelayInv, HandlerTypeOK, SubmitVars, RetrieveVars, UnblindVars
<1>3. SubmitProgress' /\ AuctionSound' /\ PayloadsKeptForWinners'
  BY <1>1, SubmitsKept DEF SubmitVars
<1>4. QED
  BY <1>1, <1>2, <1>3, RetrievalsKept, CommitmentsKept DEF RelayInv

\* Every step of the relay keeps the inductive invariant.
LEMMA RelayInvStep ==
    ASSUME RelayInv, [RelayNext]_RelayVars
    PROVE  RelayInv'
<1>1. AuctioneerInv'
  BY AuctioneerPart, InvStep DEF RelayInv
<1>2. ViewInv' /\ validatorRegistrations \subseteq validatorRegistrations'
  BY ChainViewPart, ViewStep DEF RelayInv
<1>3. ASSUME ViewChanges \/ CacheExpires \/ UNCHANGED RelayVars
      PROVE  NothingTakenBack
  <2>1. UNCHANGED <<call, duty>>
    BY <1>3 DEF ViewChanges, CacheExpires, Expire, RelayVars, RequestVars,
                AuctioneerVars, SubmitVars
  <2>2. QED
    BY <1>2, <2>1 DEF NothingTakenBack, Stored
<1>4. QED
  BY <1>1, <1>2, <1>3, SubmitInv, RetrieveInv, UnblindInv, EnvironmentInv
     DEF RelayNext

\* The inductive invariant holds when the relay starts.
LEMMA RelayInitInv == RelayInit => RelayInv
<1> SUFFICES ASSUME RelayInit PROVE RelayInv
  OBVIOUS
<1>1. AuctioneerInv
  BY InitInv DEF RelayInit
<1>2. ViewInv
  BY StorageAssumption DEF RelayInit, ViewInit, ViewInv, ViewTypeOK
<1>3. HandlerTypeOK
  BY DEF RelayInit, HandlerTypeOK
<1>4. SubmitProgress /\ UnblindProgress /\ RetrieveProgress
  BY DEF RelayInit, AuctioneerInit, SubmitProgress, UnblindProgress,
         RetrieveProgress
<1>5. AuctionSound /\ PayloadsKeptForWinners /\ DeliveredToItsProposer
  BY DEF RelayInit, AuctioneerInit, AuctionSound, PayloadsKeptForWinners,
         DeliveredToItsProposer
<1>6. HeaderIsOfBestBid /\ PayloadNotBelowHeader
  BY DEF RelayInit, HeaderIsOfBestBid, PayloadNotBelowHeader
<1>7. QED
  BY <1>1, <1>2, <1>3, <1>4, <1>5, <1>6 DEF RelayInv

\* The invariant of the composed relay.
THEOREM RelayInvariant == RelaySpec => []RelayInv
<1>1. RelayInit => RelayInv
  BY RelayInitInv
<1>2. RelayInv /\ [RelayNext]_RelayVars => RelayInv'
  BY RelayInvStep
<1>3. QED
  BY <1>1, <1>2, PTL DEF RelaySpec

\* The composed relay's state is well typed.
THEOREM RelayTypeCorrect == RelaySpec => []RelayTypeOK
<1>1. RelayInv => RelayTypeOK
  BY DEF RelayInv, RelayTypeOK, AuctioneerInv, ViewInv
<1>2. QED
  BY <1>1, RelayInvariant, PTL

\* Only bids of some value, of whitelisted builders, well signed and for
\* registered proposers, take part in an auction.
THEOREM AuctionSoundAlways == RelaySpec => []AuctionSound
BY RelayInvariant, PTL DEF RelayInv

\* Only a winner's payload is kept, and for the proposer of its slot.
THEOREM PayloadsKeptForWinnersAlways == RelaySpec => []PayloadsKeptForWinners
BY RelayInvariant, PTL DEF RelayInv

\* submit_blinded_block hands out a payload only to the registered proposer it
\* was kept for, and only against that proposer's commitment to its hash.
THEOREM DeliveredToItsProposerAlways == RelaySpec => []DeliveredToItsProposer
BY RelayInvariant, PTL DEF RelayInv

\* A signed header is of a bid the auction stored for the slot and the parent.
THEOREM HeaderIsOfBestBidAlways == RelaySpec => []HeaderIsOfBestBid
BY RelayInvariant, PTL DEF RelayInv

\* The payload read after the header is not of a lower bid.
THEOREM PayloadNotBelowHeaderAlways == RelaySpec => []PayloadNotBelowHeader
BY RelayInvariant, PTL DEF RelayInv

============================================================================
