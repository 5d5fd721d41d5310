------------------------------- MODULE Relay -------------------------------
(***************************************************************************)
(* The relay's request handlers over the shared auctioneer and storage:    *)
(*   submit_bid      BidderService.Bid        (crates/usecase, crates/api) *)
(*   get_header      RetrieverService.Retrieve                             *)
(*   unblind_block   RetrieverService.SubmitBlindedBlock                   *)
(* Each handler is a task; each call it makes to the storage or to the     *)
(* auctioneer is a step of its own, and everything in between interleaves. *)
(* The checks that read only the request are made in the step of the read  *)
(* next to them.                                                           *)
(*                                                                         *)
(* The chain view (head, attributes, registrations, duties) changes under  *)
(* the handlers as ChainView allows; RelayService implements ChainView.    *)
(***************************************************************************)
EXTENDS Auctioneer, ChainView

CONSTANTS
    Whitelist,     \* enabled builders
    Retrievals,    \* identities of the retrieve requests
    Retrieval,     \* what each asks: slot, parent, pubkey
    Commitments,   \* identities of the signed blinded blocks submitted
    Commitment,    \* what each says: slot, index, hash, and its signer
    NoValidator

\* Bid[b] has, besides slot and value: builder and parent (of its trace), randao
\* and hash (of its payload), and whether its signature verifies in the builder
\* domain.
ASSUME RelayAssumption ==
    /\ NoValidator \notin Validators
    /\ \A b \in Bids : Bid[b].signed \in BOOLEAN
    /\ \A r \in Retrievals : Retrieval[r].slot \in Slots

VARIABLES
    submit,         \* bid -> where submit_bid is, or its outcome
    duty,           \* bid -> submit_bid's local: the proposer of the slot
    retrieve,       \* retrieval -> where it is, or its outcome
    header,         \* retrieval -> the bid whose header was signed
    payload,        \* retrieval -> the bid whose payload goes with it
    unblind,        \* commitment -> where it is, or its outcome
    signer,         \* commitment -> unblind_block's local: the proposer
    blindedBlocks,  \* blinded_blocks: proposer -> bid whose payload is kept
    delivered       \* commitment -> bid whose payload was returned for it

SubmitVars == <<submit, duty>>
RetrieveVars == <<retrieve, header, payload>>
UnblindVars == <<unblind, signer, delivered>>
RelayVars == <<AuctioneerVars, ViewVars, SubmitVars, RetrieveVars,
               UnblindVars, blindedBlocks>>

\* The outcomes of UseCaseError are named as in the code.
SubmitDone == {"Ok", "ZeroBid", "UnauthorizedBuilder", "InvalidSlot",
               "InvalidPayloadAttributes", "DutyNotFound",
               "InvalidBuilderSignature", "BidValueNotHighEnough"}
RetrieveDone == {"Ok", "UnauthorizedGetHeader", "DutyNotFound", "InvalidSlot",
                 "BidNotFound", "NoBidFound"}
UnblindDone == {"Ok", "DutyNotFound", "ProposerIndexMismatch",
                "UnauthorizedSubmission", "InvalidValidatorSignature",
                "NoBlindedBlockResponse", "BlockHashMismatch"}

HandlerTypeOK ==
    /\ submit \in [Bids -> {"head", "attributes", "duty", "auction"}
                              \cup SubmitDone]
    /\ duty \in [Bids -> Validators \cup {NoValidator}]
    /\ retrieve \in [Retrievals -> {"registration", "duty", "head", "best",
                                    "payload"} \cup RetrieveDone]
    /\ header \in [Retrievals -> Bids \cup {NoBid}]
    /\ payload \in [Retrievals -> Bids \cup {NoBid}]
    /\ unblind \in [Commitments -> {"duty", "registration", "payload"}
                                      \cup UnblindDone]
    /\ signer \in [Commitments -> Validators \cup {NoValidator}]
    /\ blindedBlocks \in [Validators -> Bids \cup {NoBid}]
    /\ delivered \in [Commitments -> Bids \cup {NoBid}]

RelayTypeOK == AuctioneerTypeOK /\ ViewTypeOK /\ HandlerTypeOK

RelayInit ==
    /\ AuctioneerInit
    /\ ViewInit
    /\ submit = [b \in Bids |-> "head"]
    /\ duty = [b \in Bids |-> NoValidator]
    /\ retrieve = [r \in Retrievals |-> "registration"]
    /\ header = [r \in Retrievals |-> NoBid]
    /\ payload = [r \in Retrievals |-> NoBid]
    /\ unblind = [c \in Commitments |-> "duty"]
    /\ signer = [c \in Commitments |-> NoValidator]
    /\ blindedBlocks = [v \in Validators |-> NoBid]
    /\ delivered = [c \in Commitments |-> NoBid]

-----------------------------------------------------------------------------
(* SubmitBidUseCase::execute                                               *)

SubmitElsewhere == UNCHANGED <<ViewVars, RetrieveVars, UnblindVars>>

\* Zero value, whitelist, then the head slot.
SubmitReadsHead(b) ==
    /\ submit[b] = "head"
    /\ submit' = [submit EXCEPT ![b] =
            IF ValueOf(b) = 0 THEN "ZeroBid"
            ELSE IF Bid[b].builder \notin Whitelist THEN "UnauthorizedBuilder"
            ELSE IF ~is_next_slot(SlotOf(b)) THEN "InvalidSlot"
            ELSE "attributes"]
    /\ UNCHANGED <<duty, AuctioneerVars, blindedBlocks>>
    /\ SubmitElsewhere

SubmitReadsAttributes(b) ==
    /\ submit[b] = "attributes"
    /\ submit' = [submit EXCEPT ![b] =
            IF Bid[b].randao # payloadAttributes
            THEN "InvalidPayloadAttributes" ELSE "duty"]
    /\ UNCHANGED <<duty, AuctioneerVars, blindedBlocks>>
    /\ SubmitElsewhere

SubmitFindsNoDuty(b) ==
    /\ submit[b] = "duty"
    /\ find_duty_by_slot(SlotOf(b)) = {}
    /\ submit' = [submit EXCEPT ![b] = "DutyNotFound"]
    /\ UNCHANGED <<duty, AuctioneerVars, blindedBlocks>>
    /\ SubmitElsewhere

\* Mutant of SubmitFindsDuty: the signature is not verified.
SubmitFindsDutyUnsigned(b) ==
    /\ submit[b] = "duty"
    /\ \E d \in find_duty_by_slot(SlotOf(b)) :
        /\ duty' = [duty EXCEPT ![b] = d.pubkey]
        /\ submit' = [submit EXCEPT ![b] = "auction"]
        /\ Call(b)
    /\ UNCHANGED blindedBlocks
    /\ SubmitElsewhere

\* The proposer is remembered from here on; compare_and_bid is entered.
SubmitFindsDuty(b) ==
    /\ submit[b] = "duty"
    /\ \E d \in find_duty_by_slot(SlotOf(b)) :
        IF Bid[b].signed
        THEN /\ duty' = [duty EXCEPT ![b] = d.pubkey]
             /\ submit' = [submit EXCEPT ![b] = "auction"]
             /\ Call(b)
        ELSE /\ submit' = [submit EXCEPT ![b] = "InvalidBuilderSignature"]
             /\ UNCHANGED <<duty, AuctioneerVars>>
    /\ UNCHANGED blindedBlocks
    /\ SubmitElsewhere

\* The awaited compare_and_bid runs.
SubmitBids(b) ==
    /\ CallStep(b)
    /\ UNCHANGED <<SubmitVars, blindedBlocks>>
    /\ SubmitElsewhere

SubmitRefused(b) ==
    /\ submit[b] = "auction" /\ call[b] \in Refused
    /\ submit' = [submit EXCEPT ![b] = "BidValueNotHighEnough"]
    /\ UNCHANGED <<duty, AuctioneerVars, blindedBlocks>>
    /\ SubmitElsewhere

\* Mutant of SubmitSaves: a refused bid is saved too.
SubmitSavesWhateverTheAnswer(b) ==
    /\ submit[b] = "auction" /\ call[b] \in Done
    /\ blindedBlocks' = [blindedBlocks EXCEPT ![duty[b]] = b]
    /\ submit' = [submit EXCEPT ![b] = "Ok"]
    /\ UNCHANGED <<duty, AuctioneerVars>>
    /\ SubmitElsewhere

\* set_blinded_block_response, in a step of its own after the auction.
SubmitSaves(b) ==
    /\ submit[b] = "auction" /\ call[b] = "accepted"
    /\ blindedBlocks' = [blindedBlocks EXCEPT ![duty[b]] = b]
    /\ submit' = [submit EXCEPT ![b] = "Ok"]
    /\ UNCHANGED <<duty, AuctioneerVars>>
    /\ SubmitElsewhere

SubmitStep(b) ==
    \/ SubmitReadsHead(b) \/ SubmitReadsAttributes(b)
    \/ SubmitFindsNoDuty(b) \/ SubmitFindsDuty(b)
    \/ SubmitBids(b) \/ SubmitRefused(b) \/ SubmitSaves(b)

-----------------------------------------------------------------------------
(* GetHeaderUseCase::execute, and the rest of the retrieve handler         *)

RetrieveElsewhere ==
    UNCHANGED <<AuctioneerVars, ViewVars, SubmitVars, UnblindVars,
                blindedBlocks>>

RetrieveReadsRegistration(r) ==
    /\ retrieve[r] = "registration"
    /\ retrieve' = [retrieve EXCEPT ![r] =
            IF is_registered(Retrieval[r].pubkey)
            THEN "duty" ELSE "UnauthorizedGetHeader"]
    /\ UNCHANGED <<header, payload>>
    /\ RetrieveElsewhere

RetrieveFindsNoDuty(r) ==
    /\ retrieve[r] = "duty"
    /\ find_duty_by_slot(Retrieval[r].slot) = {}
    /\ retrieve' = [retrieve EXCEPT ![r] = "DutyNotFound"]
    /\ UNCHANGED <<header, payload>>
    /\ RetrieveElsewhere

RetrieveFindsDuty(r) ==
    /\ retrieve[r] = "duty"
    /\ \E d \in find_duty_by_slot(Retrieval[r].slot) :
        retrieve' = [retrieve EXCEPT ![r] =
            IF d.pubkey = Retrieval[r].pubkey
            THEN "head" ELSE "UnauthorizedGetHeader"]
    /\ UNCHANGED <<header, payload>>
    /\ RetrieveElsewhere

RetrieveReadsHead(r) ==
    /\ retrieve[r] = "head"
    /\ retrieve' = [retrieve EXCEPT ![r] =
            IF is_next_slot(Retrieval[r].slot) THEN "best" ELSE "InvalidSlot"]
    /\ UNCHANGED <<header, payload>>
    /\ RetrieveElsewhere

\* Mutant of RetrieveReadsBest: the parent is not compared.
RetrieveReadsBestAnyParent(r) ==
    LET b == BestBidOf(Retrieval[r].slot) IN
    /\ retrieve[r] = "best"
    /\ retrieve' = [retrieve EXCEPT ![r] =
            IF b = NoBid THEN "BidNotFound" ELSE "payload"]
    /\ header' = [header EXCEPT ![r] = b]
    /\ UNCHANGED payload
    /\ RetrieveElsewhere

\* The header of the best bid is built and signed.
RetrieveReadsBest(r) ==
    LET b == BestBidOf(Retrieval[r].slot) IN
    /\ retrieve[r] = "best"
    /\ IF b = NoBid \/ Bid[b].parent # Retrieval[r].parent
       THEN /\ retrieve' = [retrieve EXCEPT ![r] =
                    IF b = NoBid THEN "BidNotFound" ELSE "NoBidFound"]
            /\ UNCHANGED header
       ELSE /\ retrieve' = [retrieve EXCEPT ![r] = "payload"]
            /\ header' = [header EXCEPT ![r] = b]
    /\ UNCHANGED payload
    /\ RetrieveElsewhere

\* handle_request reads the best bid a second time for the payload and sends.
RetrieveSends(r) ==
    /\ retrieve[r] = "payload"
    /\ payload' = [payload EXCEPT ![r] = BestBidOf(Retrieval[r].slot)]
    /\ retrieve' = [retrieve EXCEPT ![r] = "Ok"]
    /\ UNCHANGED header
    /\ RetrieveElsewhere

RetrieveStep(r) ==
    \/ RetrieveReadsRegistration(r)
    \/ RetrieveFindsNoDuty(r) \/ RetrieveFindsDuty(r)
    \/ RetrieveReadsHead(r) \/ RetrieveReadsBest(r) \/ RetrieveSends(r)

-----------------------------------------------------------------------------
(* UnblindBlockUseCase::execute                                            *)

UnblindElsewhere ==
    UNCHANGED <<AuctioneerVars, ViewVars, SubmitVars, RetrieveVars,
                blindedBlocks>>

UnblindFindsNoDuty(c) ==
    /\ unblind[c] = "duty"
    /\ find_duty_by_slot(Commitment[c].slot) = {}
    /\ unblind' = [unblind EXCEPT ![c] = "DutyNotFound"]
    /\ UNCHANGED <<signer, delivered>>
    /\ UnblindElsewhere

UnblindFindsDuty(c) ==
    /\ unblind[c] = "duty"
    /\ \E d \in find_duty_by_slot(Commitment[c].slot) :
        IF d.pubkey = Commitment[c].index
        THEN /\ unblind' = [unblind EXCEPT ![c] = "registration"]
             /\ signer' = [signer EXCEPT ![c] = d.pubkey]
        ELSE /\ unblind' = [unblind EXCEPT ![c] = "ProposerIndexMismatch"]
             /\ UNCHANGED signer
    /\ UNCHANGED delivered
    /\ UnblindElsewhere

\* Registration, then the signature over slot, index and hash.
UnblindVerifies(c) ==
    /\ unblind[c] = "registration"
    /\ unblind' = [unblind EXCEPT ![c] =
            IF ~is_registered(signer[c]) THEN "UnauthorizedSubmission"
            ELSE IF Commitment[c].signer # signer[c]
                 THEN "InvalidValidatorSignature"
                 ELSE "payload"]
    /\ UNCHANGED <<signer, delivered>>
    /\ UnblindElsewhere

\* Mutant of UnblindDelivers: the hash is not compared.
UnblindDeliversAnyHash(c) ==
    LET b == blindedBlocks[signer[c]] IN
    /\ unblind[c] = "payload"
    /\ IF b = NoBid
       THEN /\ unblind' = [unblind EXCEPT ![c] = "NoBlindedBlockResponse"]
            /\ UNCHANGED delivered
       ELSE /\ unblind' = [unblind EXCEPT ![c] = "Ok"]
            /\ delivered' = [delivered EXCEPT ![c] = b]
    /\ UNCHANGED signer
    /\ UnblindElsewhere

\* Mutant of UnblindDelivers: another handler's error is returned.
UnblindDeliversOrBidNotFound(c) ==
    LET b == blindedBlocks[signer[c]] IN
    /\ unblind[c] = "payload"
    /\ IF b = NoBid \/ Bid[b].hash # Commitment[c].hash
       THEN /\ unblind' = [unblind EXCEPT ![c] = "BidNotFound"]
            /\ UNCHANGED delivered
       ELSE /\ unblind' = [unblind EXCEPT ![c] = "Ok"]
            /\ delivered' = [delivered EXCEPT ![c] = b]
    /\ UNCHANGED signer
    /\ UnblindElsewhere

\* The kept payload is returned if its hash is the one committed to.  The push
\* to delivered_blocks, which nothing reads, is part of the same step.
UnblindDelivers(c) ==
    LET b == blindedBlocks[signer[c]] IN
    /\ unblind[c] = "payload"
    /\ IF b = NoBid \/ Bid[b].hash # Commitment[c].hash
       THEN /\ unblind' = [unblind EXCEPT ![c] =
                    IF b = NoBid THEN "NoBlindedBlockResponse"
                                 ELSE "BlockHashMismatch"]
            /\ UNCHANGED delivered
       ELSE /\ unblind' = [unblind EXCEPT ![c] = "Ok"]
            /\ delivered' = [delivered EXCEPT ![c] = b]
    /\ UNCHANGED signer
    /\ UnblindElsewhere

UnblindStep(c) ==
    \/ UnblindFindsNoDuty(c) \/ UnblindFindsDuty(c)
    \/ UnblindVerifies(c) \/ UnblindDelivers(c)

-----------------------------------------------------------------------------
(* The environment of the handlers.                                        *)

RequestVars ==
    <<AuctioneerVars, SubmitVars, RetrieveVars, UnblindVars, blindedBlocks>>

ViewChanges == ChainViewNext /\ UNCHANGED RequestVars

CacheExpires ==
    /\ \E s \in Slots : Expire(s)
    /\ UNCHANGED <<ViewVars, SubmitVars, RetrieveVars, UnblindVars,
                   blindedBlocks>>

RelayNext ==
    \/ \E b \in Bids : SubmitStep(b)
    \/ \E r \in Retrievals : RetrieveStep(r)
    \/ \E c \in Commitments : UnblindStep(c)
    \/ ViewChanges
    \/ CacheExpires

RelaySpec == RelayInit /\ [][RelayNext]_RelayVars

\* A handler that has begun runs in a task that is polled to completion; none
\* waits for anything but the auctioneer's lock on a slot.  Requests need not
\* arrive.
RelayFairness ==
    /\ \A b \in Bids : WF_RelayVars(submit[b] # "head" /\ SubmitStep(b))
    /\ \A r \in Retrievals :
        WF_RelayVars(retrieve[r] # "registration" /\ RetrieveStep(r))
    /\ \A c \in Commitments :
        WF_RelayVars(unblind[c] # "duty" /\ UnblindStep(c))

FairRelaySpec == RelaySpec /\ RelayFairness

-----------------------------------------------------------------------------
\* What submit_bid checks of the bid alone.
Valid(b) ==
    /\ ValueOf(b) > 0
    /\ Bid[b].builder \in Whitelist
    /\ Bid[b].signed

\* Whatever the auctioneer shows, and whatever was promised to a proposer out
\* of it, is a bid of some value, of a whitelisted builder, well signed, and for
\* a proposer that is registered.  The slot and the randao are compared with a
\* view that may have moved on since, and are not part of this.
AuctionSound ==
    \A b \in Bids : call[b] # "idle" =>
        Valid(b) /\ duty[b] \in validatorRegistrations

\* The payload kept for a proposer belongs to a bid that won its auction and
\* was submitted for a slot of that proposer, though the auction, the duties
\* and the payload are read and written in different steps.
PayloadsKeptForWinners ==
    \A v \in Validators : blindedBlocks[v] # NoBid =>
        /\ call[blindedBlocks[v]] = "accepted"
        /\ duty[blindedBlocks[v]] = v

\* submit_blinded_block hands out a payload only against a commitment to that
\* very block, by the registered proposer the payload was kept for: no order of
\* submissions, duty changes and overwrites of blinded_blocks delivers another's
\* payload.  It says nothing of retrieve, whose response to a header request
\* carries a payload before there is any commitment.
DeliveredToItsProposer ==
    \A c \in Commitments : delivered[c] # NoBid =>
        LET b == delivered[c] IN
        /\ call[b] = "accepted"
        /\ Bid[b].hash = Commitment[c].hash
        /\ duty[b] = Commitment[c].signer
        /\ Commitment[c].signer \in validatorRegistrations

\* A signed header is of a bid that is or was the best one of the slot asked
\* for, on the parent asked for.
HeaderIsOfBestBid ==
    \A r \in Retrievals : header[r] # NoBid =>
        /\ header[r] \in Stored
        /\ SlotOf(header[r]) = Retrieval[r].slot
        /\ Bid[header[r]].parent = Retrieval[r].parent

\* The payload sent with a header was read later; while the entry lives it is
\* never of a lower bid than the header's.
PayloadNotBelowHeader ==
    \A r \in Retrievals :
        retrieve[r] = "Ok" /\ Retrieval[r].slot \notin ExpiringSlots =>
            /\ payload[r] # NoBid
            /\ ValueOf(payload[r]) >= ValueOf(header[r])

\* Every request that is begun is answered, whatever the others do and however
\* the view of the chain changes meanwhile.
EveryRequestAnswered ==
    /\ \A b \in Bids : submit[b] = "attributes" ~> submit[b] \in SubmitDone
    /\ \A r \in Retrievals : retrieve[r] = "duty" ~> retrieve[r] \in RetrieveDone
    /\ \A c \in Commitments :
        unblind[c] = "registration" ~> unblind[c] \in UnblindDone

-----------------------------------------------------------------------------
(* What the README says of the three flows.                                *)

\* README: "selects the most profitable block for each slot, and delivers it
\* to the proposing validator".  Once no submission is in progress, the payload
\* kept out of a slot's auction is that of the slot's best bid.
BestPayloadKept ==
    (\A b \in Bids : submit[b] \in SubmitDone \cup {"head"}) =>
        \A s \in Slots : BestBidOf(s) # NoBid =>
            \A v \in Validators :
                blindedBlocks[v] # NoBid /\ SlotOf(blindedBlocks[v]) = s
                    => blindedBlocks[v] = BestBidOf(s)

\* README: the relay signs the header so that the validator can commit, and
\* unblinds the committed block by attaching the builder's payload.  While the
\* slot is next, the payload of a header it signed, once saved, is still there
\* for the proposer it was signed for.
SignedHeaderHasPayload ==
    \A r \in Retrievals :
        /\ retrieve[r] = "Ok"
        /\ submit[header[r]] = "Ok"
        /\ duty[header[r]] = Retrieval[r].pubkey
        /\ is_next_slot(Retrieval[r].slot)
        => LET b == blindedBlocks[Retrieval[r].pubkey] IN
           b # NoBid /\ Bid[b].hash = Bid[header[r]].hash

============================================================================
