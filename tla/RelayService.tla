---------------------------- MODULE RelayService ----------------------------
(***************************************************************************)
(* RelayService (crates/app/src/relay_service.rs): the one background task *)
(* that keeps the stored view of the chain up to date.  It consumes the    *)
(* beacon node's event stream, and when the stream fails it polls the head *)
(* for ever.  On a duty refresh slot it fetches the duties of the epoch    *)
(* and of the next one, and handles no further event until both answers    *)
(* are there.  Registrations arrive from the validator service meanwhile.  *)
(*                                                                         *)
(* The beacon node is external: its head advances, possibly skipping slots *)
(* that have no block, it emits events to a connected relay only, and its  *)
(* answer about the NEXT epoch is provisional.  Its head is assumed never  *)
(* to go back to a lower slot: there are no reorganisations here.          *)
(***************************************************************************)
EXTENDS Storage, Sequences

CONSTANTS
    SlotsPerEpoch,    \* --epoch.slots
    Proposer,         \* slot -> validator: the chain's final duties
    NextEpochViews,   \* what the node may say about an epoch in advance
    MaxWire,          \* bound: events in flight
    MaxSkip           \* bound: how far the head moves in one step

ASSUME RelayServiceAssumption ==
    /\ SlotsPerEpoch \in Nat \ {0}
    /\ Proposer \in [ChainSlots -> Validators]
    /\ NextEpochViews \subseteq [ChainSlots -> Validators]
    /\ MaxWire \in Nat
    /\ MaxSkip \in Nat

VARIABLES
    mode,       \* where run() is: connecting, reading the stream, waiting
                \* for the answer to a poll, or for the next tick
    sync,       \* where sync_duties is: idle or waiting for an answer
    syncEpoch,  \* its argument
    filtered,   \* its local: the current epoch's duties, filtered
    chainHead,  \* the beacon node's head slot
    wire        \* events sent by the node and not yet handled

RelayServiceVars ==
    <<ViewVars, mode, sync, syncEpoch, filtered, chainHead, wire>>

Event == [kind : {"head"}, slot : ChainSlots]
             \cup [kind : {"attributes"}, randao : Randaos]

RelayServiceTypeOK ==
    /\ ViewTypeOK
    /\ mode \in {"connect", "sse", "poll", "sleep"}
    /\ sync \in {"idle", "current", "next"}
    /\ syncEpoch \in Nat
    /\ filtered \subseteq Duty
    /\ chainHead \in ChainSlots
    /\ wire \in Seq(Event)

RelayServiceInit ==
    /\ ViewInit
    /\ mode = "connect"
    /\ sync = "idle"
    /\ syncEpoch = 0
    /\ filtered = {}
    /\ chainHead = 0
    /\ wire = <<>>

\* HeadSlot::is_duty_refresh_slot and HeadSlot::epoch
is_duty_refresh_slot(s) == s % SlotsPerEpoch = 1
epoch(s) == s \div SlotsPerEpoch

\* A successful answer of GET /eth/v1/validator/duties/proposer/{epoch}
proposer_duties(e, view) ==
    {d \in Duty : epoch(d.slot) = e /\ d.pubkey = view[d.slot]}

\* The code takes the lock of the registrations anew for each duty.  It is one
\* step here: registrations only grow, so one that arrives in between leaves a
\* duty in or out as one just before or just after the whole filter would.
filter_duties(D) == {d \in D : is_registered(d.pubkey)}

TaskVars == <<mode, sync, syncEpoch, filtered>>

-----------------------------------------------------------------------------
(* The beacon node and the validator service.                              *)

\* A block becomes the head, always of a later slot (no reorganisation takes
\* the head back); a connected relay is sent a head event.
ChainAdvances(s) ==
    /\ chainHead < s /\ s <= chainHead + MaxSkip
    /\ chainHead' = s
    /\ IF mode = "sse"
       THEN /\ Len(wire) < MaxWire
            /\ wire' = Append(wire, [kind |-> "head", slot |-> s])
       ELSE UNCHANGED wire
    /\ UNCHANGED <<ViewVars, TaskVars>>

NodeSendsAttributes(r) ==
    /\ mode = "sse"
    /\ Len(wire) < MaxWire
    /\ wire' = Append(wire, [kind |-> "attributes", randao |-> r])
    /\ UNCHANGED <<ViewVars, TaskVars, chainHead>>

\* RegisterValidator stores a registration whose signature verified.
Register(v) ==
    /\ set_validator_registration(v)
    /\ UNCHANGED <<headSlot, payloadAttributes, proposerDuties, TaskVars,
                   chainHead, wire>>

-----------------------------------------------------------------------------
(* run and connect_sse                                                     *)

Connect ==
    /\ mode = "connect"
    /\ mode' = "sse"
    /\ UNCHANGED <<ViewVars, sync, syncEpoch, filtered, chainHead, wire>>

\* subscribe_events fails.
ConnectFails ==
    /\ mode = "connect"
    /\ mode' = "poll"
    /\ UNCHANGED <<ViewVars, sync, syncEpoch, filtered, chainHead, wire>>

\* An established stream errors or ends.  Every way out of connect_sse is Err,
\* so run() always goes on to polling_loop, which never returns; the Ok branch
\* that would reconnect is never taken.  What was in flight is lost.
StreamFails ==
    /\ mode = "sse"
    /\ sync = "idle"
    /\ mode' = "poll"
    /\ wire' = <<>>
    /\ UNCHANGED <<ViewVars, sync, syncEpoch, filtered, chainHead>>

\* The tail of handle_head_event and of polling_loop's body.
StartSync(s) ==
    /\ IF is_duty_refresh_slot(s)
       THEN sync' = "current" /\ syncEpoch' = epoch(s)
       ELSE UNCHANGED <<sync, syncEpoch>>
    /\ UNCHANGED filtered

Reading == mode = "sse" /\ sync = "idle" /\ wire # <<>>

\* Mutant of HandleHeadEvent: the newest event is handled first.
HandleLatestHeadFirst ==
    /\ Reading /\ wire[Len(wire)].kind = "head"
    /\ set_head_slot(wire[Len(wire)].slot)
    /\ StartSync(wire[Len(wire)].slot)
    /\ UNCHANGED mode
    /\ wire' = SubSeq(wire, 1, Len(wire) - 1)
    /\ UNCHANGED <<payloadAttributes, validatorRegistrations, proposerDuties,
                   chainHead>>

HandleHeadEvent ==
    /\ Reading /\ Head(wire).kind = "head"
    /\ set_head_slot(Head(wire).slot)
    /\ StartSync(Head(wire).slot)
    /\ UNCHANGED mode
    /\ wire' = Tail(wire)
    /\ UNCHANGED <<payloadAttributes, validatorRegistrations, proposerDuties,
                   chainHead>>

HandlePayloadAttributesEvent ==
    /\ Reading /\ Head(wire).kind = "attributes"
    /\ set_payload_attributes(Head(wire).randao)
    /\ wire' = Tail(wire)
    /\ UNCHANGED <<headSlot, validatorRegistrations, proposerDuties, TaskVars,
                   chainHead>>

\* Mutant of SkipEvent: a value that does not parse is stored.
SkipEventStoringIt ==
    /\ Reading
    /\ set_payload_attributes("unparsed")
    /\ wire' = Tail(wire)
    /\ UNCHANGED <<headSlot, validatorRegistrations, proposerDuties, TaskVars,
                   chainHead>>

\* A line whose type is unknown or whose data does not parse is skipped.
SkipEvent ==
    /\ Reading
    /\ wire' = Tail(wire)
    /\ UNCHANGED <<ViewVars, TaskVars, chainHead>>

-----------------------------------------------------------------------------
(* polling_loop: tick, fetch_head_slot, and what follows the answer.        *)

\* Mutant of PollHead: the head is stored at refresh slots only.
PollAtRefreshOnly ==
    /\ mode = "poll" /\ sync = "idle" /\ is_duty_refresh_slot(chainHead)
    /\ set_head_slot(chainHead)
    /\ StartSync(chainHead)
    /\ mode' = "sleep"
    /\ UNCHANGED <<payloadAttributes, validatorRegistrations, proposerDuties,
                   chainHead, wire>>

\* Mutant of PollHead: the slot to propose is stored, not the head.
PollNextSlot ==
    /\ mode = "poll" /\ sync = "idle"
    /\ set_head_slot(chainHead + 1)
    /\ StartSync(chainHead + 1)
    /\ mode' = "sleep"
    /\ UNCHANGED <<payloadAttributes, validatorRegistrations, proposerDuties,
                   chainHead, wire>>

PollHead ==
    /\ mode = "poll" /\ sync = "idle"
    /\ set_head_slot(chainHead)
    /\ StartSync(chainHead)
    /\ mode' = "sleep"
    /\ UNCHANGED <<payloadAttributes, validatorRegistrations, proposerDuties,
                   chainHead, wire>>

\* The error is logged; the loop goes on.
PollFails ==
    /\ mode = "poll" /\ sync = "idle"
    /\ mode' = "sleep"
    /\ UNCHANGED <<ViewVars, sync, syncEpoch, filtered, chainHead, wire>>

\* interval.tick, awaited only once a sync has ended.
Tick ==
    /\ mode = "sleep" /\ sync = "idle"
    /\ mode' = "poll"
    /\ UNCHANGED <<ViewVars, sync, syncEpoch, filtered, chainHead, wire>>

-----------------------------------------------------------------------------
(* sync_duties: two fetches, each awaited, then one store.                  *)

EndSync ==
    /\ sync' = "idle"
    /\ syncEpoch' = 0
    /\ filtered' = {}
    /\ UNCHANGED mode

Elsewhere ==
    UNCHANGED <<headSlot, payloadAttributes, validatorRegistrations,
                chainHead, wire>>

CurrentFetched ==
    /\ sync = "current"
    /\ filtered' = filter_duties(proposer_duties(syncEpoch, Proposer))
    /\ sync' = "next"
    /\ UNCHANGED <<mode, syncEpoch, proposerDuties>>
    /\ Elsewhere

\* Mutant of CurrentFails: a failed sync clears the duties.
CurrentFailsForgetting ==
    /\ sync = "current"
    /\ set_proposer_duties({})
    /\ EndSync
    /\ Elsewhere

\* The error is logged; the duties stored before stay.
CurrentFails ==
    /\ sync = "current"
    /\ UNCHANGED proposerDuties
    /\ EndSync
    /\ Elsewhere

\* Mutant of NextFetched: the second answer is not filtered.
NextFetchedUnfiltered(view) ==
    /\ sync = "next"
    /\ set_proposer_duties(filtered \cup proposer_duties(syncEpoch + 1, view))
    /\ EndSync
    /\ Elsewhere

\* Mutant of NextFetched: the same epoch is asked for twice.
NextFetchedSameEpoch(view) ==
    /\ sync = "next"
    /\ set_proposer_duties(
            filtered \cup filter_duties(proposer_duties(syncEpoch, view)))
    /\ EndSync
    /\ Elsewhere

NextFetched(view) ==
    /\ sync = "next"
    /\ set_proposer_duties(
            filtered \cup filter_duties(proposer_duties(syncEpoch + 1, view)))
    /\ EndSync
    /\ Elsewhere

\* Mutant of NextFails: the sync starts over.
NextFailsRetrying ==
    /\ sync = "next"
    /\ sync' = "current"
    /\ filtered' = {}
    /\ UNCHANGED <<mode, syncEpoch, proposerDuties>>
    /\ Elsewhere

\* Only the current epoch's duties are stored.
NextFails ==
    /\ sync = "next"
    /\ set_proposer_duties(filtered)
    /\ EndSync
    /\ Elsewhere

-----------------------------------------------------------------------------
ReadStream == HandleHeadEvent \/ HandlePayloadAttributesEvent \/ SkipEvent

NextAnswered == (\E view \in NextEpochViews : NextFetched(view)) \/ NextFails

RelayServiceNext ==
    \/ \E s \in ChainSlots : ChainAdvances(s)
    \/ \E r \in Randaos : NodeSendsAttributes(r)
    \/ \E v \in Validators : Register(v)
    \/ Connect
    \/ ConnectFails
    \/ StreamFails
    \/ ReadStream
    \/ PollHead
    \/ PollFails
    \/ Tick
    \/ CurrentFetched
    \/ CurrentFails
    \/ NextAnswered

RelayServiceSpec == RelayServiceInit /\ [][RelayServiceNext]_RelayServiceVars

\* The task is always polled again, and the node answers a request, with a
\* result or an error, in the end (the client itself sets no timeout).  Of the
\* polls of the head more is assumed, by strong fairness: a relay that polls
\* for ever is not answered with an error every time.
RelayServiceFairness ==
    /\ WF_RelayServiceVars(Connect \/ ConnectFails)
    /\ WF_RelayServiceVars(ReadStream)
    /\ WF_RelayServiceVars(PollHead \/ PollFails)
    /\ SF_RelayServiceVars(PollHead)
    /\ WF_RelayServiceVars(Tick)
    /\ WF_RelayServiceVars(CurrentFetched \/ CurrentFails)
    /\ WF_RelayServiceVars(NextAnswered)

FairRelayServiceSpec == RelayServiceSpec /\ RelayServiceFairness

-----------------------------------------------------------------------------
View == INSTANCE ChainView

\* The duties of two epochs, fetched one after the other with the second
\* answer provisional, never name two proposers for one slot: otherwise which
\* one find_duty_by_slot returns would depend on the order in the Vec.
DutiesUnambiguous == View!OneDutyPerSlot(proposerDuties)

\* A bid is only ever taken for a proposer that registered with the relay,
\* although the two halves of a sync are filtered at two different times.
DutiesRegistered == \A d \in proposerDuties : is_registered(d.pubkey)

\* An upcoming duty of the head's epoch, once known and final, survives every
\* later sync: failed fetches of either epoch and changed forecasts included.
UpcomingDutiesKept ==
    [][\A d \in proposerDuties :
        /\ d.slot > headSlot
        /\ epoch(d.slot) = epoch(headSlot)
        /\ d.pubkey = Proposer[d.slot]
        => d \in proposerDuties']_RelayServiceVars

\* The stored head never runs ahead of the node: what a stream that is read
\* late, a sync that blocks it and a change to polling store is never a slot
\* the chain has not reached, so no bid is taken for a slot too far ahead.
\* It rests on a node whose head never goes back: set_head_slot stores whatever
\* slot it is given, and an event of a head since abandoned would be ahead.
HeadNeverAhead == headSlot <= chainHead

\* The relay itself never sets the stored head back, although events are
\* handled long after they were sent and polling overtakes the ones in flight:
\* an auction that was closed by a later head is not opened again.  It assumes,
\* with ChainAdvances, that the node's head never goes back: the code stores
\* every slot unconditionally, so a reorganisation to a lower one would.
HeadOnlyRises == [][headSlot' >= headSlot]_RelayServiceVars

\* Whatever goes wrong with the node, the use cases see a ChainView.
ImplementsChainView == View!ChainViewSpec

\* No head event stays unread: a sync, whichever way its two fetches end, gives
\* the task back to the stream.
NoHeadEventStuck ==
    \A s \in ChainSlots :
        (\E i \in DOMAIN wire : wire[i] = [kind |-> "head", slot |-> s])
            ~> ~\E i \in DOMAIN wire : wire[i] = [kind |-> "head", slot |-> s]

\* Once polling, the stored head catches up with every head of the chain,
\* through failed polls and syncs in between, as long as the node does not
\* answer every poll with an error.
PollingCatchesUp ==
    \A s \in ChainSlots :
        mode \in {"poll", "sleep"} /\ chainHead = s ~> headSlot >= s

\* A relay that was connected and lost the stream connects again, as the Ok
\* branch of run() announces: "SSE disconnected, reconnecting in 5s...".
ReconnectsAfterDisconnect ==
    [](mode = "sse" => ([](mode = "sse") \/ <>(mode = "connect")))

============================================================================
