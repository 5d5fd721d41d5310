------------------------- MODULE RelayServiceProofs -------------------------
(***************************************************************************)
(* Proofs about RelayService: it implements ChainView, and the facts about *)
(* the stored duties that this rests on.                                   *)
(*                                                                         *)
(* The duties are stored one await after the current epoch's were filtered *)
(* and kept in a local, so the invariant is about that local: it names the *)
(* registered final proposers of the epoch of the head, and it has every   *)
(* stored duty that must survive.                                          *)
(***************************************************************************)
EXTENDS RelayService, TLAPS

\* A sync is for the head's epoch: no event is handled while it lasts.
SyncIsForHead == sync # "idle" => syncEpoch = epoch(headSlot)

\* The local of sync_duties between the two fetches.
FilteredIsFinal ==
    \A d \in filtered :
        /\ is_registered(d.pubkey)
        /\ epoch(d.slot) = syncEpoch
        /\ d.pubkey = Proposer[d.slot]

\* It has every stored final duty of its epoch.
FilteredKeeps ==
    sync = "next" =>
        \A d \in proposerDuties :
            epoch(d.slot) = syncEpoch /\ d.pubkey = Proposer[d.slot]
                => d \in filtered

\* The local exists between the two fetches only.
FilteredIsLocal == sync # "next" => filtered = {}

DutyInv ==
    /\ RelayServiceTypeOK
    /\ FilteredIsLocal
    /\ DutiesUnambiguous
    /\ DutiesRegistered
    /\ SyncIsForHead
    /\ FilteredIsFinal
    /\ FilteredKeeps

\* HeadSlot::epoch of a slot is a natural number.
LEMMA EpochType == ASSUME NEW s \in ChainSlots PROVE epoch(s) \in Nat
BY StorageAssumption, RelayServiceAssumption DEF epoch

\* The node's answer, filtered: duties of the epoch, of registered validators,
\* one per slot.
LEMMA FilterDuties ==
    ASSUME NEW e, NEW view
    PROVE  /\ filter_duties(proposer_duties(e, view)) \subseteq Duty
           /\ \A d \in filter_duties(proposer_duties(e, view)) :
                /\ is_registered(d.pubkey)
                /\ epoch(d.slot) = e
                /\ d.pubkey = view[d.slot]
BY DEF filter_duties, proposer_duties

\* Every step of the background task keeps the types.
LEMMA RelayServiceTypeStep ==
    ASSUME RelayServiceTypeOK, [RelayServiceNext]_RelayServiceVars
    PROVE  RelayServiceTypeOK'
<1> USE DEF RelayServiceTypeOK, ViewTypeOK, ViewVars, TaskVars
<1>1. ASSUME NEW s \in ChainSlots, ChainAdvances(s) PROVE RelayServiceTypeOK'
  BY <1>1 DEF ChainAdvances, Event
<1>2. ASSUME NEW r \in Randaos, NodeSendsAttributes(r)
      PROVE  RelayServiceTypeOK'
  BY <1>2 DEF NodeSendsAttributes, Event
<1>3. ASSUME NEW v \in Validators, Register(v) PROVE RelayServiceTypeOK'
  BY <1>3 DEF Register, set_validator_registration
<1>4. CASE Connect
  BY <1>4 DEF Connect
<1>5. CASE ConnectFails
  BY <1>5 DEF ConnectFails
<1>6. CASE StreamFails
  BY <1>6 DEF StreamFails
<1>7. CASE HandleHeadEvent
  <2>1. Head(wire) \in Event /\ Tail(wire) \in Seq(Event)
    BY <1>7 DEF HandleHeadEvent, Reading
  <2>2. Head(wire).slot \in ChainSlots
    BY <1>7, <2>1 DEF HandleHeadEvent, Event
  <2>3. QED
    BY <1>7, <2>1, <2>2, EpochType
       DEF HandleHeadEvent, StartSync, set_head_slot
<1>8. CASE HandlePayloadAttributesEvent
  <2>1. Head(wire) \in Event /\ Tail(wire) \in Seq(Event)
    BY <1>8 DEF HandlePayloadAttributesEvent, Reading
  <2>2. Head(wire).randao \in Randaos
    BY <1>8, <2>1 DEF HandlePayloadAttributesEvent, Event
  <2>3. QED
    BY <1>8, <2>1, <2>2
       DEF HandlePayloadAttributesEvent, set_payload_attributes
<1>9. CASE SkipEvent
  BY <1>9 DEF SkipEvent, Reading
<1>10. CASE PollHead
  BY <1>10, EpochType DEF PollHead, StartSync, set_head_slot
<1>p. CASE PollFails \/ Tick
  BY <1>p DEF PollFails, Tick
<1>11. CASE CurrentFetched
  BY <1>11, FilterDuties DEF CurrentFetched, Elsewhere
<1>12. CASE CurrentFails
  BY <1>12 DEF CurrentFails, EndSync, Elsewhere
<1>13. ASSUME NEW view \in NextEpochViews, NextFetched(view)
       PROVE  RelayServiceTypeOK'
  BY <1>13, FilterDuties
     DEF NextFetched, EndSync, Elsewhere, set_proposer_duties
<1>14. CASE NextFails
  BY <1>14 DEF NextFails, EndSync, Elsewhere, set_proposer_duties
<1>15. CASE UNCHANGED RelayServiceVars
  BY <1>15 DEF RelayServiceVars
<1>16. QED
  BY <1>1, <1>2, <1>3, <1>4, <1>5, <1>6, <1>7, <1>8, <1>9, <1>10, <1>11,
     <1>12, <1>13, <1>14, <1>15, <1>p
     DEF RelayServiceNext, ReadStream, NextAnswered

\* The background task's state is well typed in every behaviour.
THEOREM RelayServiceTypeCorrect == RelayServiceSpec => []RelayServiceTypeOK
<1>1. RelayServiceInit => RelayServiceTypeOK
  BY StorageAssumption
     DEF RelayServiceInit, ViewInit, RelayServiceTypeOK, ViewTypeOK
<1>2. RelayServiceTypeOK /\ [RelayServiceNext]_RelayServiceVars
          => RelayServiceTypeOK'
  BY RelayServiceTypeStep
<1>3. QED
  BY <1>1, <1>2, PTL DEF RelayServiceSpec

-----------------------------------------------------------------------------
\* The two halves of a sync together: one duty per slot, registered.
LEMMA UnionOfEpochs ==
    ASSUME DutyInv, NEW view \in NextEpochViews
    PROVE  LET D == filtered \cup filter_duties(
                                    proposer_duties(syncEpoch + 1, view))
           IN  /\ D \subseteq Duty
               /\ View!OneDutyPerSlot(D)
               /\ \A d \in D : is_registered(d.pubkey)
<1> DEFINE N == filter_duties(proposer_duties(syncEpoch + 1, view))
<1>1. /\ N \subseteq Duty
      /\ \A d \in N : /\ is_registered(d.pubkey)
                      /\ epoch(d.slot) = syncEpoch + 1
                      /\ d.pubkey = view[d.slot]
  BY FilterDuties
<1>2. /\ filtered \subseteq Duty
      /\ \A d \in filtered : /\ is_registered(d.pubkey)
                             /\ epoch(d.slot) = syncEpoch
                             /\ d.pubkey = Proposer[d.slot]
  BY DEF DutyInv, RelayServiceTypeOK, FilteredIsFinal
<1>3. syncEpoch # syncEpoch + 1
  BY DEF DutyInv, RelayServiceTypeOK
<1>4. ASSUME NEW d1 \in filtered \cup N, NEW d2 \in filtered \cup N,
             d1.slot = d2.slot
      PROVE  d1 = d2
  <2>1. d1.pubkey = d2.pubkey
    BY <1>1, <1>2, <1>3, <1>4
  <2>2. d1 \in Duty /\ d2 \in Duty
    BY <1>1, <1>2
  <2>3. QED
    BY <1>4, <2>1, <2>2 DEF Duty
<1>5. QED
  BY <1>1, <1>2, <1>4 DEF View!OneDutyPerSlot

\* The duties of one epoch, filtered, name one registered proposer per slot.
LEMMA FilteredAlone ==
    ASSUME DutyInv
    PROVE  /\ View!OneDutyPerSlot(filtered)
           /\ \A d \in filtered : is_registered(d.pubkey)
<1>1. ASSUME NEW d1 \in filtered, NEW d2 \in filtered, d1.slot = d2.slot
      PROVE  d1 = d2
  BY <1>1 DEF DutyInv, RelayServiceTypeOK, FilteredIsFinal, Duty
<1>2. QED
  BY <1>1 DEF DutyInv, FilteredIsFinal, View!OneDutyPerSlot

\* The actions that touch neither the duties nor a sync in progress.
LEMMA QuietStep ==
    ASSUME DutyInv, RelayServiceTypeOK',
           UNCHANGED <<proposerDuties, filtered>>,
           validatorRegistrations \subseteq validatorRegistrations',
           \/ UNCHANGED <<headSlot, sync, syncEpoch>>
           \/ /\ sync = "idle"
              /\ \/ UNCHANGED <<sync, syncEpoch>>
                 \/ sync' = "current" /\ syncEpoch' = epoch(headSlot')
    PROVE  DutyInv'
<1>1. DutiesUnambiguous' /\ DutiesRegistered'
  BY DEF DutyInv, DutiesUnambiguous, DutiesRegistered, View!OneDutyPerSlot,
         is_registered
<1>2. SyncIsForHead'
  BY DEF DutyInv, SyncIsForHead, epoch
<1>3. FilteredIsLocal' /\ FilteredIsFinal' /\ FilteredKeeps'
  BY DEF DutyInv, FilteredIsLocal, FilteredIsFinal, FilteredKeeps,
         is_registered, epoch
<1>4. QED
  BY <1>1, <1>2, <1>3 DEF DutyInv

\* One step of sync_duties.
LEMMA SyncStep ==
    ASSUME DutyInv, RelayServiceTypeOK',
           \/ CurrentFetched
           \/ CurrentFails
           \/ \E view \in NextEpochViews : NextFetched(view)
           \/ NextFails
    PROVE  DutyInv'
<1> USE DEF Elsewhere, EndSync, set_proposer_duties
<1>1. CASE CurrentFetched
  <2> USE <1>1 DEF CurrentFetched
  <2>1. DutiesUnambiguous' /\ DutiesRegistered'
    BY DEF DutyInv, DutiesUnambiguous, DutiesRegistered, View!OneDutyPerSlot,
           is_registered
  <2>2. SyncIsForHead' /\ FilteredIsLocal'
    BY DEF DutyInv, SyncIsForHead, FilteredIsLocal, epoch
  <2>3. FilteredIsFinal'
    BY FilterDuties DEF DutyInv, FilteredIsFinal, is_registered, epoch
  <2>4. FilteredKeeps'
    BY DEF DutyInv, RelayServiceTypeOK, ViewTypeOK, FilteredKeeps,
           DutiesRegistered, filter_duties, proposer_duties, is_registered,
           epoch
  <2>5. QED
    BY <2>1, <2>2, <2>3, <2>4 DEF DutyInv
<1>2. ASSUME sync' = "idle", filtered' = {},
             DutiesUnambiguous', DutiesRegistered'
      PROVE  DutyInv'
  BY <1>2
     DEF DutyInv, SyncIsForHead, FilteredIsLocal, FilteredIsFinal,
         FilteredKeeps
<1>3. CASE CurrentFails
  <2>1. DutiesUnambiguous' /\ DutiesRegistered'
    BY <1>3 DEF CurrentFails, DutyInv, DutiesUnambiguous, DutiesRegistered,
                View!OneDutyPerSlot, is_registered
  <2>2. QED
    BY <1>2, <1>3, <2>1 DEF CurrentFails
<1>4. ASSUME NEW view \in NextEpochViews, NextFetched(view) PROVE DutyInv'
  <2>1. DutiesUnambiguous' /\ DutiesRegistered'
    BY <1>4, UnionOfEpochs
       DEF NextFetched, DutiesUnambiguous, DutiesRegistered,
           View!OneDutyPerSlot, is_registered
  <2>2. QED
    BY <1>2, <1>4, <2>1 DEF NextFetched
<1>5. CASE NextFails
  <2>1. DutiesUnambiguous' /\ DutiesRegistered'
    BY <1>5, FilteredAlone
       DEF NextFails, DutiesUnambiguous, DutiesRegistered,
           View!OneDutyPerSlot, is_registered
  <2>2. QED
    BY <1>2, <1>5, <2>1 DEF NextFails
<1>6. QED
  BY <1>1, <1>3, <1>4, <1>5

\* Every step keeps the invariant on the duties, stored and half fetched.
LEMMA DutyInvStep ==
    ASSUME DutyInv, [RelayServiceNext]_RelayServiceVars
    PROVE  DutyInv'
<1> USE DEF ViewVars, TaskVars
<1>1. RelayServiceTypeOK'
  BY RelayServiceTypeStep DEF DutyInv
<1>2. ASSUME NEW s \in ChainSlots, ChainAdvances(s) PROVE DutyInv'
  BY <1>1, <1>2, QuietStep DEF ChainAdvances
<1>3. ASSUME NEW r \in Randaos, NodeSendsAttributes(r) PROVE DutyInv'
  BY <1>1, <1>3, QuietStep DEF NodeSendsAttributes
<1>4. ASSUME NEW v \in Validators, Register(v) PROVE DutyInv'
  BY <1>1, <1>4, QuietStep DEF Register, set_validator_registration
<1>5. CASE Connect \/ ConnectFails \/ StreamFails
  BY <1>1, <1>5, QuietStep DEF Connect, ConnectFails, StreamFails
<1>6. CASE HandleHeadEvent
  BY <1>1, <1>6, QuietStep
     DEF HandleHeadEvent, Reading, StartSync, set_head_slot
<1>7. CASE HandlePayloadAttributesEvent \/ SkipEvent
  BY <1>1, <1>7, QuietStep DEF HandlePayloadAttributesEvent, SkipEvent
<1>8. CASE PollHead
  BY <1>1, <1>8, QuietStep DEF PollHead, StartSync, set_head_slot
<1>p. CASE PollFails \/ Tick
  BY <1>1, <1>p, QuietStep DEF PollFails, Tick
<1>9. CASE UNCHANGED RelayServiceVars
  BY <1>1, <1>9, QuietStep DEF RelayServiceVars
<1>10. QED
  BY <1>1, <1>2, <1>3, <1>4, <1>5, <1>6, <1>7, <1>8, <1>p, <1>9, SyncStep
     DEF RelayServiceNext, ReadStream, NextAnswered

\* In every behaviour: the stored duties are unambiguous and of registered
\* validators, and the local of a sync in progress will keep them so.
THEOREM DutyInvariant == RelayServiceSpec => []DutyInv
<1>1. RelayServiceInit => DutyInv
  BY StorageAssumption
     DEF RelayServiceInit, ViewInit, DutyInv, RelayServiceTypeOK, ViewTypeOK,
         DutiesUnambiguous, DutiesRegistered, SyncIsForHead, FilteredIsLocal,
         FilteredIsFinal, FilteredKeeps, View!OneDutyPerSlot
<1>2. DutyInv /\ [RelayServiceNext]_RelayServiceVars => DutyInv'
  BY DutyInvStep
<1>3. QED
  BY <1>1, <1>2, PTL DEF RelayServiceSpec

\* find_duty_by_slot never has two duties to choose from.
THEOREM DutiesUnambiguousAlways == RelayServiceSpec => []DutiesUnambiguous
BY DutyInvariant, PTL DEF DutyInv

\* Every stored duty is of a registered validator.
THEOREM DutiesRegisteredAlways == RelayServiceSpec => []DutiesRegistered
BY DutyInvariant, PTL DEF DutyInv

-----------------------------------------------------------------------------
\* A known final duty still ahead in the head's epoch is in every later set.
THEOREM UpcomingDutiesKeptAlways == RelayServiceSpec => UpcomingDutiesKept
<1> DEFINE Kept == \A d \in proposerDuties :
        /\ d.slot > headSlot
        /\ epoch(d.slot) = epoch(headSlot)
        /\ d.pubkey = Proposer[d.slot]
        => d \in proposerDuties'
<1>1. ASSUME DutyInv, RelayServiceNext PROVE Kept
  <2>1. CASE UNCHANGED proposerDuties
    BY <2>1
  <2>2. CASE filtered \subseteq proposerDuties' /\ sync = "next"
    BY <1>1, <2>2 DEF DutyInv, FilteredKeeps, SyncIsForHead
  <2>3. QED
    BY <1>1, <2>1, <2>2
       DEF RelayServiceNext, ReadStream, NextAnswered, ChainAdvances,
           NodeSendsAttributes, Register, Connect, ConnectFails, StreamFails,
           HandleHeadEvent, HandlePayloadAttributesEvent, SkipEvent, PollHead,
           PollFails, Tick, CurrentFetched, CurrentFails, NextFetched, NextFails, ViewVars,
           set_proposer_duties
<1>2. DutyInv /\ [RelayServiceNext]_RelayServiceVars
          => [Kept]_RelayServiceVars
  BY <1>1
<1>3. QED
  BY <1>2, DutyInvariant, PTL DEF RelayServiceSpec, UpcomingDutiesKept

-----------------------------------------------------------------------------
\* The background task, whatever the node does, writes to the storage what a
\* ChainView may: the assumption under which the use cases are checked.
THEOREM RelayServiceImplementsChainView ==
    RelayServiceSpec => ImplementsChainView
<1>1. RelayServiceInit => View!ViewInit
  BY DEF RelayServiceInit, ViewInit, View!ViewInit
<1>2. ASSUME DutyInv, RelayServiceTypeOK', [RelayServiceNext]_RelayServiceVars
      PROVE  [View!ChainViewNext]_(View!ViewVars)
  <2> USE <1>2 DEF ViewVars, View!ViewVars
  <2>1. CASE UNCHANGED ViewVars
    BY <2>1
  <2>2. ASSUME NEW v \in Validators, Register(v) PROVE View!Registration(v)
    BY <2>2 DEF Register, set_validator_registration, View!Registration,
                View!set_validator_registration
  <2>3. CASE HandleHeadEvent \/ PollHead
    <3>1. headSlot' \in ChainSlots
      BY DEF RelayServiceTypeOK, ViewTypeOK
    <3>2. View!HeadUpdate(headSlot')
      BY <2>3 DEF HandleHeadEvent, PollHead, View!HeadUpdate,
                  View!set_head_slot
    <3>3. QED
      BY <3>1, <3>2 DEF View!ChainViewNext
  <2>4. CASE HandlePayloadAttributesEvent
    <3>1. payloadAttributes' \in Randaos
      BY DEF RelayServiceTypeOK, ViewTypeOK
    <3>2. View!AttributesUpdate(payloadAttributes')
      BY <2>4 DEF HandlePayloadAttributesEvent, View!AttributesUpdate,
                  View!set_payload_attributes
    <3>3. QED
      BY <3>1, <3>2 DEF View!ChainViewNext
  <2>5. CASE NextAnswered
    <3>1. proposerDuties' \in SUBSET View!Duty
      BY DEF RelayServiceTypeOK, ViewTypeOK, Duty, View!Duty
    <3>2. /\ View!OneDutyPerSlot(proposerDuties')
          /\ \A d \in proposerDuties' : is_registered(d.pubkey)
      BY <2>5, UnionOfEpochs, FilteredAlone
         DEF NextAnswered, NextFetched, NextFails, set_proposer_duties
    <3>3. View!DutiesUpdate(proposerDuties')
      BY <2>5, <3>2
         DEF NextAnswered, NextFetched, NextFails, Elsewhere,
             View!DutiesUpdate, View!set_proposer_duties, is_registered,
             View!is_registered
    <3>4. QED
      BY <3>1, <3>3 DEF View!ChainViewNext
  <2>6. ASSUME \/ \E s \in ChainSlots : ChainAdvances(s)
               \/ \E r \in Randaos : NodeSendsAttributes(r)
               \/ Connect \/ ConnectFails \/ StreamFails \/ SkipEvent
               \/ PollFails \/ Tick \/ CurrentFetched \/ CurrentFails
        PROVE  UNCHANGED ViewVars
    BY <2>6 DEF ChainAdvances, NodeSendsAttributes, Connect, ConnectFails,
                StreamFails, SkipEvent, PollFails, Tick, CurrentFetched,
                CurrentFails, Elsewhere
  <2>7. CASE UNCHANGED RelayServiceVars
    BY <2>1, <2>7 DEF RelayServiceVars
  <2>8. CASE \E v \in Validators : Register(v)
    BY <2>2, <2>8 DEF View!ChainViewNext
  <2>9. QED
    BY <2>1, <2>3, <2>4, <2>5, <2>6, <2>7, <2>8
       DEF RelayServiceNext, ReadStream
<1>3. DutyInv => RelayServiceTypeOK
  BY DEF DutyInv
<1>4. QED
  BY <1>1, <1>2, <1>3, DutyInvariant, PTL
     DEF RelayServiceSpec, ImplementsChainView, View!ChainViewSpec

-----------------------------------------------------------------------------
\* The head events in flight lie between the stored head and the node's, in
\* the order of their slots.
WireBetween ==
    \A i \in 1 .. Len(wire) : wire[i].kind = "head" =>
        headSlot <= wire[i].slot /\ wire[i].slot <= chainHead

WireOrdered ==
    \A i, j \in 1 .. Len(wire) :
        i < j /\ wire[i].kind = "head" /\ wire[j].kind = "head"
            => wire[i].slot <= wire[j].slot

HeadInv == RelayServiceTypeOK /\ HeadNeverAhead /\ WireBetween /\ WireOrdered

\* Reading one event off the stream, and applying it or not.
LEMMA TailKeepsOrder ==
    ASSUME HeadInv, RelayServiceTypeOK', wire # <<>>, wire' = Tail(wire),
           chainHead' = chainHead,
           \/ headSlot' = headSlot
           \/ wire[1].kind = "head" /\ headSlot' = wire[1].slot
    PROVE  HeadInv' /\ headSlot' >= headSlot
<1> USE StorageAssumption DEF HeadInv, RelayServiceTypeOK, ViewTypeOK
<1>1. /\ Len(wire) \in Nat \ {0}
      /\ Len(Tail(wire)) = Len(wire) - 1
      /\ \A i \in 1 .. Len(Tail(wire)) : Tail(wire)[i] = wire[i + 1]
  OBVIOUS
<1>2. headSlot' >= headSlot /\ HeadNeverAhead'
  BY <1>1 DEF WireBetween, HeadNeverAhead
<1>3. WireOrdered'
  BY <1>1 DEF WireOrdered
<1>4. ASSUME NEW i \in 1 .. Len(wire'), wire'[i].kind = "head"
      PROVE  headSlot' <= wire'[i].slot /\ wire'[i].slot <= chainHead'
  BY <1>1, <1>4 DEF WireBetween, WireOrdered
<1>5. QED
  BY <1>2, <1>3, <1>4 DEF WireBetween

\* A new head is announced behind the events in flight.
LEMMA AppendKeepsOrder ==
    ASSUME HeadInv, RelayServiceTypeOK', NEW e \in Event,
           wire' = Append(wire, e), headSlot' = headSlot,
           chainHead' >= chainHead,
           e.kind = "head" => e.slot = chainHead'
    PROVE  HeadInv'
<1> USE StorageAssumption DEF HeadInv, RelayServiceTypeOK, ViewTypeOK
<1>1. /\ Len(wire) \in Nat
      /\ Len(wire') = Len(wire) + 1
      /\ wire'[Len(wire) + 1] = e
      /\ \A i \in 1 .. Len(wire) : wire'[i] = wire[i]
  OBVIOUS
<1>2. HeadNeverAhead'
  BY DEF HeadNeverAhead
<1>3. ASSUME NEW i \in 1 .. Len(wire'), wire'[i].kind = "head"
      PROVE  headSlot' <= wire'[i].slot /\ wire'[i].slot <= chainHead'
  <2>1. CASE i = Len(wire) + 1
    BY <1>1, <1>2, <1>3, <2>1 DEF HeadNeverAhead
  <2>2. CASE i \in 1 .. Len(wire)
    <3>1. wire[i] \in Event /\ wire[i].kind = "head"
      BY <1>1, <1>3, <2>2
    <3>2. wire[i].slot \in Nat
      BY <3>1 DEF Event
    <3>3. QED
      BY <1>1, <2>2, <3>1, <3>2 DEF WireBetween
  <2>3. QED
    BY <1>1, <2>1, <2>2
<1>4. ASSUME NEW i \in 1 .. Len(wire'), NEW j \in 1 .. Len(wire'), i < j,
             wire'[i].kind = "head", wire'[j].kind = "head"
      PROVE  wire'[i].slot <= wire'[j].slot
  <2>1. CASE j = Len(wire) + 1
    BY <1>1, <1>3, <1>4, <2>1
  <2>2. CASE j \in 1 .. Len(wire)
    BY <1>1, <1>4, <2>2 DEF WireOrdered
  <2>3. QED
    BY <1>1, <2>1, <2>2
<1>5. QED
  BY <1>2, <1>3, <1>4 DEF WireBetween, WireOrdered

\* Steps that leave the stream alone and do not take the head past the node's.
LEMMA SameWire ==
    ASSUME HeadInv, RelayServiceTypeOK',
           \/ wire' = <<>>
           \/ wire' = wire /\ headSlot' = headSlot,
           chainHead' >= chainHead,
           headSlot' = headSlot \/ headSlot' = chainHead
    PROVE  HeadInv' /\ headSlot' >= headSlot
<1> USE StorageAssumption DEF HeadInv, RelayServiceTypeOK, ViewTypeOK
<1>1. headSlot' >= headSlot /\ HeadNeverAhead'
  BY DEF HeadNeverAhead
<1>2. CASE wire' = <<>>
  BY <1>1, <1>2 DEF WireBetween, WireOrdered
<1>3. CASE wire' = wire /\ headSlot' = headSlot
  <2>1. ASSUME NEW i \in 1 .. Len(wire), wire[i].kind = "head"
        PROVE  headSlot' <= wire[i].slot /\ wire[i].slot <= chainHead'
    <3>1. wire[i] \in Event
      OBVIOUS
    <3>2. wire[i].slot \in Nat
      BY <2>1, <3>1 DEF Event
    <3>3. QED
      BY <1>3, <2>1, <3>2 DEF WireBetween
  <2>2. QED
    BY <1>1, <1>3, <2>1 DEF WireBetween, WireOrdered
<1>4. QED
  BY <1>1, <1>2, <1>3

\* Only a connected relay has events in flight.
WireOnlyWhenConnected == mode # "sse" => wire = <<>>

\* Every step keeps the order of stored head, events in flight and chain head.
LEMMA HeadInvStep ==
    ASSUME HeadInv, WireOnlyWhenConnected,
           [RelayServiceNext]_RelayServiceVars
    PROVE  HeadInv' /\ WireOnlyWhenConnected' /\ headSlot' >= headSlot
<1> USE StorageAssumption DEF ViewVars, TaskVars, WireOnlyWhenConnected
<1>1. RelayServiceTypeOK'
  BY RelayServiceTypeStep DEF HeadInv
<1>t. /\ headSlot \in Nat /\ chainHead \in Nat
      /\ headSlot >= headSlot /\ chainHead >= chainHead
  BY DEF HeadInv, RelayServiceTypeOK, ViewTypeOK
<1>2. ASSUME NEW s \in ChainSlots, ChainAdvances(s)
      PROVE  HeadInv' /\ WireOnlyWhenConnected' /\ headSlot' >= headSlot
  <2>1. chainHead' >= chainHead /\ headSlot' = headSlot
    BY <1>2, <1>t DEF ChainAdvances
  <2>2. [kind |-> "head", slot |-> s] \in Event
    BY DEF Event
  <2>3. CASE mode = "sse"
    <3>1. wire' = Append(wire, [kind |-> "head", slot |-> s])
      BY <1>2, <2>3 DEF ChainAdvances
    <3>2. HeadInv'
      BY <1>1, <1>2, <2>1, <2>2, <3>1, AppendKeepsOrder DEF ChainAdvances
    <3>3. QED
      BY <1>2, <1>t, <2>1, <2>3, <3>2 DEF ChainAdvances
  <2>4. CASE mode # "sse"
    BY <1>1, <1>2, <2>1, <2>4, SameWire DEF ChainAdvances
  <2>5. QED
    BY <2>3, <2>4
<1>3. ASSUME NEW r \in Randaos, NodeSendsAttributes(r)
      PROVE  HeadInv' /\ WireOnlyWhenConnected' /\ headSlot' >= headSlot
  <2>1. [kind |-> "attributes", randao |-> r] \in Event
    BY DEF Event
  <2>2. HeadInv'
    BY <1>1, <1>3, <1>t, <2>1, AppendKeepsOrder DEF NodeSendsAttributes
  <2>3. QED
    BY <1>3, <1>t, <2>2 DEF NodeSendsAttributes
<1>4. CASE HandleHeadEvent \/ HandlePayloadAttributesEvent \/ SkipEvent
  BY <1>1, <1>4, TailKeepsOrder
     DEF HandleHeadEvent, HandlePayloadAttributesEvent, SkipEvent, Reading,
         StartSync, set_head_slot
<1>5. CASE PollHead
  BY <1>1, <1>5, <1>t, SameWire DEF PollHead, StartSync, set_head_slot
<1>6. CASE UNCHANGED <<headSlot, wire, chainHead, mode>>
  BY <1>1, <1>6, <1>t, SameWire
<1>7. CASE Connect \/ ConnectFails \/ StreamFails
  BY <1>1, <1>7, <1>t, SameWire DEF Connect, ConnectFails, StreamFails
<1>p. CASE PollFails \/ Tick
  BY <1>1, <1>p, <1>t, SameWire DEF PollFails, Tick
<1>8. QED
  BY <1>2, <1>3, <1>4, <1>5, <1>6, <1>7, <1>p
     DEF RelayServiceNext, ReadStream, NextAnswered, RelayServiceVars,
         Register, CurrentFetched, CurrentFails, NextFetched, NextFails,
         EndSync, Elsewhere

\* The head in flight, polled or stored is never past the node's.
THEOREM HeadInvariant ==
    RelayServiceSpec => [](HeadInv /\ WireOnlyWhenConnected)
<1>1. RelayServiceInit => HeadInv /\ WireOnlyWhenConnected
  BY StorageAssumption
     DEF RelayServiceInit, ViewInit, HeadInv, RelayServiceTypeOK, ViewTypeOK,
         HeadNeverAhead, WireBetween, WireOrdered, WireOnlyWhenConnected
<1>2. /\ HeadInv /\ WireOnlyWhenConnected
      /\ [RelayServiceNext]_RelayServiceVars
      => (HeadInv /\ WireOnlyWhenConnected)'
  BY HeadInvStep
<1>3. QED
  BY <1>1, <1>2, PTL DEF RelayServiceSpec

\* The stored head never runs ahead of the chain, whatever is still in flight.
THEOREM HeadNeverAheadAlways == RelayServiceSpec => []HeadNeverAhead
<1>1. HeadInv => HeadNeverAhead
  BY DEF HeadInv
<1>2. QED
  BY <1>1, HeadInvariant, PTL

\* The stored head is never set back, on the stream, on polling, or between.
THEOREM HeadOnlyRisesAlways == RelayServiceSpec => HeadOnlyRises
<1>1. /\ HeadInv /\ WireOnlyWhenConnected
      /\ [RelayServiceNext]_RelayServiceVars
      => [headSlot' >= headSlot]_RelayServiceVars
  BY HeadInvStep
<1>2. QED
  BY <1>1, HeadInvariant, PTL DEF RelayServiceSpec, HeadOnlyRises

============================================================================
