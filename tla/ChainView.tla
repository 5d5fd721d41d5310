----------------------------- MODULE ChainView -----------------------------
(***************************************************************************)
(* What the use cases may rely on about the stored view of the chain,      *)
(* whatever the beacon node, the network and the background task do: the   *)
(* head and the attributes take any value at any time, registrations are   *)
(* never forgotten, and a set of duties is replaced as a whole, by one     *)
(* that names at most one proposer per slot and only registered ones.      *)
(* RelayService implements it; Relay is checked against it.                *)
(***************************************************************************)
EXTENDS Storage

OneDutyPerSlot(D) ==
    \A d1, d2 \in D : d1.slot = d2.slot => d1 = d2

HeadUpdate(s) ==
    /\ set_head_slot(s)
    /\ UNCHANGED <<payloadAttributes, validatorRegistrations, proposerDuties>>

AttributesUpdate(r) ==
    /\ set_payload_attributes(r)
    /\ UNCHANGED <<headSlot, validatorRegistrations, proposerDuties>>

Registration(v) ==
    /\ set_validator_registration(v)
    /\ UNCHANGED <<headSlot, payloadAttributes, proposerDuties>>

DutiesUpdate(D) ==
    /\ OneDutyPerSlot(D)
    /\ \A d \in D : is_registered(d.pubkey)
    /\ set_proposer_duties(D)
    /\ UNCHANGED <<headSlot, payloadAttributes, validatorRegistrations>>

ChainViewNext ==
    \/ \E s \in ChainSlots : HeadUpdate(s)
    \/ \E r \in Randaos : AttributesUpdate(r)
    \/ \E v \in Validators : Registration(v)
    \/ \E D \in SUBSET Duty : DutiesUpdate(D)

ChainViewSpec == ViewInit /\ [][ChainViewNext]_ViewVars

============================================================================
