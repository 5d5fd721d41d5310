------------------------------ MODULE Storage ------------------------------
(***************************************************************************)
(* The part of MemoryStorage (crates/datastore/src/storage/memory) that    *)
(* holds the relay's view of the beacon chain.  Every method takes the     *)
(* RwLock for itself alone, so one method is one atomic step and two       *)
(* methods called in a row are two.  The payloads kept for the proposers   *)
(* and the whitelist are used by the use cases only: see Relay.            *)
(*                                                                         *)
(* proposer_duties is a Vec searched for the first duty of a slot; it is a *)
(* set here, which is the same thing as long as a slot has one duty        *)
(* (DutiesUnambiguous in RelayService, proved in RelayServiceProofs).      *)
(***************************************************************************)
EXTENDS Naturals

CONSTANTS
    ChainSlots,      \* slots of the beacon chain
    Validators,      \* BLS public keys of the validators
    Randaos,         \* values of prev_randao
    DefaultRandao    \* B256::default(), stored before the first event

ASSUME StorageAssumption ==
    /\ ChainSlots \subseteq Nat
    /\ 0 \in ChainSlots
    /\ DefaultRandao \in Randaos

VARIABLES
    headSlot,                \* head_slot
    payloadAttributes,       \* payload_attributes: its prev_randao
    validatorRegistrations,  \* keys of validator_registrations
    proposerDuties           \* proposer_duties

ViewVars ==
    <<headSlot, payloadAttributes, validatorRegistrations, proposerDuties>>

\* ProposerDuty; the validator's index stands for its public key.
Duty == [slot : ChainSlots, pubkey : Validators]

ViewTypeOK ==
    /\ headSlot \in ChainSlots
    /\ payloadAttributes \in Randaos
    /\ validatorRegistrations \subseteq Validators
    /\ proposerDuties \subseteq Duty

\* MemoryStorage::new
ViewInit ==
    /\ headSlot = 0
    /\ payloadAttributes = DefaultRandao
    /\ validatorRegistrations = {}
    /\ proposerDuties = {}

set_head_slot(s) == headSlot' = s

set_payload_attributes(r) == payloadAttributes' = r

set_validator_registration(v) ==
    validatorRegistrations' = validatorRegistrations \cup {v}

set_proposer_duties(D) == proposerDuties' = D

\* read_validator_registration(v).is_some()
is_registered(v) == v \in validatorRegistrations

\* find_duty_by_slot(s): empty for None
find_duty_by_slot(s) == {d \in proposerDuties : d.slot = s}

\* HeadSlot::is_next_slot
is_next_slot(s) == headSlot + 1 = s

============================================================================
