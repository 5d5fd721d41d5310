------------------------------ MODULE Domains ------------------------------
(***************************************************************************)
(* Signing domains and signatures (crates/crypto).  A tree-hash root is    *)
(* taken to be injective: a root is the record of what was hashed, so two  *)
(* domains are equal exactly if domain type, fork version and genesis      *)
(* validators root are.  A signature is the record of the key that made it *)
(* and of the signing root; a key is a model value, its own public key.    *)
(***************************************************************************)
EXTENDS Naturals

CONSTANTS
    ZeroRoot      \* Hash256::default()

\* ForkData, the pair that is hashed into a domain.
ForkData(current_version, genesis_validators_root) ==
    [version |-> current_version, root |-> genesis_validators_root]

\* ForkDatas::new
ForkDatas(builder, proposer) == [builder |-> builder, proposer |-> proposer]

\* Mutant of from_genesis_and_current_version: builders sign for the current
\* fork.
from_current_version(genesis_version, current_version, root) ==
    ForkDatas(ForkData(current_version, ZeroRoot),
              ForkData(current_version, root))

\* The configured fork data: builders sign for the genesis fork of whatever
\* chain, proposers for the current fork of this one.
from_genesis_and_current_version(genesis_version, current_version, root) ==
    ForkDatas(ForkData(genesis_version, ZeroRoot),
              ForkData(current_version, root))

BuilderDomain == <<0, 0, 0, 1>>
ProposerDomain == <<0, 0, 0, 0>>

compute_builder_domain(fork_datas) ==
    [type |-> BuilderDomain, fork |-> fork_datas.builder]

compute_proposer_domain(fork_datas) ==
    [type |-> ProposerDomain, fork |-> fork_datas.proposer]

\* SigningData: what is signed is the object's root together with the domain.
signing_root(object, domain) == [object |-> object, domain |-> domain]

sign(key, root) == [key |-> key, root |-> root]

verify(signature, pubkey, root) ==
    /\ signature.key = pubkey
    /\ signature.root = root

\* SignedValidatorRegistration::verify_signature and
\* BidTrace::verify_signature: the key is one of the message's own fields.
verify_signature(message, pubkey, signature, domain) ==
    verify(signature, pubkey, signing_root(message, domain))

============================================================================
