------------------------------ MODULE Encoding ------------------------------
(***************************************************************************)
(* What the conversions are checked against: the types of the messages     *)
(* (crates/api/src/proto), the types of the entities (crates/entity), and  *)
(* the encoding of an entity as a client does it.                          *)
(***************************************************************************)
EXTENDS Conversion

(* Messages: any values of the generated types.                            *)

IsBytes(b) == b = Bytes(b.len, b.val) /\ b.len \in Nat

IsList(list) ==
    /\ list = List(list.len, list.items) /\ list.len \in Nat
    /\ DOMAIN list.items \subseteq Nat

BidTraceMessage(t) ==
    /\ t = [slot |-> t.slot, gas_limit |-> t.gas_limit, gas_used |-> t.gas_used,
            parent_hash |-> t.parent_hash, block_hash |-> t.block_hash,
            builder_pubkey |-> t.builder_pubkey,
            proposer_pubkey |-> t.proposer_pubkey,
            proposer_fee_recipient |-> t.proposer_fee_recipient,
            value |-> t.value]
    /\ IsBytes(t.parent_hash) /\ IsBytes(t.block_hash)
    /\ IsBytes(t.builder_pubkey) /\ IsBytes(t.proposer_pubkey)
    /\ IsBytes(t.proposer_fee_recipient)

ExecutionPayloadMessage(p) ==
    /\ p = [parent_hash |-> p.parent_hash, fee_recipient |-> p.fee_recipient,
            state_root |-> p.state_root, receipts_root |-> p.receipts_root,
            logs_bloom |-> p.logs_bloom, prev_randao |-> p.prev_randao,
            numbers |-> p.numbers, extra_data |-> p.extra_data,
            base_fee_per_gas |-> p.base_fee_per_gas,
            block_hash |-> p.block_hash, transactions |-> p.transactions,
            withdrawals |-> p.withdrawals]
    /\ IsBytes(p.parent_hash) /\ IsBytes(p.fee_recipient)
    /\ IsBytes(p.state_root) /\ IsBytes(p.receipts_root)
    /\ IsBytes(p.logs_bloom) /\ IsBytes(p.prev_randao)
    /\ IsBytes(p.extra_data) /\ IsBytes(p.base_fee_per_gas)
    /\ IsBytes(p.block_hash)
    /\ IsList(p.transactions) /\ IsList(p.withdrawals)

BlobsBundleMessage(b) ==
    IsList(b.commitments) /\ IsList(b.proofs) /\ IsList(b.blobs)

BidRequestMessage(req) ==
    /\ req = [bid_trace |-> req.bid_trace,
              execution_payload |-> req.execution_payload,
              blobs_bundle |-> req.blobs_bundle, signature |-> req.signature]
    /\ req.bid_trace # Missing => BidTraceMessage(req.bid_trace)
    /\ req.execution_payload # Missing =>
            ExecutionPayloadMessage(req.execution_payload)
    /\ req.blobs_bundle # Missing => BlobsBundleMessage(req.blobs_bundle)
    /\ IsBytes(req.signature)

RetrieveRequestMessage(r) ==
    /\ r = [slot |-> r.slot, parent_hash |-> r.parent_hash,
            proposer_pubkey |-> r.proposer_pubkey]
    /\ IsBytes(r.parent_hash) /\ IsBytes(r.proposer_pubkey)

SubmitBlindedBlockMessage(r) ==
    /\ r = [slot |-> r.slot, proposer_index |-> r.proposer_index,
            block_hash |-> r.block_hash, signature |-> r.signature]
    /\ IsBytes(r.block_hash) /\ IsBytes(r.signature)

\* A point of the curve is the signature of somebody under something.
RegistrationMessage(s) ==
    /\ s = [message |-> s.message, signature |-> s.signature]
    /\ IsBytes(s.signature)
    /\ s.signature.val # NotAPoint =>
        s.signature.val = [key |-> s.signature.val.key,
                           root |-> s.signature.val.root]
    /\ s.message # Missing =>
        LET m == s.message IN
        /\ m = [fee_recipient |-> m.fee_recipient, gas_limit |-> m.gas_limit,
                timestamp |-> m.timestamp, pubkey |-> m.pubkey]
        /\ IsBytes(m.fee_recipient) /\ IsBytes(m.pubkey)

-----------------------------------------------------------------------------
(* Entities: what their types let exist.                                   *)

BidTrace(t) ==
    /\ {t.builder_pubkey, t.proposer_pubkey} \subseteq Keys
    /\ t.value # NotANumber

ExecutionPayload(p) ==
    /\ p.extra_data.len <= 32
    /\ p.transactions.len <= 2 ^ 20
    /\ \A i \in DOMAIN p.transactions.items : p.transactions.items[i].len <= 2 ^ 30
    /\ p.withdrawals.len <= 16
    /\ \A i \in DOMAIN p.withdrawals.items : p.withdrawals.items[i].address.len = 20

BlobsBundle(b) ==
    /\ \A i \in DOMAIN b.commitments.items : b.commitments.items[i].len = 48
    /\ \A i \in DOMAIN b.proofs.items : b.proofs.items[i].len = 48
    /\ \A i \in DOMAIN b.blobs.items : b.blobs.items[i].len = BytesPerBlob

BidSubmission(b) ==
    /\ BidTrace(b.message)
    /\ ExecutionPayload(b.execution_payload)
    /\ BlobsBundle(b.blobs_bundle)
    /\ b.signature # NotAPoint

SignedValidatorRegistration(e) ==
    /\ e.message = [fee_recipient |-> e.message.fee_recipient,
                    gas_limit |-> e.message.gas_limit,
                    timestamp |-> e.message.timestamp,
                    pubkey |-> e.message.pubkey]
    /\ e.message.pubkey \in Keys
    /\ e.signature # NotAPoint

-----------------------------------------------------------------------------
(* The encodings.                                                          *)

EncodeTrace(t) ==
    [slot |-> t.slot, gas_limit |-> t.gas_limit, gas_used |-> t.gas_used,
     parent_hash |-> Bytes(32, t.parent_hash),
     block_hash |-> Bytes(32, t.block_hash),
     builder_pubkey |-> Bytes(48, t.builder_pubkey),
     proposer_pubkey |-> Bytes(48, t.proposer_pubkey),
     proposer_fee_recipient |-> Bytes(20, t.proposer_fee_recipient),
     value |-> t.value]

EncodePayload(p) ==
    [parent_hash |-> Bytes(32, p.parent_hash),
     fee_recipient |-> Bytes(20, p.fee_recipient),
     state_root |-> Bytes(32, p.state_root),
     receipts_root |-> Bytes(32, p.receipts_root),
     logs_bloom |-> Bytes(256, p.logs_bloom),
     prev_randao |-> Bytes(32, p.prev_randao),
     numbers |-> p.numbers, extra_data |-> p.extra_data,
     base_fee_per_gas |-> Bytes(32, p.base_fee_per_gas),
     block_hash |-> Bytes(32, p.block_hash),
     transactions |-> p.transactions, withdrawals |-> p.withdrawals]

EncodeRegistration(m, sig) ==
    [message |-> [fee_recipient |-> Bytes(20, m.fee_recipient),
                  gas_limit |-> m.gas_limit, timestamp |-> m.timestamp,
                  pubkey |-> Bytes(48, m.pubkey)],
     signature |-> Bytes(96, sig)]

EncodeBid(b) ==
    [bid_trace |-> EncodeTrace(b.message),
     execution_payload |-> EncodePayload(b.execution_payload),
     blobs_bundle |-> b.blobs_bundle,
     signature |-> Bytes(96, b.signature)]

EncodeRetrieve(r) ==
    [slot |-> r.slot, parent_hash |-> Bytes(32, r.parent_hash),
     proposer_pubkey |-> Bytes(48, r.proposer_pubkey)]

EncodeSubmit(r) ==
    [slot |-> r.slot, proposer_index |-> r.proposer_index,
     block_hash |-> Bytes(32, r.block_hash),
     signature |-> Bytes(96, r.signature)]

\* The one message among several that stand for the same bid: no blobs, or a
\* base fee without its leading zeros.
NormalBid(m) ==
    IF Missing \in {m.execution_payload, m.bid_trace} THEN m
    ELSE [m EXCEPT !.blobs_bundle = IF @ = Missing THEN NoBlobs ELSE @,
                   !.execution_payload.base_fee_per_gas.len =
                        IF @ <= 32 THEN 32 ELSE @]

=============================================================================
