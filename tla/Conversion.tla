----------------------------- MODULE Conversion -----------------------------
(***************************************************************************)
(* From protocol messages to entities (crates/api/src/conversion.rs).  A   *)
(* bytes field of a message is a record of its length and of what it       *)
(* stands for; a repeated field is a record of its length and of the       *)
(* different items in it; Missing is an absent message field.  A           *)
(* conversion returns Ok(entity) or the first error in the order in which  *)
(* the code evaluates the fields.                                          *)
(***************************************************************************)
EXTENDS Naturals, Sequences

CONSTANTS
    Keys,         \* the valid BLS keys
    NotAPoint,    \* bytes of the right length that are no point of the curve
    NotANumber    \* text that does not parse as a U256

Ok(v) == [ok |-> v]
Err(e) == [err |-> e]
IsErr(r) == "err" \in DOMAIN r

\* The errors; the last one is not an error of the conversion but a panic.
ConversionError == {"Hash", "Address", "BlsPublicKey", "BlsSignature", "U256",
    "FixedVector", "VariableList", "MissingField", "Bytes48", "Blob", "panic"}

Missing == [absent |-> TRUE]
Bytes(n, v) == [len |-> n, val |-> v]
List(n, items) == [len |-> n, items |-> items]

\* The ? operator over a row of fallible fields: the first error wins.
Try(results, value) ==
    LET errors == {i \in DOMAIN results : IsErr(results[i])} IN
    IF errors = {} THEN Ok(value)
    ELSE results[CHOOSE i \in errors : \A j \in errors : i <= j]

\* .map(convert).collect::<Result<Vec<_>, _>>()
Collect(convert(_), list) ==
    Try([i \in DOMAIN list.items |-> convert(list.items[i])], list)

\* Mutant of bytes_to_b256: a longer field is cut.
bytes_to_b256_cut(b) == IF b.len >= 32 THEN Ok(b.val) ELSE Err("Hash")

BytesPerBlob == 131072

bytes_to_b256(b) == IF b.len = 32 THEN Ok(b.val) ELSE Err("Hash")
bytes_to_address(b) == IF b.len = 20 THEN Ok(b.val) ELSE Err("Address")
bytes_to_bytes48(b) == IF b.len = 48 THEN Ok(b.val) ELSE Err("Bytes48")
bytes_to_blob(b) == IF b.len = BytesPerBlob THEN Ok(b.val) ELSE Err("Blob")

\* BlsPublicKey::deserialize: the length, then key_validate.
public_key(b) ==
    IF b.len = 48 /\ b.val \in Keys THEN Ok(b.val) ELSE Err("BlsPublicKey")

\* BlsSignature::deserialize
signature(b) ==
    IF b.len = 96 /\ b.val # NotAPoint THEN Ok(b.val) ELSE Err("BlsSignature")

\* U256::from_str
u256_from_str(s) == IF s = NotANumber THEN Err("U256") ELSE Ok(s)

\* ruint: from_be_slice panics on more bytes than the number has.
u256_from_be_slice(b) == IF b.len <= 32 THEN Ok(b.val) ELSE Err("panic")

\* ssz_types: a fixed vector has its length, a variable list at most its limit.
FixedVector(b, n) == IF b.len = n THEN Ok(b.val) ELSE Err("FixedVector")
VariableList(b, limit) == IF b.len <= limit THEN Ok(b) ELSE Err("VariableList")

-----------------------------------------------------------------------------
BidTraceFrom(t) ==
    Try(<<bytes_to_b256(t.parent_hash),
          bytes_to_b256(t.block_hash),
          public_key(t.builder_pubkey),
          public_key(t.proposer_pubkey),
          bytes_to_address(t.proposer_fee_recipient),
          u256_from_str(t.value)>>,
        [slot |-> t.slot,
         parent_hash |-> t.parent_hash.val,
         block_hash |-> t.block_hash.val,
         builder_pubkey |-> t.builder_pubkey.val,
         proposer_pubkey |-> t.proposer_pubkey.val,
         proposer_fee_recipient |-> t.proposer_fee_recipient.val,
         gas_limit |-> t.gas_limit, gas_used |-> t.gas_used,
         value |-> t.value])

WithdrawalFrom(w) == Try(<<bytes_to_address(w.address)>>, w)

TransactionFrom(tx) == VariableList(tx, 2 ^ 30)

ExecutionPayloadFrom(p) ==
    Try(<<bytes_to_b256(p.parent_hash),
          bytes_to_address(p.fee_recipient),
          bytes_to_b256(p.state_root),
          bytes_to_b256(p.receipts_root),
          FixedVector(p.logs_bloom, 256),
          bytes_to_b256(p.prev_randao),
          VariableList(p.extra_data, 32),
          u256_from_be_slice(p.base_fee_per_gas),
          bytes_to_b256(p.block_hash),
          Collect(TransactionFrom, p.transactions),
          VariableList(p.transactions, 2 ^ 20),
          Collect(WithdrawalFrom, p.withdrawals),
          VariableList(p.withdrawals, 16)>>,
        [parent_hash |-> p.parent_hash.val,
         fee_recipient |-> p.fee_recipient.val,
         state_root |-> p.state_root.val,
         receipts_root |-> p.receipts_root.val,
         logs_bloom |-> p.logs_bloom.val,
         prev_randao |-> p.prev_randao.val,
         numbers |-> p.numbers,
         extra_data |-> p.extra_data,
         base_fee_per_gas |-> p.base_fee_per_gas.val,
         block_hash |-> p.block_hash.val,
         transactions |-> p.transactions,
         withdrawals |-> p.withdrawals])

BlobsBundleFrom(b) ==
    Try(<<Collect(bytes_to_bytes48, b.commitments),
          Collect(bytes_to_bytes48, b.proofs),
          Collect(bytes_to_blob, b.blobs)>>, b)

NoBlobs == [commitments |-> List(0, <<>>), proofs |-> List(0, <<>>),
            blobs |-> List(0, <<>>)]

BidSubmissionFrom(req) ==
    IF req.bid_trace = Missing \/ req.execution_payload = Missing
    THEN Err("MissingField")
    ELSE LET blobs == IF req.blobs_bundle = Missing
                      THEN NoBlobs ELSE req.blobs_bundle
             trace == BidTraceFrom(req.bid_trace)
             payload == ExecutionPayloadFrom(req.execution_payload)
         IN Try(<<trace, payload, BlobsBundleFrom(blobs),
                  signature(req.signature)>>,
                [message |-> trace.ok, execution_payload |-> payload.ok,
                 blobs_bundle |-> blobs, signature |-> req.signature.val])

SignedValidatorRegistrationFrom(s) ==
    IF s.message = Missing THEN Err("MissingField")
    ELSE LET m == s.message IN
         Try(<<bytes_to_address(m.fee_recipient),
               public_key(m.pubkey),
               signature(s.signature)>>,
             [message |-> [fee_recipient |-> m.fee_recipient.val,
                           gas_limit |-> m.gas_limit,
                           timestamp |-> m.timestamp,
                           pubkey |-> m.pubkey.val],
              signature |-> s.signature.val])

\* The retriever's requests: B256::from_slice panics on another length.
from_slice(b) == IF b.len = 32 THEN Ok(b.val) ELSE Err("panic")

RetrieveRequestFrom(r) ==
    Try(<<from_slice(r.parent_hash), public_key(r.proposer_pubkey)>>,
        [slot |-> r.slot, parent_hash |-> r.parent_hash.val,
         proposer_pubkey |-> r.proposer_pubkey.val])

SubmitBlindedBlockRequestFrom(r) ==
    Try(<<from_slice(r.block_hash), signature(r.signature)>>,
        [slot |-> r.slot, proposer_index |-> r.proposer_index,
         block_hash |-> r.block_hash.val, signature |-> r.signature.val])

============================================================================
