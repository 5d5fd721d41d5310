-------------------------- MODULE ConversionProofs --------------------------
(***************************************************************************)
(* What the conversions do to any message of their types: a conversion     *)
(* that succeeds returns an entity whose encoding is the message, one that *)
(* is given the encoding of an entity succeeds, and panics are where no    *)
(* length is checked.                                                      *)
(***************************************************************************)
EXTENDS Encoding, WellFoundedInduction, TLAPS

\* A set of naturals that is not empty has a least element.
LEMMA LeastNatural ==
    ASSUME NEW S, S \subseteq Nat, S # {}
    PROVE  \E i \in S : \A j \in S : i <= j
<1> DEFINE Less == {p \in Nat \X Nat : p[1] < p[2]}
<1>1. IsWellFoundedOn(Less, Nat)
  BY NatLessThanWellFounded, Zenon DEF OpToRel
<1>2. \E i \in S : \A j \in S : ~(<<j, i>> \in Less)
  <2> HIDE DEF Less
  <2> QED BY <1>1, WFMin, Zenon
<1>3. \A i, j \in S : ~(<<j, i>> \in Less) => i <= j
  OBVIOUS
<1> QED BY <1>2, <1>3

\* A value and an error are different things.
LEMMA OkIsNoErr ==
    ASSUME NEW v
    PROVE  ~IsErr(Ok(v)) /\ Ok(v).ok = v
BY DEF IsErr, Ok

LEMMA ErrIsErr ==
    ASSUME NEW e
    PROVE  IsErr(Err(e)) /\ Err(e).err = e
BY DEF IsErr, Err

\* The ? operator over a row of fields: the value if none of them has failed,
\* and otherwise the error of one that has.
LEMMA TryCases ==
    ASSUME NEW results, NEW v, DOMAIN results \subseteq Nat
    PROVE  \/ /\ \A i \in DOMAIN results : ~IsErr(results[i])
              /\ Try(results, v) = Ok(v) /\ ~IsErr(Ok(v))
           \/ \E i \in DOMAIN results :
                IsErr(results[i]) /\ Try(results, v) = results[i]
<1> DEFINE errors == {i \in DOMAIN results : IsErr(results[i])}
           first == CHOOSE i \in errors : \A j \in errors : i <= j
<1>1. CASE errors = {}
  <2>1. Try(results, v) = Ok(v)
    BY <1>1 DEF Try
  <2> QED BY <1>1, <2>1, OkIsNoErr
<1>2. CASE errors # {}
  <2>1. \E i \in errors : \A j \in errors : i <= j
    BY <1>2, LeastNatural
  <2>2. first \in errors
    BY <2>1
  <2>3. Try(results, v) = results[first]
    BY <1>2 DEF Try
  <2> QED BY <2>2, <2>3
<1> QED BY <1>1, <1>2

\* An error that is no panic.
Fails(r) == IsErr(r) /\ r.err # "panic"

\* A row of fields none of which can panic.
LEMMA TryFails ==
    ASSUME NEW row, NEW v, DOMAIN row \subseteq Nat,
           \A i \in DOMAIN row : IsErr(row[i]) => Fails(row[i])
    PROVE  IF \A i \in DOMAIN row : ~IsErr(row[i])
           THEN Try(row, v) = Ok(v) /\ ~IsErr(Try(row, v))
           ELSE Fails(Try(row, v))
<1>1. CASE \A i \in DOMAIN row : ~IsErr(row[i])
  BY <1>1, TryCases, Zenon
<1>2. CASE ~\A i \in DOMAIN row : ~IsErr(row[i])
  <2>1. PICK i \in DOMAIN row : IsErr(row[i]) /\ Try(row, v) = row[i]
    BY <1>2, TryCases, Zenon
  <2>2. Fails(Try(row, v))
    BY <2>1, Zenon
  <2> QED BY <1>2, <2>2, Zenon
<1> QED BY <1>1, <1>2, Zenon

-----------------------------------------------------------------------------
(* One field: it fails exactly if its length or its content is wrong, and, *)
(* but for the two library calls that panic, with an error.                *)

LEMMA HashField ==
    ASSUME NEW b
    PROVE  IF b.len = 32 THEN ~IsErr(bytes_to_b256(b)) ELSE Fails(bytes_to_b256(b))
BY DEF bytes_to_b256, IsErr, Fails, Ok, Err

LEMMA AddressField ==
    ASSUME NEW b
    PROVE  IF b.len = 20 THEN ~IsErr(bytes_to_address(b)) ELSE Fails(bytes_to_address(b))
BY DEF bytes_to_address, IsErr, Fails, Ok, Err

LEMMA Bytes48Field ==
    ASSUME NEW b
    PROVE  IF b.len = 48 THEN ~IsErr(bytes_to_bytes48(b)) ELSE Fails(bytes_to_bytes48(b))
BY DEF bytes_to_bytes48, IsErr, Fails, Ok, Err

LEMMA BlobField ==
    ASSUME NEW b
    PROVE  IF b.len = BytesPerBlob THEN ~IsErr(bytes_to_blob(b)) ELSE Fails(bytes_to_blob(b))
BY DEF bytes_to_blob, IsErr, Fails, Ok, Err

LEMMA KeyField ==
    ASSUME NEW b
    PROVE  IF b.len = 48 /\ b.val \in Keys
           THEN ~IsErr(public_key(b)) ELSE Fails(public_key(b))
BY DEF public_key, IsErr, Fails, Ok, Err

LEMMA SignatureField ==
    ASSUME NEW b
    PROVE  IF b.len = 96 /\ b.val # NotAPoint
           THEN ~IsErr(signature(b)) ELSE Fails(signature(b))
BY DEF signature, IsErr, Fails, Ok, Err

LEMMA NumberField ==
    ASSUME NEW b
    PROVE  IF b # NotANumber THEN ~IsErr(u256_from_str(b)) ELSE Fails(u256_from_str(b))
BY DEF u256_from_str, IsErr, Fails, Ok, Err

LEMMA FixedField ==
    ASSUME NEW b, NEW n
    PROVE  IF b.len = n THEN ~IsErr(FixedVector(b, n)) ELSE Fails(FixedVector(b, n))
BY DEF FixedVector, IsErr, Fails, Ok, Err

LEMMA ListField ==
    ASSUME NEW b, NEW n
    PROVE  IF b.len <= n THEN ~IsErr(VariableList(b, n)) ELSE Fails(VariableList(b, n))
BY DEF VariableList, IsErr, Fails, Ok, Err

LEMMA FeeField ==
    ASSUME NEW b
    PROVE  IF b.len <= 32 THEN ~IsErr(u256_from_be_slice(b)) ELSE IsErr(u256_from_be_slice(b))
BY DEF u256_from_be_slice, IsErr, Ok, Err

LEMMA SliceField ==
    ASSUME NEW b
    PROVE  IF b.len = 32 THEN ~IsErr(from_slice(b)) ELSE IsErr(from_slice(b))
BY DEF from_slice, IsErr, Ok, Err

-----------------------------------------------------------------------------
(* The trace of a bid.                                                     *)

ValidTrace(t) ==
    /\ t.parent_hash.len = 32 /\ t.block_hash.len = 32
    /\ t.builder_pubkey.len = 48 /\ t.builder_pubkey.val \in Keys
    /\ t.proposer_pubkey.len = 48 /\ t.proposer_pubkey.val \in Keys
    /\ t.proposer_fee_recipient.len = 20
    /\ t.value # NotANumber

TraceOf(t) ==
    [slot |-> t.slot,
     parent_hash |-> t.parent_hash.val,
     block_hash |-> t.block_hash.val,
     builder_pubkey |-> t.builder_pubkey.val,
     proposer_pubkey |-> t.proposer_pubkey.val,
     proposer_fee_recipient |-> t.proposer_fee_recipient.val,
     gas_limit |-> t.gas_limit, gas_used |-> t.gas_used,
     value |-> t.value]

\* The checks of BidTrace::try_from.
LEMMA BidTraceCases ==
    ASSUME NEW t
    PROVE  IF ValidTrace(t) THEN BidTraceFrom(t) = Ok(TraceOf(t))
                            ELSE Fails(BidTraceFrom(t))
<1> DEFINE row == <<bytes_to_b256(t.parent_hash), bytes_to_b256(t.block_hash),
                    public_key(t.builder_pubkey), public_key(t.proposer_pubkey),
                    bytes_to_address(t.proposer_fee_recipient), u256_from_str(t.value)>>
<1>1. BidTraceFrom(t) = Try(row, TraceOf(t))
  BY DEF BidTraceFrom, TraceOf
<1>2. /\ DOMAIN row = 1 .. 6
      /\ row[1] = bytes_to_b256(t.parent_hash) /\ row[2] = bytes_to_b256(t.block_hash)
      /\ row[3] = public_key(t.builder_pubkey) /\ row[4] = public_key(t.proposer_pubkey)
      /\ row[5] = bytes_to_address(t.proposer_fee_recipient)
      /\ row[6] = u256_from_str(t.value)
  OBVIOUS
<1> HIDE DEF row
<1>3. /\ IF t.parent_hash.len = 32 THEN ~IsErr(row[1]) ELSE Fails(row[1])
      /\ IF t.block_hash.len = 32 THEN ~IsErr(row[2]) ELSE Fails(row[2])
      /\ IF t.builder_pubkey.len = 48 /\ t.builder_pubkey.val \in Keys
         THEN ~IsErr(row[3]) ELSE Fails(row[3])
      /\ IF t.proposer_pubkey.len = 48 /\ t.proposer_pubkey.val \in Keys
         THEN ~IsErr(row[4]) ELSE Fails(row[4])
      /\ IF t.proposer_fee_recipient.len = 20 THEN ~IsErr(row[5]) ELSE Fails(row[5])
      /\ IF t.value # NotANumber THEN ~IsErr(row[6]) ELSE Fails(row[6])
  BY <1>2, HashField, KeyField, AddressField, NumberField, Zenon
<1>4. \A i \in DOMAIN row : IsErr(row[i]) => Fails(row[i])
  BY <1>2, <1>3
<1>5. ValidTrace(t) <=> \A i \in DOMAIN row : ~IsErr(row[i])
  BY <1>2, <1>3 DEF ValidTrace, Fails
<1>6. DOMAIN row \subseteq Nat
  BY <1>2
<1> QED BY <1>1, <1>4, <1>5, <1>6, TryFails, Zenon

\* A trace is converted exactly if it is the encoding of one, and then to it.
LEMMA BidTraceConversion ==
    ASSUME NEW t, BidTraceMessage(t)
    PROVE  LET r == BidTraceFrom(t) IN
           /\ IsErr(r) => Fails(r) /\ \A e : ~(BidTrace(e) /\ EncodeTrace(e) = t)
           /\ ~IsErr(r) => BidTrace(r.ok) /\ EncodeTrace(r.ok) = t
<1> DEFINE r == BidTraceFrom(t)
<1>1. ASSUME NEW e, BidTrace(e), EncodeTrace(e) = t
      PROVE  ValidTrace(t)
  BY <1>1 DEF EncodeTrace, Bytes, BidTrace, ValidTrace
<1>2. ASSUME ValidTrace(t)
      PROVE  BidTrace(TraceOf(t)) /\ EncodeTrace(TraceOf(t)) = t
  BY <1>2 DEF BidTraceMessage, EncodeTrace, IsBytes, BidTrace, TraceOf, ValidTrace
<1>3. CASE ValidTrace(t)
  <2>1. ~IsErr(r) /\ r.ok = TraceOf(t)
    BY <1>3, BidTraceCases, OkIsNoErr
  <2> QED BY <1>2, <1>3, <2>1
<1>4. CASE ~ValidTrace(t)
  <2>1. Fails(r)
    BY <1>4, BidTraceCases
  <2> QED BY <1>1, <1>4, <2>1 DEF Fails
<1> QED BY <1>3, <1>4

-----------------------------------------------------------------------------
(* Repeated fields: every item is converted, or one of them fails.         *)

LEMMA CollectTransactions ==
    ASSUME NEW list, IsList(list)
    PROVE  IF \A i \in DOMAIN list.items : list.items[i].len <= 2 ^ 30
           THEN ~IsErr(Collect(TransactionFrom, list))
           ELSE Fails(Collect(TransactionFrom, list))
<1> DEFINE row == [i \in DOMAIN list.items |-> TransactionFrom(list.items[i])]
<1>1. Collect(TransactionFrom, list) = Try(row, list)
  BY DEF Collect
<1>2. /\ DOMAIN row = DOMAIN list.items /\ DOMAIN row \subseteq Nat
      /\ \A i \in DOMAIN row : row[i] = TransactionFrom(list.items[i])
  BY DEF IsList
<1> HIDE DEF row
<1>3. \A i \in DOMAIN row : IF list.items[i].len <= 2 ^ 30
                            THEN ~IsErr(row[i]) ELSE Fails(row[i])
  BY <1>2, ListField, Zenon DEF TransactionFrom
<1>4. \A i \in DOMAIN row : IsErr(row[i]) => Fails(row[i])
  BY <1>3, Zenon
<1>5. (\A i \in DOMAIN list.items : list.items[i].len <= 2 ^ 30)
        <=> \A i \in DOMAIN row : ~IsErr(row[i])
  BY <1>2, <1>3, Zenon DEF Fails
<1>6. IF \A i \in DOMAIN row : ~IsErr(row[i])
      THEN ~IsErr(Try(row, list)) ELSE Fails(Try(row, list))
  BY <1>2, <1>4, TryFails, Zenon
<1> QED BY <1>1, <1>5, <1>6, Zenon

LEMMA WithdrawalCases ==
    ASSUME NEW w
    PROVE  IF w.address.len = 20 THEN ~IsErr(WithdrawalFrom(w))
                                 ELSE Fails(WithdrawalFrom(w))
<1> DEFINE row == <<bytes_to_address(w.address)>>
<1>1. WithdrawalFrom(w) = Try(row, w)
  BY DEF WithdrawalFrom
<1>2. DOMAIN row = {1} /\ DOMAIN row \subseteq Nat /\ row[1] = bytes_to_address(w.address)
  OBVIOUS
<1> HIDE DEF row
<1>3. IF w.address.len = 20 THEN ~IsErr(row[1]) ELSE Fails(row[1])
  BY <1>2, AddressField, Zenon
<1>4. \A i \in DOMAIN row : IsErr(row[i]) => Fails(row[i])
  BY <1>2, <1>3
<1>5. w.address.len = 20 <=> \A i \in DOMAIN row : ~IsErr(row[i])
  BY <1>2, <1>3 DEF Fails
<1> QED BY <1>1, <1>2, <1>4, <1>5, TryFails, Zenon

LEMMA CollectWithdrawals ==
    ASSUME NEW list, IsList(list)
    PROVE  IF \A i \in DOMAIN list.items : list.items[i].address.len = 20
           THEN ~IsErr(Collect(WithdrawalFrom, list))
           ELSE Fails(Collect(WithdrawalFrom, list))
<1> DEFINE row == [i \in DOMAIN list.items |-> WithdrawalFrom(list.items[i])]
<1>1. Collect(WithdrawalFrom, list) = Try(row, list)
  BY DEF Collect
<1>2. /\ DOMAIN row = DOMAIN list.items /\ DOMAIN row \subseteq Nat
      /\ \A i \in DOMAIN row : row[i] = WithdrawalFrom(list.items[i])
  BY DEF IsList
<1> HIDE DEF row
<1>3. \A i \in DOMAIN row : IF list.items[i].address.len = 20
                            THEN ~IsErr(row[i]) ELSE Fails(row[i])
  BY <1>2, WithdrawalCases, Zenon
<1>4. \A i \in DOMAIN row : IsErr(row[i]) => Fails(row[i])
  BY <1>3, Zenon
<1>5. (\A i \in DOMAIN list.items : list.items[i].address.len = 20)
        <=> \A i \in DOMAIN row : ~IsErr(row[i])
  BY <1>2, <1>3, Zenon DEF Fails
<1>6. IF \A i \in DOMAIN row : ~IsErr(row[i])
      THEN ~IsErr(Try(row, list)) ELSE Fails(Try(row, list))
  BY <1>2, <1>4, TryFails, Zenon
<1> QED BY <1>1, <1>5, <1>6, Zenon

LEMMA CollectBytes48 ==
    ASSUME NEW list, IsList(list)
    PROVE  IF \A i \in DOMAIN list.items : list.items[i].len = 48
           THEN ~IsErr(Collect(bytes_to_bytes48, list))
           ELSE Fails(Collect(bytes_to_bytes48, list))
<1> DEFINE row == [i \in DOMAIN list.items |-> bytes_to_bytes48(list.items[i])]
<1>1. Collect(bytes_to_bytes48, list) = Try(row, list)
  BY DEF Collect
<1>2. /\ DOMAIN row = DOMAIN list.items /\ DOMAIN row \subseteq Nat
      /\ \A i \in DOMAIN row : row[i] = bytes_to_bytes48(list.items[i])
  BY DEF IsList
<1> HIDE DEF row
<1>3. \A i \in DOMAIN row : IF list.items[i].len = 48
                            THEN ~IsErr(row[i]) ELSE Fails(row[i])
  BY <1>2, Bytes48Field, Zenon
<1>4. \A i \in DOMAIN row : IsErr(row[i]) => Fails(row[i])
  BY <1>3, Zenon
<1>5. (\A i \in DOMAIN list.items : list.items[i].len = 48)
        <=> \A i \in DOMAIN row : ~IsErr(row[i])
  BY <1>2, <1>3, Zenon DEF Fails
<1>6. IF \A i \in DOMAIN row : ~IsErr(row[i])
      THEN ~IsErr(Try(row, list)) ELSE Fails(Try(row, list))
  BY <1>2, <1>4, TryFails, Zenon
<1> QED BY <1>1, <1>5, <1>6, Zenon

LEMMA CollectBlobs ==
    ASSUME NEW list, IsList(list)
    PROVE  IF \A i \in DOMAIN list.items : list.items[i].len = BytesPerBlob
           THEN ~IsErr(Collect(bytes_to_blob, list))
           ELSE Fails(Collect(bytes_to_blob, list))
<1> DEFINE row == [i \in DOMAIN list.items |-> bytes_to_blob(list.items[i])]
<1>1. Collect(bytes_to_blob, list) = Try(row, list)
  BY DEF Collect
<1>2. /\ DOMAIN row = DOMAIN list.items /\ DOMAIN row \subseteq Nat
      /\ \A i \in DOMAIN row : row[i] = bytes_to_blob(list.items[i])
  BY DEF IsList
<1> HIDE DEF row
<1>3. \A i \in DOMAIN row : IF list.items[i].len = BytesPerBlob
                            THEN ~IsErr(row[i]) ELSE Fails(row[i])
  BY <1>2, BlobField, Zenon
<1>4. \A i \in DOMAIN row : IsErr(row[i]) => Fails(row[i])
  BY <1>3, Zenon
<1>5. (\A i \in DOMAIN list.items : list.items[i].len = BytesPerBlob)
        <=> \A i \in DOMAIN row : ~IsErr(row[i])
  BY <1>2, <1>3, Zenon DEF Fails
<1>6. IF \A i \in DOMAIN row : ~IsErr(row[i])
      THEN ~IsErr(Try(row, list)) ELSE Fails(Try(row, list))
  BY <1>2, <1>4, TryFails, Zenon
<1> QED BY <1>1, <1>5, <1>6, Zenon

\* A bundle is converted exactly if it is one.
LEMMA BlobsBundleConversion ==
    ASSUME NEW b, BlobsBundleMessage(b)
    PROVE  IF BlobsBundle(b) THEN ~IsErr(BlobsBundleFrom(b))
                             ELSE Fails(BlobsBundleFrom(b))
<1> DEFINE row == <<Collect(bytes_to_bytes48, b.commitments),
                    Collect(bytes_to_bytes48, b.proofs),
                    Collect(bytes_to_blob, b.blobs)>>
<1>1. BlobsBundleFrom(b) = Try(row, b)
  BY DEF BlobsBundleFrom
<1>2. /\ DOMAIN row = 1 .. 3
      /\ row[1] = Collect(bytes_to_bytes48, b.commitments)
      /\ row[2] = Collect(bytes_to_bytes48, b.proofs)
      /\ row[3] = Collect(bytes_to_blob, b.blobs)
  OBVIOUS
<1> HIDE DEF row
<1>3. /\ IF \A i \in DOMAIN b.commitments.items : b.commitments.items[i].len = 48
         THEN ~IsErr(row[1]) ELSE Fails(row[1])
      /\ IF \A i \in DOMAIN b.proofs.items : b.proofs.items[i].len = 48
         THEN ~IsErr(row[2]) ELSE Fails(row[2])
      /\ IF \A i \in DOMAIN b.blobs.items : b.blobs.items[i].len = BytesPerBlob
         THEN ~IsErr(row[3]) ELSE Fails(row[3])
  BY <1>2, CollectBytes48, CollectBlobs, Zenon DEF BlobsBundleMessage
<1>4. \A i \in DOMAIN row : IsErr(row[i]) => Fails(row[i])
  BY <1>2, <1>3
<1>5. BlobsBundle(b) <=> \A i \in DOMAIN row : ~IsErr(row[i])
  BY <1>2, <1>3 DEF BlobsBundle, Fails
<1>6. DOMAIN row \subseteq Nat
  BY <1>2
<1> QED BY <1>1, <1>4, <1>5, <1>6, TryFails, Zenon

-----------------------------------------------------------------------------
(* The payload of a bid.                                                   *)

ValidPayload(p) ==
    /\ p.parent_hash.len = 32 /\ p.fee_recipient.len = 20
    /\ p.state_root.len = 32 /\ p.receipts_root.len = 32
    /\ p.logs_bloom.len = 256 /\ p.prev_randao.len = 32
    /\ p.base_fee_per_gas.len <= 32 /\ p.block_hash.len = 32
    /\ ExecutionPayload(p)

PayloadOf(p) ==
    [parent_hash |-> p.parent_hash.val,
     fee_recipient |-> p.fee_recipient.val,
     state_root |-> p.state_root.val,
     receipts_root |-> p.receipts_root.val,
     logs_bloom |-> p.logs_bloom.val,
     prev_randao |-> p.prev_randao.val,
     numbers |-> p.numbers,
     extra_data |-> p.extra_data,
     base_fee_per_gas |-> p.base_fee_per_gas.val,
     block_hash |-> p.block_hash.val,
     transactions |-> p.transactions,
     withdrawals |-> p.withdrawals]

\* The checks of ExecutionPayload::try_from; it panics on the base fee only.
LEMMA PayloadCases ==
    ASSUME NEW p, IsList(p.transactions), IsList(p.withdrawals)
    PROVE  IF ValidPayload(p) THEN ExecutionPayloadFrom(p) = Ok(PayloadOf(p))
           ELSE \/ Fails(ExecutionPayloadFrom(p))
                \/ IsErr(ExecutionPayloadFrom(p)) /\ ~(p.base_fee_per_gas.len <= 32)
<1> DEFINE row == <<bytes_to_b256(p.parent_hash),
                    bytes_to_address(p.fee_recipient),
                    bytes_to_b256(p.state_root),
                    bytes_to_b256(p.receipts_root),
                    FixedVector(p.logs_bloom, 256),
                    bytes_to_b256(p.prev_randao),
                    VariableList(p.extra_data, 32),
                    u256_from_be_slice(p.base_fee_per_gas),
                    bytes_to_b256(p.block_hash),
                    Collect(TransactionFrom, p.transactions),
                    VariableList(p.transactions, 2 ^ 20),
                    Collect(WithdrawalFrom, p.withdrawals),
                    VariableList(p.withdrawals, 16)>>
<1>1. ExecutionPayloadFrom(p) = Try(row, PayloadOf(p))
  BY DEF ExecutionPayloadFrom, PayloadOf
<1>2. /\ DOMAIN row = 1 .. 13
      /\ row[1] = bytes_to_b256(p.parent_hash)
      /\ row[2] = bytes_to_address(p.fee_recipient)
      /\ row[3] = bytes_to_b256(p.state_root)
      /\ row[4] = bytes_to_b256(p.receipts_root)
      /\ row[5] = FixedVector(p.logs_bloom, 256)
      /\ row[6] = bytes_to_b256(p.prev_randao)
      /\ row[7] = VariableList(p.extra_data, 32)
      /\ row[8] = u256_from_be_slice(p.base_fee_per_gas)
      /\ row[9] = bytes_to_b256(p.block_hash)
      /\ row[10] = Collect(TransactionFrom, p.transactions)
      /\ row[11] = VariableList(p.transactions, 2 ^ 20)
      /\ row[12] = Collect(WithdrawalFrom, p.withdrawals)
      /\ row[13] = VariableList(p.withdrawals, 16)
  OBVIOUS
<1> HIDE DEF row
<1>3. /\ IF p.parent_hash.len = 32 THEN ~IsErr(row[1]) ELSE Fails(row[1])
      /\ IF p.fee_recipient.len = 20 THEN ~IsErr(row[2]) ELSE Fails(row[2])
      /\ IF p.state_root.len = 32 THEN ~IsErr(row[3]) ELSE Fails(row[3])
      /\ IF p.receipts_root.len = 32 THEN ~IsErr(row[4]) ELSE Fails(row[4])
      /\ IF p.logs_bloom.len = 256 THEN ~IsErr(row[5]) ELSE Fails(row[5])
      /\ IF p.prev_randao.len = 32 THEN ~IsErr(row[6]) ELSE Fails(row[6])
      /\ IF p.extra_data.len <= 32 THEN ~IsErr(row[7]) ELSE Fails(row[7])
      /\ IF p.base_fee_per_gas.len <= 32 THEN ~IsErr(row[8]) ELSE IsErr(row[8])
      /\ IF p.block_hash.len = 32 THEN ~IsErr(row[9]) ELSE Fails(row[9])
  BY <1>2, HashField, AddressField, FixedField, ListField, FeeField
<1>4. /\ IF \A i \in DOMAIN p.transactions.items : p.transactions.items[i].len <= 2 ^ 30
         THEN ~IsErr(row[10]) ELSE Fails(row[10])
      /\ IF p.transactions.len <= 2 ^ 20 THEN ~IsErr(row[11]) ELSE Fails(row[11])
      /\ IF \A i \in DOMAIN p.withdrawals.items : p.withdrawals.items[i].address.len = 20
         THEN ~IsErr(row[12]) ELSE Fails(row[12])
      /\ IF p.withdrawals.len <= 16 THEN ~IsErr(row[13]) ELSE Fails(row[13])
  <2>1. IF \A i \in DOMAIN p.transactions.items : p.transactions.items[i].len <= 2 ^ 30
        THEN ~IsErr(Collect(TransactionFrom, p.transactions))
        ELSE Fails(Collect(TransactionFrom, p.transactions))
    BY CollectTransactions, Zenon
  <2>2. IF \A i \in DOMAIN p.withdrawals.items : p.withdrawals.items[i].address.len = 20
        THEN ~IsErr(Collect(WithdrawalFrom, p.withdrawals))
        ELSE Fails(Collect(WithdrawalFrom, p.withdrawals))
    BY CollectWithdrawals, Zenon
  <2>3. /\ IF p.transactions.len <= 2 ^ 20 THEN ~IsErr(row[11]) ELSE Fails(row[11])
        /\ IF p.withdrawals.len <= 16 THEN ~IsErr(row[13]) ELSE Fails(row[13])
    BY <1>2, ListField
  <2> QED BY <1>2, <2>1, <2>2, <2>3, Zenon
<1>5. ExecutionPayload(p) <=> ~IsErr(row[7]) /\ ~IsErr(row[10]) /\ ~IsErr(row[11])
                                /\ ~IsErr(row[12]) /\ ~IsErr(row[13])
  BY <1>3, <1>4, Zenon DEF ExecutionPayload, Fails
<1>6. ValidPayload(p) <=> \A i \in 1 .. 13 : ~IsErr(row[i])
  <2>1. ValidPayload(p) <=>
            /\ ~IsErr(row[1]) /\ ~IsErr(row[2]) /\ ~IsErr(row[3]) /\ ~IsErr(row[4])
            /\ ~IsErr(row[5]) /\ ~IsErr(row[6]) /\ ~IsErr(row[7]) /\ ~IsErr(row[8])
            /\ ~IsErr(row[9]) /\ ~IsErr(row[10]) /\ ~IsErr(row[11]) /\ ~IsErr(row[12])
            /\ ~IsErr(row[13])
    BY <1>3, <1>5 DEF ValidPayload, Fails
  <2> QED BY <2>1
<1>7. \A i \in 1 .. 13 : i # 8 /\ IsErr(row[i]) => Fails(row[i])
  BY <1>3, <1>4
<1>8. CASE ValidPayload(p)
  <2>1. \A i \in DOMAIN row : ~IsErr(row[i])
    BY <1>2, <1>6, <1>8
  <2>2. DOMAIN row \subseteq Nat
    BY <1>2
  <2>3. Try(row, PayloadOf(p)) = Ok(PayloadOf(p))
    BY <2>1, <2>2, TryCases, Zenon
  <2> QED BY <1>1, <1>8, <2>3
<1>9. CASE ~ValidPayload(p)
  <2>1. DOMAIN row \subseteq Nat /\ ~\A i \in DOMAIN row : ~IsErr(row[i])
    BY <1>2, <1>6, <1>9
  <2>2. PICK i \in DOMAIN row : IsErr(row[i]) /\ Try(row, PayloadOf(p)) = row[i]
    BY <2>1, TryCases, Zenon
  <2>3. CASE i = 8
    BY <1>1, <1>3, <1>9, <2>2, <2>3
  <2>4. CASE i # 8
    BY <1>1, <1>2, <1>7, <1>9, <2>2, <2>4
  <2> QED BY <2>3, <2>4
<1> QED BY <1>8, <1>9

\* The payload with its base fee in full length, as the clients send it.
NormalPayload(p) ==
    [p EXCEPT !.base_fee_per_gas.len = IF @ <= 32 THEN 32 ELSE @]

\* A payload is converted exactly if it is the encoding of one, and then to it;
\* only a base fee of more than 32 bytes panics.
LEMMA PayloadConversion ==
    ASSUME NEW p, ExecutionPayloadMessage(p)
    PROVE  LET r == ExecutionPayloadFrom(p) IN
           /\ IsErr(r) =>
                /\ Fails(r) \/ p.base_fee_per_gas.len > 32
                /\ \A e : ~(ExecutionPayload(e) /\ EncodePayload(e) = NormalPayload(p))
           /\ ~IsErr(r) => ExecutionPayload(r.ok) /\ EncodePayload(r.ok) = NormalPayload(p)
<1> DEFINE r == ExecutionPayloadFrom(p)
           fee == p.base_fee_per_gas
<1>1. /\ fee = [len |-> fee.len, val |-> fee.val] /\ fee.len \in Nat
      /\ IsList(p.transactions) /\ IsList(p.withdrawals)
  BY DEF ExecutionPayloadMessage, IsBytes, Bytes
<1>2. NormalPayload(p) =
        [parent_hash |-> p.parent_hash, fee_recipient |-> p.fee_recipient,
         state_root |-> p.state_root, receipts_root |-> p.receipts_root,
         logs_bloom |-> p.logs_bloom, prev_randao |-> p.prev_randao,
         numbers |-> p.numbers, extra_data |-> p.extra_data,
         base_fee_per_gas |-> [len |-> IF fee.len <= 32 THEN 32 ELSE fee.len,
                               val |-> fee.val],
         block_hash |-> p.block_hash, transactions |-> p.transactions,
         withdrawals |-> p.withdrawals]
  BY <1>1 DEF ExecutionPayloadMessage, NormalPayload
<1>3. ASSUME NEW e, ExecutionPayload(e), EncodePayload(e) = NormalPayload(p)
      PROVE  ValidPayload(p)
  <2>1. /\ p.parent_hash.len = 32 /\ p.fee_recipient.len = 20
        /\ p.state_root.len = 32 /\ p.receipts_root.len = 32
        /\ p.logs_bloom.len = 256 /\ p.prev_randao.len = 32
        /\ p.block_hash.len = 32
    BY <1>2, <1>3 DEF EncodePayload, Bytes
  <2>2. p.extra_data = e.extra_data /\ p.transactions = e.transactions
            /\ p.withdrawals = e.withdrawals
    BY <1>2, <1>3 DEF EncodePayload
  <2>3. fee.len <= 32
    BY <1>1, <1>2, <1>3 DEF EncodePayload, Bytes
  <2>4. ExecutionPayload(p)
    BY <1>3, <2>2 DEF ExecutionPayload
  <2> QED BY <2>1, <2>3, <2>4 DEF ValidPayload
<1>4. ASSUME ValidPayload(p)
      PROVE  ExecutionPayload(PayloadOf(p)) /\ EncodePayload(PayloadOf(p)) = NormalPayload(p)
  <2>1. ExecutionPayload(PayloadOf(p))
    BY <1>4 DEF ExecutionPayload, PayloadOf, ValidPayload
  <2>2. EncodePayload(PayloadOf(p)) = NormalPayload(p)
    BY <1>1, <1>2, <1>4 DEF ExecutionPayloadMessage, EncodePayload, IsBytes, Bytes,
                            PayloadOf, ValidPayload
  <2> QED BY <2>1, <2>2
<1>5. CASE ValidPayload(p)
  <2>1. ~IsErr(r) /\ r.ok = PayloadOf(p)
    BY <1>1, <1>5, PayloadCases, OkIsNoErr
  <2> QED BY <1>4, <1>5, <2>1
<1>6. CASE ~ValidPayload(p)
  <2>1. IsErr(r) /\ (Fails(r) \/ ~(fee.len <= 32))
    BY <1>1, <1>6, PayloadCases DEF Fails
  <2>2. ~(fee.len <= 32) => fee.len > 32
    BY <1>1
  <2> QED BY <1>3, <1>6, <2>1, <2>2
<1> QED BY <1>5, <1>6

-----------------------------------------------------------------------------
(* Whole requests.                                                         *)

\* A bid that lacks a part is no encoding.
LEMMA MissingPart ==
    ASSUME NEW m, NEW e, Missing \in {m.execution_payload, m.bid_trace}
    PROVE  EncodeBid(e) # NormalBid(m)
<1>1. NormalBid(m) = m
  BY DEF NormalBid
<1>2. "absent" \notin DOMAIN EncodeTrace(e.message)
  BY DEF EncodeTrace
<1>3. "absent" \notin DOMAIN EncodePayload(e.execution_payload)
  BY DEF EncodePayload
<1>4. "absent" \in DOMAIN Missing
  BY DEF Missing
<1>5. /\ EncodeBid(e).bid_trace = EncodeTrace(e.message)
      /\ EncodeBid(e).execution_payload = EncodePayload(e.execution_payload)
  BY DEF EncodeBid
<1> QED BY <1>1, <1>2, <1>3, <1>4, <1>5

\* A bid is converted exactly if it is the encoding of one, and then to it; only
\* its base fee can make the conversion panic.
LEMMA BidConversion ==
    ASSUME NEW m, BidRequestMessage(m)
    PROVE  LET r == BidSubmissionFrom(m) IN
           /\ IsErr(r) =>
                /\ Fails(r) \/ m.execution_payload.base_fee_per_gas.len > 32
                /\ \A e : ~(BidSubmission(e) /\ EncodeBid(e) = NormalBid(m))
           /\ ~IsErr(r) => BidSubmission(r.ok) /\ EncodeBid(r.ok) = NormalBid(m)
<1> DEFINE r == BidSubmissionFrom(m)
<1>1. CASE Missing \in {m.execution_payload, m.bid_trace}
  <2>1. r = Err("MissingField")
    BY <1>1 DEF BidSubmissionFrom
  <2>2. Fails(r)
    BY <2>1, ErrIsErr DEF Fails
  <2> QED BY <1>1, <2>2, MissingPart DEF Fails
<1>2. CASE Missing \notin {m.execution_payload, m.bid_trace}
  <2> DEFINE blobs == IF m.blobs_bundle = Missing THEN NoBlobs ELSE m.blobs_bundle
             trace == BidTraceFrom(m.bid_trace)
             payload == ExecutionPayloadFrom(m.execution_payload)
             bundle == BlobsBundleFrom(blobs)
             sig == signature(m.signature)
             v == [message |-> trace.ok, execution_payload |-> payload.ok,
                   blobs_bundle |-> blobs, signature |-> m.signature.val]
             row == <<trace, payload, bundle, sig>>
  <2>1. BidTraceMessage(m.bid_trace) /\ ExecutionPayloadMessage(m.execution_payload)
    BY <1>2 DEF BidRequestMessage
  <2>2. BlobsBundleMessage(blobs)
    <3>1. BlobsBundleMessage(NoBlobs)
      BY DEF BlobsBundleMessage, NoBlobs, IsList, List
    <3> QED BY <3>1 DEF BidRequestMessage
  <2>3. m.signature = [len |-> m.signature.len, val |-> m.signature.val]
    BY DEF BidRequestMessage, IsBytes, Bytes
  <2>4. r = Try(row, v)
    BY <1>2 DEF BidSubmissionFrom
  <2>5. NormalBid(m) = [bid_trace |-> m.bid_trace,
                        execution_payload |-> NormalPayload(m.execution_payload),
                        blobs_bundle |-> blobs, signature |-> m.signature]
    BY <1>2 DEF NormalBid, NormalPayload, BidRequestMessage
  <2>6. /\ DOMAIN row = 1 .. 4 /\ DOMAIN row \subseteq Nat
        /\ row[1] = trace /\ row[2] = payload /\ row[3] = bundle /\ row[4] = sig
    OBVIOUS
  <2>7. /\ IsErr(trace) =>
            Fails(trace) /\ \A e : ~(BidTrace(e) /\ EncodeTrace(e) = m.bid_trace)
        /\ ~IsErr(trace) => BidTrace(trace.ok) /\ EncodeTrace(trace.ok) = m.bid_trace
    BY <2>1, BidTraceConversion
  <2>8. /\ IsErr(payload) =>
            /\ Fails(payload) \/ m.execution_payload.base_fee_per_gas.len > 32
            /\ \A e : ~(/\ ExecutionPayload(e)
                        /\ EncodePayload(e) = NormalPayload(m.execution_payload))
        /\ ~IsErr(payload) =>
            /\ ExecutionPayload(payload.ok)
            /\ EncodePayload(payload.ok) = NormalPayload(m.execution_payload)
    BY <2>1, PayloadConversion
  <2>9. IF BlobsBundle(blobs) THEN ~IsErr(bundle) ELSE Fails(bundle)
    BY <2>2, BlobsBundleConversion
  <2>10. IF m.signature.len = 96 /\ m.signature.val # NotAPoint
         THEN ~IsErr(sig) ELSE Fails(sig)
    BY SignatureField
  <2>11. v.message = trace.ok /\ v.execution_payload = payload.ok
            /\ v.blobs_bundle = blobs /\ v.signature = m.signature.val
    OBVIOUS
  <2> HIDE DEF r, row, v, trace, payload, bundle, sig, blobs
  <2>12. ASSUME NEW e, BidSubmission(e), EncodeBid(e) = NormalBid(m)
         PROVE  ~IsErr(trace) /\ ~IsErr(payload) /\ ~IsErr(bundle) /\ ~IsErr(sig)
    <3>1. /\ EncodeTrace(e.message) = m.bid_trace
          /\ EncodePayload(e.execution_payload) = NormalPayload(m.execution_payload)
          /\ e.blobs_bundle = blobs
          /\ m.signature = Bytes(96, e.signature)
      BY <2>5, <2>12 DEF EncodeBid
    <3>2. m.signature.len = 96 /\ m.signature.val = e.signature
      BY <3>1 DEF Bytes
    <3>3. BidTrace(e.message) /\ ExecutionPayload(e.execution_payload)
            /\ BlobsBundle(blobs) /\ e.signature # NotAPoint
      BY <2>12, <3>1 DEF BidSubmission
    <3> QED BY <2>7, <2>8, <2>9, <2>10, <3>1, <3>2, <3>3
  <2>13. CASE \A i \in DOMAIN row : ~IsErr(row[i])
    <3>1. r = Ok(v)
      BY <2>4, <2>6, <2>13, TryCases, Zenon
    <3>2. ~IsErr(r) /\ r.ok = v
      BY <3>1, OkIsNoErr
    <3>3. ~IsErr(trace) /\ ~IsErr(payload) /\ ~IsErr(bundle) /\ ~IsErr(sig)
      BY <2>6, <2>13
    <3>4. m.signature.len = 96 /\ m.signature.val # NotAPoint /\ BlobsBundle(blobs)
      BY <2>9, <2>10, <3>3 DEF Fails
    <3>5. BidSubmission(v)
      BY <2>7, <2>8, <2>11, <3>3, <3>4 DEF BidSubmission
    <3>6. EncodeBid(v) = NormalBid(m)
      BY <2>3, <2>5, <2>7, <2>8, <2>11, <3>3, <3>4 DEF EncodeBid, Bytes
    <3> QED BY <3>2, <3>5, <3>6 DEF r
  <2>14. CASE ~\A i \in DOMAIN row : ~IsErr(row[i])
    <3>1. PICK i \in DOMAIN row : IsErr(row[i]) /\ r = row[i]
      BY <2>4, <2>6, <2>14, TryCases, Zenon
    <3>2. IsErr(r) /\ (Fails(r) \/ m.execution_payload.base_fee_per_gas.len > 32)
      BY <2>6, <2>7, <2>8, <2>9, <2>10, <3>1
    <3>3. IsErr(trace) \/ IsErr(payload) \/ IsErr(bundle) \/ IsErr(sig)
      BY <2>6, <3>1
    <3> QED BY <2>12, <3>2, <3>3 DEF r
  <2> QED BY <2>13, <2>14
<1> QED BY <1>1, <1>2

\* A row of two fields, of which the first may panic.
LEMMA TryTwo ==
    ASSUME NEW a, NEW b, NEW v, IsErr(b) => Fails(b)
    PROVE  IF IsErr(a) \/ IsErr(b)
           THEN IsErr(Try(<<a, b>>, v)) /\ (Fails(Try(<<a, b>>, v)) \/ IsErr(a))
           ELSE Try(<<a, b>>, v) = Ok(v)
<1> DEFINE row == <<a, b>>
<1>1. DOMAIN row = {1, 2} /\ DOMAIN row \subseteq Nat /\ row[1] = a /\ row[2] = b
  OBVIOUS
<1> HIDE DEF row
<1>2. \/ /\ \A i \in DOMAIN row : ~IsErr(row[i])
         /\ Try(row, v) = Ok(v)
      \/ \E i \in DOMAIN row : IsErr(row[i]) /\ Try(row, v) = row[i]
  BY <1>1, TryCases, Zenon
<1>3. IF IsErr(a) \/ IsErr(b)
      THEN IsErr(Try(row, v)) /\ (Fails(Try(row, v)) \/ IsErr(a))
      ELSE Try(row, v) = Ok(v)
  BY <1>1, <1>2
<1> QED BY <1>3 DEF row

\* A request for a header: it panics on a parent hash of another length.
LEMMA RetrieveConversion ==
    ASSUME NEW m, RetrieveRequestMessage(m)
    PROVE  LET r == RetrieveRequestFrom(m) IN
           /\ IsErr(r) =>
                /\ Fails(r) \/ m.parent_hash.len # 32
                /\ \A e : ~(e.proposer_pubkey \in Keys /\ EncodeRetrieve(e) = m)
           /\ ~IsErr(r) => r.ok.proposer_pubkey \in Keys /\ EncodeRetrieve(r.ok) = m
<1> DEFINE a == from_slice(m.parent_hash)
           b == public_key(m.proposer_pubkey)
           v == [slot |-> m.slot, parent_hash |-> m.parent_hash.val,
                 proposer_pubkey |-> m.proposer_pubkey.val]
           r == RetrieveRequestFrom(m)
           valid == /\ m.parent_hash.len = 32
                    /\ m.proposer_pubkey.len = 48 /\ m.proposer_pubkey.val \in Keys
<1>1. r = Try(<<a, b>>, v)
  BY DEF RetrieveRequestFrom
<1>2. /\ IF m.parent_hash.len = 32 THEN ~IsErr(a) ELSE IsErr(a)
      /\ IF m.proposer_pubkey.len = 48 /\ m.proposer_pubkey.val \in Keys
         THEN ~IsErr(b) ELSE Fails(b)
  BY SliceField, KeyField
<1>3. ASSUME NEW e, e.proposer_pubkey \in Keys, EncodeRetrieve(e) = m
      PROVE  valid
  BY <1>3 DEF EncodeRetrieve, Bytes
<1>4. valid => v.proposer_pubkey \in Keys /\ EncodeRetrieve(v) = m
  BY DEF EncodeRetrieve, RetrieveRequestMessage, IsBytes
<1> HIDE DEF a, b, v, r
<1>5. IF IsErr(a) \/ IsErr(b)
      THEN IsErr(r) /\ (Fails(r) \/ IsErr(a)) ELSE r = Ok(v)
  <2>1. IsErr(b) => Fails(b)
    BY <1>2
  <2> QED BY <1>1, <2>1, TryTwo, Zenon
<1>6. CASE valid
  <2>1. ~IsErr(r) /\ r.ok = v
    BY <1>2, <1>5, <1>6, OkIsNoErr
  <2> QED BY <1>4, <1>6, <2>1 DEF r
<1>7. CASE ~valid
  <2>1. IsErr(r) /\ (Fails(r) \/ m.parent_hash.len # 32)
    BY <1>2, <1>5, <1>7 DEF Fails
  <2> QED BY <1>3, <1>7, <2>1 DEF r
<1> QED BY <1>6, <1>7

\* A commitment to a block: it panics on a block hash of another length.
LEMMA SubmitConversion ==
    ASSUME NEW m, SubmitBlindedBlockMessage(m)
    PROVE  LET r == SubmitBlindedBlockRequestFrom(m) IN
           /\ IsErr(r) =>
                /\ Fails(r) \/ m.block_hash.len # 32
                /\ \A e : ~(e.signature # NotAPoint /\ EncodeSubmit(e) = m)
           /\ ~IsErr(r) => r.ok.signature # NotAPoint /\ EncodeSubmit(r.ok) = m
<1> DEFINE a == from_slice(m.block_hash)
           b == signature(m.signature)
           v == [slot |-> m.slot, proposer_index |-> m.proposer_index,
                 block_hash |-> m.block_hash.val, signature |-> m.signature.val]
           r == SubmitBlindedBlockRequestFrom(m)
           valid == /\ m.block_hash.len = 32
                    /\ m.signature.len = 96 /\ m.signature.val # NotAPoint
<1>1. r = Try(<<a, b>>, v)
  BY DEF SubmitBlindedBlockRequestFrom
<1>2. /\ IF m.block_hash.len = 32 THEN ~IsErr(a) ELSE IsErr(a)
      /\ IF m.signature.len = 96 /\ m.signature.val # NotAPoint
         THEN ~IsErr(b) ELSE Fails(b)
  BY SliceField, SignatureField
<1>3. ASSUME NEW e, e.signature # NotAPoint, EncodeSubmit(e) = m
      PROVE  valid
  BY <1>3 DEF EncodeSubmit, Bytes
<1>4. valid => v.signature # NotAPoint /\ EncodeSubmit(v) = m
  BY DEF EncodeSubmit, SubmitBlindedBlockMessage, IsBytes
<1> HIDE DEF a, b, v, r
<1>5. IF IsErr(a) \/ IsErr(b)
      THEN IsErr(r) /\ (Fails(r) \/ IsErr(a)) ELSE r = Ok(v)
  <2>1. IsErr(b) => Fails(b)
    BY <1>2
  <2> QED BY <1>1, <2>1, TryTwo, Zenon
<1>6. CASE valid
  <2>1. ~IsErr(r) /\ r.ok = v
    BY <1>2, <1>5, <1>6, OkIsNoErr
  <2> QED BY <1>4, <1>6, <2>1 DEF r
<1>7. CASE ~valid
  <2>1. IsErr(r) /\ (Fails(r) \/ m.block_hash.len # 32)
    BY <1>2, <1>5, <1>7 DEF Fails
  <2> QED BY <1>3, <1>7, <2>1 DEF r
<1> QED BY <1>6, <1>7

\* A registration is converted exactly if it is the encoding of one, and then
\* to it.
LEMMA RegistrationConversion ==
    ASSUME NEW s, RegistrationMessage(s)
    PROVE  LET r == SignedValidatorRegistrationFrom(s)
               Encoded(e) == /\ SignedValidatorRegistration(e)
                             /\ EncodeRegistration(e.message, e.signature) = s
           IN /\ IsErr(r) => \A e : ~Encoded(e)
              /\ ~IsErr(r) =>
                    /\ Encoded(r.ok)
                    /\ \A e : Encoded(e) =>
                            e.message = r.ok.message /\ e.signature = r.ok.signature
                    /\ r.ok.signature = s.signature.val
<1> DEFINE r == SignedValidatorRegistrationFrom(s)
           m == s.message
           v == [message |-> [fee_recipient |-> m.fee_recipient.val,
                              gas_limit |-> m.gas_limit,
                              timestamp |-> m.timestamp,
                              pubkey |-> m.pubkey.val],
                 signature |-> s.signature.val]
           valid == /\ m # Missing /\ m.fee_recipient.len = 20
                    /\ m.pubkey.len = 48 /\ m.pubkey.val \in Keys
                    /\ s.signature.len = 96 /\ s.signature.val # NotAPoint
           row == <<bytes_to_address(m.fee_recipient), public_key(m.pubkey),
                    signature(s.signature)>>
           Encoded(e) == /\ SignedValidatorRegistration(e)
                         /\ EncodeRegistration(e.message, e.signature) = s
<1>1. m # Missing => r = Try(row, v)
  BY DEF SignedValidatorRegistrationFrom
<1>2. /\ DOMAIN row = 1 .. 3 /\ DOMAIN row \subseteq Nat
      /\ row[1] = bytes_to_address(m.fee_recipient)
      /\ row[2] = public_key(m.pubkey) /\ row[3] = signature(s.signature)
  OBVIOUS
<1>3. ASSUME NEW e, Encoded(e)
      PROVE  valid /\ e.message = v.message /\ e.signature = v.signature
  <2>1. /\ m = [fee_recipient |-> Bytes(20, e.message.fee_recipient),
                gas_limit |-> e.message.gas_limit, timestamp |-> e.message.timestamp,
                pubkey |-> Bytes(48, e.message.pubkey)]
        /\ s.signature = Bytes(96, e.signature)
    BY <1>3 DEF EncodeRegistration
  <2>2. "absent" \in DOMAIN Missing /\ "absent" \notin DOMAIN m
    BY <2>1 DEF Missing
  <2>3. m # Missing
    BY <2>2
  <2>4. /\ m.fee_recipient.len = 20 /\ m.fee_recipient.val = e.message.fee_recipient
        /\ m.pubkey.len = 48 /\ m.pubkey.val = e.message.pubkey
        /\ m.gas_limit = e.message.gas_limit /\ m.timestamp = e.message.timestamp
        /\ s.signature.len = 96 /\ s.signature.val = e.signature
    BY <2>1 DEF Bytes
  <2> QED BY <1>3, <2>3, <2>4 DEF SignedValidatorRegistration
<1>4. valid => Encoded(v)
  <2> HAVE valid
  <2>1. SignedValidatorRegistration(v)
    BY DEF SignedValidatorRegistration
  <2>2. EncodeRegistration(v.message, v.signature) = s
    BY DEF EncodeRegistration, RegistrationMessage, IsBytes
  <2> QED BY <2>1, <2>2
<1>5. /\ IF m.fee_recipient.len = 20 THEN ~IsErr(row[1]) ELSE Fails(row[1])
      /\ IF m.pubkey.len = 48 /\ m.pubkey.val \in Keys
         THEN ~IsErr(row[2]) ELSE Fails(row[2])
      /\ IF s.signature.len = 96 /\ s.signature.val # NotAPoint
         THEN ~IsErr(row[3]) ELSE Fails(row[3])
  BY <1>2, AddressField, KeyField, SignatureField
<1>6. v.signature = s.signature.val
  OBVIOUS
<1> HIDE DEF r, row, v
<1>7. m # Missing => (valid <=> \A i \in DOMAIN row : ~IsErr(row[i]))
  BY <1>2, <1>5 DEF Fails
<1>8. \A i \in DOMAIN row : IsErr(row[i]) => Fails(row[i])
  BY <1>2, <1>5
<1>9. IF \A i \in DOMAIN row : ~IsErr(row[i])
      THEN Try(row, v) = Ok(v) ELSE Fails(Try(row, v))
  BY <1>2, <1>8, TryFails, Zenon
<1>10. CASE valid
  <2>1. ~IsErr(r) /\ r.ok = v
    BY <1>1, <1>7, <1>9, <1>10, OkIsNoErr
  <2> QED BY <1>3, <1>4, <1>6, <1>10, <2>1 DEF r
<1>11. CASE ~valid
  <2>1. IsErr(r)
    <3>1. CASE m = Missing
      BY <3>1, ErrIsErr DEF r, SignedValidatorRegistrationFrom
    <3>2. CASE m # Missing
      BY <1>1, <1>7, <1>9, <1>11, <3>2 DEF Fails
    <3> QED BY <3>1, <3>2
  <2> QED BY <1>3, <1>11, <2>1 DEF r
<1> QED BY <1>10, <1>11

============================================================================
