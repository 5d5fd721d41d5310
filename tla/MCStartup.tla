----------------------------- MODULE MCStartup -----------------------------
EXTENDS Startup, TLC

(* The command lines and the node.                                         *)
Line == [bls_secret_key |-> Bytes(32, "relay"), chain |-> "mainnet",
         genesis_validators_root |-> Bytes(32, "root"),
         genesis_fork_version |-> Bytes(4, "genesis"),
         current_fork_version |-> Bytes(4, "current"),
         enabled_builders |-> List(1, <<Bytes(48, "b1")>>),
         url_parses |-> TRUE, slots_per_epoch |-> 2]

SomeCommands ==
    [startup |-> {[kind |-> "ForkData"]},
     sync    |-> {[kind |-> "ProposerDuties"]},
     other   |-> {[kind |-> "SyncStatus"], [kind |-> "KnownValidator"],
                  [kind |-> "PublishBlock"]}]

Body(b) == [http |-> "ok", body |-> b]

SomeReplies(command) ==
    {[http |-> "refused"]} \cup
    CASE command.kind = "ForkData" ->
            {Body([root |-> Bytes(32, "root"), version |-> Bytes(4, "current")]),
             Body([root |-> Bytes(31, "root"), version |-> Bytes(4, "current")]),
             Body([root |-> Bytes(32, "root"), version |-> NotHex])}
      [] command.kind = "SyncStatus" ->
            {[http |-> "failed"], [http |-> "garbled"]}
      [] command.kind = "ProposerDuties" -> {Body("duties")}
      [] command.kind = "KnownValidator" ->
            {Body([index |-> 7, balance |-> 32]),
             Body([index |-> 7, balance |-> NotANumber])}
      [] command.kind = "PublishBlock" ->
            {Body([root |-> Bytes(32, [block |-> "h"])]),
             Body([root |-> Bytes(31, [block |-> "h"])])}
      [] OTHER -> {}

HeadReplies == {Body(1), Body(2), Body(NotANumber), [http |-> "garbled"]}

-----------------------------------------------------------------------------
(* What the clients mean to send.                                          *)
Trace == [slot |-> 1, gas_limit |-> 30, gas_used |-> 20, value |-> 5,
          parent_hash |-> "p", block_hash |-> "h", builder_pubkey |-> "b1",
          proposer_pubkey |-> "v1", proposer_fee_recipient |-> "f"]

Payload == [parent_hash |-> "p", fee_recipient |-> "f", state_root |-> "s",
            receipts_root |-> "r", logs_bloom |-> "l", prev_randao |-> "m",
            numbers |-> 1, extra_data |-> Bytes(32, "x"),
            base_fee_per_gas |-> 9, block_hash |-> "h",
            transactions |-> List(2, <<Bytes(100, "t")>>),
            withdrawals |-> List(16, <<[index |-> 1, address |-> Bytes(20, "a")]>>)]

Blobs == [commitments |-> List(1, <<Bytes(48, "c")>>),
          proofs |-> List(1, <<Bytes(48, "q")>>),
          blobs |-> List(1, <<Bytes(131072, "b")>>)]

BidOf(blobs) == [message |-> Trace, execution_payload |-> Payload,
                 blobs_bundle |-> blobs, signature |-> "sig"]

Reg(time) == [fee_recipient |-> "f", gas_limit |-> 30, timestamp |-> time,
              pubkey |-> "v1"]

DomainOf(type, version, root) ==
    [type |-> type, fork |-> [version |-> version, root |-> root]]

\* Signatures made by the owner of v1 for the configured and for the node's
\* fork data, and as a proposer.
Signatures(m) ==
    {sign(k, signing_root(m, d)) :
        k \in {"v1"}, d \in {DomainOf(BuilderDomain, "genesis", ZeroRoot),
                             DomainOf(BuilderDomain, "current", "root"),
                             DomainOf(ProposerDomain, "current", "root")}}

\* Reg(1) is signed, Reg(2) is sent with the signatures of Reg(1), and Reg(3) is
\* signed by somebody else only.
ByAnother(m) == sign("b1", signing_root(m, DomainOf(BuilderDomain, "genesis", ZeroRoot)))

SignedRegs ==
    {[message |-> Reg(1), signature |-> s] : s \in Signatures(Reg(1))}
    \cup {[message |-> Reg(2), signature |-> s] : s \in Signatures(Reg(1))}
    \cup {[message |-> Reg(3), signature |-> ByAnother(Reg(3))]}

SomeEntities ==
    (Bid :> {BidOf(Blobs), BidOf(NoBlobs)}) @@
    (Retrieve :> {[slot |-> 1, parent_hash |-> "p", proposer_pubkey |-> "v1"]}) @@
    (SubmitBlindedBlock :> {[slot |-> 1, proposer_index |-> 1,
                             block_hash |-> "h", signature |-> "sig"]}) @@
    (Register :> SignedRegs)

-----------------------------------------------------------------------------
\* Requests as the clients of the services make them.
bid(message, size) ==
    [service |-> "relay.BidderService", path |-> Bid, size |-> size,
     message |-> message]
retrieve(message, size) ==
    [service |-> "relay.RetrieverService", path |-> Retrieve, size |-> size,
     message |-> message]
submit_blinded_block(message, size) ==
    [service |-> "relay.RetrieverService", path |-> SubmitBlindedBlock,
     size |-> size, message |-> message]
register(message, size) ==
    [service |-> "relay.ValidatorService", path |-> Register, size |-> size,
     message |-> message]

-----------------------------------------------------------------------------
(* What arrives: the encodings, and what is left of them after one mistake. *)
Off(b) == {[b EXCEPT !.len = b.len - 1], [b EXCEPT !.len = b.len + 1]}

Longer(b) == [b EXCEPT !.len = b.len + 1]

BidMsg == EncodeBid(BidOf(Blobs))

TraceBytes == {"parent_hash", "block_hash", "builder_pubkey",
               "proposer_pubkey", "proposer_fee_recipient"}
PayloadBytes == {"parent_hash", "fee_recipient", "state_root", "receipts_root",
                 "logs_bloom", "prev_randao", "block_hash"}

BidMessages ==
    {EncodeBid(e) : e \in SomeEntities[Bid]}
    \cup UNION {{[BidMsg EXCEPT !.bid_trace[f] = b] : b \in Off(BidMsg.bid_trace[f])}
                : f \in TraceBytes}
    \cup {[BidMsg EXCEPT !.execution_payload[f] = Longer(@)] : f \in PayloadBytes}
    \cup {[BidMsg EXCEPT !.bid_trace = Missing],
          [BidMsg EXCEPT !.execution_payload = Missing],
          [BidMsg EXCEPT !.blobs_bundle = Missing],
          [BidMsg EXCEPT !.bid_trace.builder_pubkey.val = NotAPoint],
          [BidMsg EXCEPT !.bid_trace.value = NotANumber],
          [BidMsg EXCEPT !.signature.val = NotAPoint],
          [BidMsg EXCEPT !.signature.len = 95],
          [BidMsg EXCEPT !.execution_payload.extra_data.len = 33],
          [BidMsg EXCEPT !.execution_payload.base_fee_per_gas.len = 1],
          [BidMsg EXCEPT !.execution_payload.base_fee_per_gas.len = 33],
          [BidMsg EXCEPT !.execution_payload.withdrawals.len = 17],
          [BidMsg EXCEPT !.execution_payload.withdrawals.items[1].address.len = 21],
          [BidMsg EXCEPT !.execution_payload.transactions.len = 2 ^ 20 + 1],
          [BidMsg EXCEPT !.execution_payload.transactions.items[1].len = 2 ^ 30 + 1],
          [BidMsg EXCEPT !.blobs_bundle.commitments.items[1].len = 47],
          [BidMsg EXCEPT !.blobs_bundle.proofs.items[1].len = 49],
          [BidMsg EXCEPT !.blobs_bundle.blobs.items[1].len = 131071]}

RegMsg == EncodeRegistration(Reg(1), sign("v1", signing_root(Reg(1),
                DomainOf(BuilderDomain, "genesis", ZeroRoot))))

RegisterMessages ==
    {EncodeRegistration(e.message, e.signature) : e \in SignedRegs}
    \cup {Missing,
          [RegMsg EXCEPT !.message = Missing],
          [RegMsg EXCEPT !.message.fee_recipient.len = 19],
          [RegMsg EXCEPT !.message.pubkey.len = 49],
          [RegMsg EXCEPT !.signature.len = 97],
          [RegMsg EXCEPT !.signature.val = NotAPoint]}

Enc(path) == CHOOSE m \in {Encode(path, e) : e \in SomeEntities[path]} : TRUE

AllRequests ==
    {bid(m, 1000) : m \in BidMessages}
    \cup {bid(BidMsg, MaxDecodingSize + 1),
          [bid(Missing, 1000) EXCEPT !.path = "/relay.BidderService/None"],
          [bid(Missing, 1000) EXCEPT !.service = "relay.None",
                                     !.path = "/relay.None/Bid"]}
    \cup {retrieve(m, 1000) : m \in
            {Enc(Retrieve), [Enc(Retrieve) EXCEPT !.parent_hash.len = 31],
             [Enc(Retrieve) EXCEPT !.proposer_pubkey.val = NotAPoint]}}
    \cup {submit_blinded_block(m, 1000) : m \in
            {Enc(SubmitBlindedBlock),
             [Enc(SubmitBlindedBlock) EXCEPT !.block_hash.len = 33],
             [Enc(SubmitBlindedBlock) EXCEPT !.signature.len = 0]}}
    \cup {register(m, 1000) : m \in RegisterMessages}

-----------------------------------------------------------------------------
(* A failing or silent node and handles shared with others, or clients:    *)
(* what a request becomes depends on the node only through the fork data.  *)
Around(line, commands_of_others) ==
    [args |-> line, heads |-> HeadReplies, requests |-> {}, taken |-> {},
     others |-> {[kind |-> k] : k \in commands_of_others}]

SomeScenarios ==
    [usual    |-> Around(Line, {"SyncStatus"}),
     clients  |-> [args |-> Line, heads |-> {}, requests |-> AllRequests,
                   others |-> {}, taken |-> {}],
     noHealth |-> [Around(Line, {}) EXCEPT !.taken = {"health"}],
     noPorts  |-> [Around(Line, {}) EXCEPT !.taken = {"grpc", "health"}],
     noSlots  |-> Around([Line EXCEPT !.slots_per_epoch = 0], {}),
     oneSlot  |-> Around([Line EXCEPT !.slots_per_epoch = 1],
                         {"KnownValidator", "PublishBlock"}),
     badUrl   |-> Around([Line EXCEPT !.url_parses = FALSE], {}),
     badChain |-> Around([Line EXCEPT !.chain = "goerli"], {}),
     badHex   |-> Around([Line EXCEPT !.bls_secret_key = NotHex], {}),
     short    |-> Around([Line EXCEPT !.genesis_fork_version.len = 3], {}),
     badKey   |-> Around([Line EXCEPT !.enabled_builders.items[1] = NotHex], {})]

============================================================================
