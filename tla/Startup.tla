------------------------------ MODULE Startup ------------------------------
(***************************************************************************)
(* The process from its command line to its exit (crates/app): the         *)
(* configuration, the fork data fetched through the beacon service or      *)
(* taken from the configuration, the gRPC and health servers, the          *)
(* background task, and the shutdown; and the door of the gRPC server: how *)
(* a request is routed, decoded and converted, and what becomes of a       *)
(* registration.  What the other handlers do with a converted request is   *)
(* in Relay, what the background task does with its answers in             *)
(* RelayService.                                                           *)
(***************************************************************************)
EXTENDS BeaconGateway, Domains, Encoding

CONSTANTS
    Entities,     \* what the clients mean to send, by path
    Scenarios     \* what may go on around a run of the process, by name:
                  \*   args     the command line
                  \*   heads    replies the background task polls for a head
                  \*   others   commands of other holders of the handle
                  \*   requests [service, path, size, message] of clients
                  \*   taken    ports, of "grpc" and "health", in use already

ASSUME StartupAssumption ==
    /\ {"startup", "sync"} \subseteq Callers \ Impatient
    /\ [kind |-> "ForkData"] \in Commands["startup"]
    /\ [kind |-> "ProposerDuties"] \in Commands["sync"]

VARIABLES
    scenario,       \* what goes on around this run
    phase,          \* how far run_inner is
    forkDatas,      \* the fork data in force
    grpc,           \* the gRPC server
    health,         \* the health endpoint
    task,           \* the background task
    registrations,  \* validator_registrations: [key -> registration]
    last            \* the latest request and its answer

ServerVars == <<scenario, forkDatas, grpc, health, task, registrations, last>>
StartupVars == <<GatewayVars, phase, ServerVars>>

args == Scenarios[scenario].args
taken == Scenarios[scenario].taken

NoForkDatas == [none |-> TRUE]
NoLast == [request |-> NoCommand, answer |-> Err("none")]

-----------------------------------------------------------------------------
(* RelayConfig::try_from                                                   *)

Invalid == Err("config")

hex_decode(text) == IF text = NotHex THEN Invalid ELSE Ok(text.val)
of_length(text, n) == IF text.len = n THEN Ok(text.val) ELSE Invalid
valid_key(text, n) ==
    IF text.len = n /\ text.val \in Keys THEN Ok(text.val) ELSE Invalid

builder_key(text) ==
    IF text = NotHex THEN Invalid ELSE valid_key(text, 48)

\* Every text must decode and have its length, and every key be a key; nobody
\* looks at --epoch.slots.
RelayConfigFrom(a) ==
    LET decoded == Try(<<hex_decode(a.bls_secret_key),
                         hex_decode(a.genesis_validators_root),
                         hex_decode(a.genesis_fork_version),
                         hex_decode(a.current_fork_version)>>, a)
    IN IF IsErr(decoded) \/ a.chain \notin {"mainnet", "sepolia", "holesky"}
       THEN Invalid
       ELSE Try(<<valid_key(a.bls_secret_key, 32),
                  of_length(a.genesis_validators_root, 32),
                  of_length(a.genesis_fork_version, 4),
                  of_length(a.current_fork_version, 4),
                  Collect(builder_key, a.enabled_builders)>>,
                from_genesis_and_current_version(
                    a.genesis_fork_version.val, a.current_fork_version.val,
                    a.genesis_validators_root.val))

StartupInit ==
    /\ GatewayInit
    /\ scenario \in DOMAIN Scenarios
    /\ phase = "starting" /\ forkDatas = NoForkDatas
    /\ grpc = "down" /\ health = "down" /\ task = "none"
    /\ registrations = [k \in {} |-> k]
    /\ last = NoLast

-----------------------------------------------------------------------------
(* main, run and run_inner                                                 *)

\* A bad configuration or URL ends the process; otherwise the beacon service is
\* spawned and asked for the fork data.
Configure ==
    /\ phase = "starting"
    /\ IF IsErr(RelayConfigFrom(args)) \/ ~args.url_parses
       THEN phase' = "exited" /\ UNCHANGED GatewayVars
       ELSE phase' = "fetching" /\ Ask("startup", [kind |-> "ForkData"])
    /\ UNCHANGED ServerVars

\* Mutant of ForkDataKnown: the answer is unwrapped, and an error panics main.
ForkDataUnwrapped ==
    /\ phase = "fetching" /\ call["startup"] = "idle"
    /\ IF IsErr(result["startup"].value)
       THEN phase' = "exited" /\ UNCHANGED <<forkDatas, grpc, health, task>>
       ELSE /\ forkDatas' = result["startup"].value.ok
            /\ phase' = "running"
            /\ grpc' = "starting" /\ health' = "starting" /\ task' = "running"
    /\ UNCHANGED <<GatewayVars, scenario, registrations, last>>

\* The node's fork data, or the configured one; then everything is spawned.
ForkDataKnown ==
    /\ phase = "fetching" /\ call["startup"] = "idle"
    /\ forkDatas' = IF IsErr(result["startup"].value)
                    THEN RelayConfigFrom(args).ok
                    ELSE result["startup"].value.ok
    /\ phase' = "running"
    /\ grpc' = "starting" /\ health' = "starting" /\ task' = "running"
    /\ UNCHANGED <<GatewayVars, scenario, registrations, last>>

Alive == phase \in {"running", "stopping"}

\* With the port taken the server's error is dropped, nobody is told.
BindGrpc ==
    /\ phase = "running" /\ grpc = "starting"
    /\ grpc' = IF "grpc" \in taken THEN "failed" ELSE "serving"
    /\ UNCHANGED <<GatewayVars, phase, scenario, forkDatas, health, task,
                   registrations, last>>

BindHealth ==
    /\ phase = "running" /\ health = "starting"
    /\ health' = IF "health" \in taken THEN "failed" ELSE "serving"
    /\ UNCHANGED <<GatewayVars, phase, scenario, forkDatas, grpc, task,
                   registrations, last>>

\* The background task as the gateway sees it; how it comes by a head, from the
\* event stream or by polling, is in RelayService.  It syncs the duties at a
\* refresh slot, a remainder of one: the remainder panics on an epoch of no
\* slots, and is never one on an epoch of one.
TaskHandlesHead(reply) ==
    /\ Alive /\ task = "running" /\ call["sync"] = "idle"
    /\ ~IsErr(fetch_head_slot(reply))
    /\ IF args.slots_per_epoch = 0
       THEN task' = "dead" /\ UNCHANGED GatewayVars
       ELSE /\ fetch_head_slot(reply).ok % args.slots_per_epoch = 1
            /\ Ask("sync", [kind |-> "ProposerDuties"])
            /\ task' = "syncing"
    /\ UNCHANGED <<phase, scenario, forkDatas, grpc, health, registrations, last>>

\* sync_duties asks for the next epoch when it has the duties of this one, and
\* after an error it does not.
TaskAsksNext ==
    /\ Alive /\ task = "syncing" /\ call["sync"] = "idle"
    /\ IF IsErr(result["sync"].value) THEN UNCHANGED GatewayVars
       ELSE Ask("sync", [kind |-> "ProposerDuties"])
    /\ task' = "running"
    /\ UNCHANGED <<phase, scenario, forkDatas, grpc, health, registrations, last>>

\* The signal is listened to only once everything runs; it closes the door.
Shutdown ==
    /\ phase = "running"
    /\ phase' = "stopping"
    /\ grpc' = IF grpc = "failed" THEN "failed" ELSE "draining"
    /\ UNCHANGED <<GatewayVars, scenario, forkDatas, health, task, registrations,
                   last>>

\* Before that it kills the process.
Interrupt ==
    /\ phase \in {"starting", "fetching"}
    /\ phase' = "killed"
    /\ UNCHANGED <<GatewayVars, ServerVars>>

\* run_inner returns, main returns, and no task is awaited.
Exit ==
    /\ phase = "stopping"
    /\ phase' = "exited"
    /\ UNCHANGED <<GatewayVars, ServerVars>>

\* The runtime drops its tasks in any order.
ActorDropped ==
    /\ phase = "stopping"
    /\ ServiceStops
    /\ UNCHANGED <<phase, ServerVars>>

-----------------------------------------------------------------------------
(* The door of the gRPC server                                             *)

MaxDecodingSize == 4 * 1024 * 1024    \* tonic's default: none is configured

RegistrationFrom(request) ==
    IF request = Missing THEN Err("MissingField")
    ELSE SignedValidatorRegistrationFrom(request)

\* Mutant of register_validator: any key's signature will do.
register_validator_any_key(request) ==
    LET r == RegistrationFrom(request) IN
    IF IsErr(r) THEN Err("InvalidArgument")
    ELSE IF verify_signature(r.ok.message, r.ok.signature.key, r.ok.signature,
                             compute_builder_domain(forkDatas))
         THEN r ELSE Err("Internal")

\* Mutant of register_validator: the proposers' domain is used.
register_validator_as_proposer(request) ==
    LET r == RegistrationFrom(request) IN
    IF IsErr(r) THEN Err("InvalidArgument")
    ELSE IF verify_signature(r.ok.message, r.ok.message.pubkey, r.ok.signature,
                             compute_proposer_domain(forkDatas))
         THEN r ELSE Err("Internal")

\* The service method and RegisterValidatorUseCase::execute.
register_validator(request) ==
    LET r == RegistrationFrom(request) IN
    IF IsErr(r) THEN Err("InvalidArgument")
    ELSE IF verify_signature(r.ok.message, r.ok.message.pubkey, r.ok.signature,
                             compute_builder_domain(forkDatas))
         THEN r ELSE Err("Internal")

Bid == "/relay.BidderService/Bid"
Retrieve == "/relay.RetrieverService/Retrieve"
SubmitBlindedBlock == "/relay.RetrieverService/SubmitBlindedBlock"
Register == "/relay.ValidatorService/RegisterValidator"

\* A request is for the service its path names, and its message has been decoded
\* as one of the method's type.
WellTyped(request) ==
    /\ request.size \in Nat
    /\ request.path = Bid =>
        /\ request.service = "relay.BidderService"
        /\ BidRequestMessage(request.message)
    /\ request.path = Retrieve =>
        /\ request.service = "relay.RetrieverService"
        /\ RetrieveRequestMessage(request.message)
    /\ request.path = SubmitBlindedBlock =>
        /\ request.service = "relay.RetrieverService"
        /\ SubmitBlindedBlockMessage(request.message)
    /\ request.path = Register =>
        /\ request.service = "relay.ValidatorService"
        /\ request.message # Missing => RegistrationMessage(request.message)

ASSUME RequestAssumption ==
    \A s \in DOMAIN Scenarios :
        \A request \in Scenarios[s].requests : WellTyped(request)

\* The method of a known path decodes the message, unless it is too large.
Decoded(request, answer) ==
    IF request.size > MaxDecodingSize THEN Err("OutOfRange") ELSE answer

\* The generated servers: what the method of a path makes of a message.
BidderServer(request) ==
    CASE request.path = Bid ->
            Decoded(request, BidSubmissionFrom(request.message))
      [] OTHER -> Err("Unimplemented")

RetrieverServer(request) ==
    CASE request.path = Retrieve ->
            Decoded(request, RetrieveRequestFrom(request.message))
      [] request.path = SubmitBlindedBlock ->
            Decoded(request, SubmitBlindedBlockRequestFrom(request.message))
      [] OTHER -> Err("Unimplemented")

ValidatorServer(request) ==
    CASE request.path = Register ->
            Decoded(request, register_validator(request.message))
      [] OTHER -> Err("Unimplemented")

\* The three services behind one server, by the service part of the path.
Handle(request) ==
    CASE request.service = "relay.BidderService" -> BidderServer(request)
      [] request.service = "relay.RetrieverService" -> RetrieverServer(request)
      [] request.service = "relay.ValidatorService" -> ValidatorServer(request)
      [] OTHER -> Err("Unimplemented")

\* A request is answered; a registration that passes is stored under its key.
Serve(request) ==
    /\ Alive /\ grpc \in {"serving", "draining"}
    /\ last' = [request |-> request, answer |-> Handle(request)]
    /\ registrations' =
        IF request.path # Register \/ IsErr(Handle(request)) THEN registrations
        ELSE LET m == Handle(request).ok.message IN
             [k \in DOMAIN registrations \cup {m.pubkey} |->
                IF k = m.pubkey THEN m ELSE registrations[k]]
    /\ UNCHANGED <<GatewayVars, phase, scenario, forkDatas, grpc, health, task>>

-----------------------------------------------------------------------------
InGateway(step) == step /\ UNCHANGED <<phase, ServerVars>>

\* Whoever else in the process holds a handle.
OtherAsks(c) ==
    /\ c \notin {"startup", "sync"}
    /\ \E command \in Commands[c] \cap Scenarios[scenario].others : Ask(c, command)

Running == phase \in {"fetching", "running", "stopping"}

ActorPolled == Running /\ InGateway(Poll)

CallerPolled(c) == Running /\ InGateway(CallStep(c))

StartupNext ==
    \/ Configure \/ ForkDataKnown \/ Interrupt
    \/ BindGrpc \/ BindHealth
    \/ \E reply \in Scenarios[scenario].heads : TaskHandlesHead(reply)
    \/ TaskAsksNext
    \/ Shutdown \/ Exit \/ ActorDropped
    \/ \E request \in Scenarios[scenario].requests : Serve(request)
    \/ ActorPolled
    \/ \E c \in Callers :
        \/ CallerPolled(c)
        \/ Running /\ InGateway(NodeSilent(c))
        \/ Running /\ InGateway(GiveUp(c))
        \/ Alive /\ InGateway(OtherAsks(c))

StartupSpec == StartupInit /\ [][StartupNext]_StartupVars

\* The tasks of the runtime are polled, main goes on when it can, and the node
\* answers unless it is silent for good.  Nobody has to stop the process.
FairStartupSpec ==
    /\ StartupSpec
    /\ WF_StartupVars(Configure) /\ WF_StartupVars(ForkDataKnown)
    /\ WF_StartupVars(BindGrpc) /\ WF_StartupVars(Exit)
    /\ WF_StartupVars(TaskAsksNext)
    /\ WF_StartupVars(ActorPolled)
    /\ \A c \in Callers : WF_StartupVars(CallerPolled(c))

-----------------------------------------------------------------------------
StartupTypeOK ==
    /\ GatewayTypeOK
    /\ scenario \in DOMAIN Scenarios
    /\ phase \in {"starting", "fetching", "running", "stopping", "exited",
                 "killed"}
    /\ grpc \in {"down", "starting", "serving", "failed", "draining"}
    /\ health \in {"down", "starting", "serving", "failed"}
    /\ task \in {"none", "running", "syncing", "dead"}
    /\ DOMAIN registrations \subseteq Keys
    /\ \A k \in DOMAIN registrations : registrations[k].pubkey = k

\* A node that never answers one request stops only the caller of that request:
\* all others are answered, for the actor itself waits for nothing.
SilenceIsContained ==
    \A c \in Callers :
        call[c] \in {"queued", "future", "http"}
            ~> call[c] \in {"idle", "silent"} \/ phase \in {"exited", "killed"}

\* A configured relay whose port is free comes to serve whatever goes wrong with
\* the fork data, and nothing on the way ends the process: only a node that is
\* silent for good or somebody who stops the relay prevents it.
ComesUp ==
    phase = "fetching" /\ "grpc" \notin taken ~>
        \/ grpc = "serving"
        \/ call["startup"] = "silent"
        \/ phase \in {"stopping", "killed"}

\* What is stored under a key was signed by the owner of that key, whatever
\* else was sent under it: nothing is altered between the wire and the store.
RegistrationsAuthentic ==
    \A k \in DOMAIN registrations :
        \E request \in Scenarios[scenario].requests :
            /\ request.path = Register /\ request.message # Missing
            /\ request.message.signature.val # NotAPoint
            /\ request.message.signature.val.key = k
            /\ request.message.signature.val.root.object = registrations[k]

\* The encoding of an entity of a path, and what a value must be to be one.
Encode(path, e) ==
    CASE path = Bid -> EncodeBid(e)
      [] path = Retrieve -> EncodeRetrieve(e)
      [] path = SubmitBlindedBlock -> EncodeSubmit(e)
      [] path = Register -> EncodeRegistration(e.message, e.signature)

Entity(path, e) ==
    CASE path = Bid -> BidSubmission(e)
      [] path = Retrieve -> e.proposer_pubkey \in Keys
      [] path = SubmitBlindedBlock -> e.signature # NotAPoint
      [] path = Register -> SignedValidatorRegistration(e)

\* A request is the proper encoding of an entity, small enough to be decoded.
Encodes(request, e) ==
    /\ request.size <= MaxDecodingSize
    /\ Entity(request.path, e)
    /\ Encode(request.path, e) = IF request.path = Bid
                                 THEN NormalBid(request.message)
                                 ELSE request.message

\* The domain of builders and validators that the fork data in force stands
\* for, told from the command line and the node's answer.
DomainInForce ==
    LET r == result["startup"].value
        version == IF IsErr(r) THEN args.genesis_fork_version.val
                               ELSE r.ok.proposer.version
        root == IF IsErr(r) THEN ZeroRoot ELSE r.ok.proposer.root
    IN [type |-> BuilderDomain, fork |-> [version |-> version, root |-> root]]

\* A registration is taken exactly if it is properly encoded and signed by its
\* own key for the fork data startup ended up with; the two sources of fork
\* data give different domains, so the answer depends on how startup went.
AcceptedInDomainInForce ==
    last # NoLast /\ last.request.path = Register =>
        LET Signed(e) == e.signature = sign(e.message.pubkey,
                                            signing_root(e.message, DomainInForce))
        IN IF IsErr(last.answer)
           THEN \A e \in Entities[Register] : Encodes(last.request, e) => ~Signed(e)
           ELSE Encodes(last.request, last.answer.ok) /\ Signed(last.answer.ok)

\* Every other request is converted exactly if it is the encoding of an entity,
\* and then to that entity; it panics only on a length nobody checks.
ConvertedIffEncoded ==
    last # NoLast /\ last.request.path \in {Bid, Retrieve, SubmitBlindedBlock} =>
        IF IsErr(last.answer)
        THEN /\ \A e \in Entities[last.request.path] : ~Encodes(last.request, e)
             /\ last.answer.err = "panic" => LET m == last.request.message IN
                CASE last.request.path = Bid ->
                        m.execution_payload.base_fee_per_gas.len > 32
                  [] last.request.path = Retrieve -> m.parent_hash.len # 32
                  [] last.request.path = SubmitBlindedBlock ->
                        m.block_hash.len # 32
        ELSE Encodes(last.request, last.answer.ok)

============================================================================
