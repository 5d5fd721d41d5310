# A TLA+ model of mev-relay-rs

mev-relay-rs is a relay between block builders and validators. Builders stream
bids for the next slot; the relay keeps the best one in memory, signs its header
for the slot's proposer, and hands out the payload against the proposer's signed
commitment. A background task follows a beacon node. Nothing is persisted: a
restarted relay starts from empty maps, so recovery after a crash is not a
behaviour of this code.

This directory holds the models of the parts that share state or run
concurrently, the TLC runs that check them on small instances, and TLAPS proofs
for all instances. `PROJECT.json` maps every definition to the lines it models
and lists the hazards the properties are aimed at.

## Inventory

| Component | State | Operations | Interacts with |
|---|---|---|---|
| Auctioneer (`crates/datastore/src/auctioneer`) | one moka cache, slot to best bid, 60 s time to live | `compare_and_bid`, `get_best_bid` | called by `submit_bid`, `get_header` and the retriever |
| Storage (`crates/datastore/src/storage`) | head slot, payload attributes, registrations, duties, whitelist, kept payloads, delivered hashes, behind one `RwLock` | one setter or reader per field; each takes the lock for itself | shared by everybody |
| Background task (`crates/app/src/relay_service.rs`) | SSE connection or polling; locals of a duty sync | `run`, `connect_sse`, event handlers, `sync_duties`, `polling_loop` | writes the storage, asks the beacon node |
| Use cases (`crates/usecase`) | locals of each request | `submit_bid`, `get_header`, `unblind_block`, `register_validator` | storage, auctioneer |
| gRPC services (`crates/api`) | a task and a channel of 16 answers per stream | `bid`, `retrieve`, `submit_blinded_block`, `register_validator` | use cases, clients |
| Beacon node client and service (`crates/gateway/src/beacon/api.rs`, `service`) | an unbounded queue of commands | one method per request; a handle that may be cloned | startup, background task |
| Event streams (`crates/gateway/src/beacon/events`) | a byte buffer per connection, two merged streams | subscribe with retry, drain and parse, merge | nobody in the relay: the background task has its own parser |
| Startup (`crates/app/src/lib.rs`, `cli.rs`, `main.rs`, `crates/health`) | fork data | read the command line, fetch or fall back, spawn everything, shut down | all |
| Conversions and generated protocol code (`crates/api/src/conversion.rs`, `proto`) | none | route, decode, convert | the gRPC services |
| Crypto, entities | none that changes | pure functions | |

What is hard here: many bidder tasks race on one cache entry; every use case
reads the shared state in several steps, with awaits in between; the duties, the
head and the registrations change under them; a sync is two fetches of which
either may fail; the event stream dies and is replaced by polling; entries
expire; the stream tasks outlive their clients; several tasks share one queue to
the beacon node, which may never answer; and everything depends on fork data that
comes from either of two places. What must hold: the best bid
only rises and every caller is answered; `submit_blinded_block` hands a payload
only to the proposer that committed to it; the stored duties are unambiguous,
registered and, for the running epoch, not lost; the head follows the chain;
answers arrive in order and the tasks end; a request is taken exactly if it is
properly encoded and signed; a silent node stops nobody but whoever asked it; and
the process comes up whatever else goes wrong with the fork data.

## Modules

    BestBid       what the Auctioneer trait promises, one step per call
    Auctioneer    MemoryAuctioneer: compare_and_bid over a coalescing cache
                  (implements BestBid)
    Storage       the chain view in MemoryStorage: its fields, setters, readers
    ChainView     what the use cases may rely on about that view
    RelayService  the background task and the beacon node (implements ChainView)
    Relay         Auctioneer and ChainView composed with the request handlers
    ReplyStream   one Bid or Retrieve stream: inbound, task, channel, client
    Conversion    from protocol messages to entities
    Encoding      the types of messages and entities, and the way back
    Domains       signing domains, signing roots, signatures
    BeaconGateway the beacon service, its handle, and what is made of a reply
                  (uses Conversion's results)
    Startup       the process from its command line to its exit, and the door of
                  the gRPC server (BeaconGateway, Encoding and Domains composed)
    SseByteStream one connection of the gateway's event streams, byte by byte
    BeaconEvents  the subscriptions and the merge of the two event streams
    *Proofs       the theorems about Auctioneer, RelayService, Relay, ReplyStream,
                  BeaconEvents and Startup, and the lemmas about Conversion
    MC*           the instances for TLC

**Auctioneer.** `cache[s]` is the moka entry; `waiter[s]` the caller that is
initialising it; `call[b]` is where the call made for bid `b` is. A bid is named
by its `Arc`, since the code compares pointers. The cache is a library; its steps
(`Enter`, `Recheck`, `Release`) follow its contract that concurrent calls on one
entry are coalesced into one initialiser, and that a waiter is handed the
initialiser's value without its own predicate being applied. `Expire` is allowed
for the slots in `ExpiringSlots` only, so that what holds while the entry lives
can be said.

**Storage, ChainView, RelayService.** One setter is one step. A validator's index
stands for its public key. Payload attributes are their `prev_randao`, the only
field compared. Registrations are the set of registered keys: their content is
never read. `proposer_duties` is a set where the code has a `Vec` searched from
the front; `DutiesUnambiguous` is what makes that the same. In `RelayService`,
`mode` is where `run` is, `sync`/`syncEpoch`/`filtered` are the program counter,
argument and local of `sync_duties`, and `wire` holds events sent and not yet
handled. Events that do not parse are `SkipEvent`. Polling alternates between
waiting for the tick (`mode = "sleep"`) and for the node, whose answer is the head
(`PollHead`) or an error that is logged (`PollFails`). `filter_duties` is one step
although the code takes the lock again for each duty: registrations are never
revoked, so a duty is in or out as it would be a moment earlier or later. The
node's head only moves forward and may skip slots. That is an assumption on the
node: the code stores whatever slot it is given (`relay_service.rs:128` and `214`),
so a reorganisation to a lower slot sets the stored head back, and `HeadOnlyRises`
and `HeadNeverAhead` say only what the relay does of itself. The node's answer about
the current epoch is final (`Proposer`), its answer about the next one is any of
`NextEpochViews`.

**Relay.** `submit`, `retrieve`, `unblind` are the program counters of the three
use cases, ending in the name of the `UseCaseError` or `Ok`; `duty`, `header`,
`signer` are their locals. Each read or write of shared state is a step; checks
on the request alone are made in the step of the read next to them, in the order
of the code. The chain view changes as `ChainView` allows, which is more than
`RelayService` does. `delivered` is what `submit_blinded_block` hands out, per
commitment; what `retrieve` sends along with a header is `payload`; `delivered_blocks` is only
ever written and is part of `UnblindDelivers`. A bid's `parent` is its trace's,
its `hash` and `randao` are its payload's, as compared in the code; that trace and
payload agree with each other is checked nowhere and not assumed.

**ReplyStream.** `taken` counts the requests read, `channel` is the bounded
channel, `replies` what reached the client. `service` chooses between bidder
(a rejection is an ordinary message) and retriever (a rejection is an error
status whose failed send is ignored); a message whose conversion panics ends the
task of either (`TakePanics`). The transport ends a response after an
error status. `atDrop` is a history variable.

**Conversion, Encoding, Domains.** Pure operators. A bytes field is a record of its length
and of what it stands for, a repeated field a record of its length and of the
different items in it, so that limits such as 2^20 transactions cost nothing. The
order of the checks is the order in which the code evaluates the fields, and the
first error wins; two library calls panic on a length nobody has checked, which is
kept apart from an error. Hashes are injective: a domain is its type, fork version
and root, a signature is the key and the signing root. `Encoding` is the reference
the conversions are checked against: what a message of the generated types may be
(any lengths, parts left out), what the types of the entities let exist, and
`Encode...`, the message a client makes of an entity. Several messages stand for one
bid (blobs left out, a base fee without its leading zeros); `NormalBid` picks one.

**BeaconGateway, Startup.** `commands` is the actor's queue, `call[c]` where the
call of caller `c` is: queued, its future received, its request out, or out at a
node that has gone silent. The service only makes futures; whoever asked runs them.
`GiveUp` is a call dropped by its caller, whose command stays in the queue with
nobody's sender. Startup and the duty sync are the two callers the relay has today;
a third, `other`, stands for any further clone of the handle and may give up. Only
it sends `SyncStatus`, `KnownValidator` and `PublishBlock`, which nothing in the
relay calls. `ServiceStops` happens when the runtime drops its tasks at the end.
In `Startup`, `phase` is how far `run_inner` is: a process that ends by itself, at
the end or because `main` fails, has "exited", one that a signal ends before anybody
listens to it was "killed". The servers appear with the outcomes that matter to the
process: a server binds its port unless it is `taken`. The background task appears
as the gateway sees it, a caller that asks for the duties of one epoch and, unless
that failed, of the next. `Serve` is one request at the door of the gRPC server:
routed by its service and its path, limited in size by the method it reached,
decoded, converted; a registration is also verified and stored there, what the
other handlers do is in `Relay`. A `scenario` is one command line together with
what the node, other callers and clients may do and which ports are taken; it is
chosen once.

**SseByteStream, BeaconEvents.** The first keeps the buffer as bytes, with the text
of an event as one byte, and the loop of `drain_buffer` as it is written, window of
four and all. The second takes its two subscriptions as streams of events and errors
that may end, as the tests of the merge do, since the first shows that a real one
yields nothing. `poll_next` polls one subscription and then the other, and items may
arrive in between: the two polls are two steps, and the history variable `arrived`
is what was there at the first. A subscription goes on for ever: `Forget` drops what
was taken from the model's books, and is no step of the code.

## Runs

| Run | Checks | States |
|---|---|---|
| `auctioneer` | types, one initialiser, best bid highest and only rising, refusals have a winner, every call returns, `BestBid` implemented | 24 thousand |
| `relay_service` | types, duties unambiguous, registered and kept, head never ahead and never back, `ChainView` implemented, no head event stuck, polling catches up | 26 thousand |
| `relay` | types, what is auctioned, signed, kept and delivered is justified | 903 thousand |
| `relay_liveness` | every request begun is answered | 94 thousand |
| `reply_stream` | types, order, bound, little work for nobody, every request replied, task ends | 10 thousand |
| `startup` | types, registrations authentic and taken only in the domain in force, conversions exact, silence contained, comes up | 37 thousand |
| `event_streams` | nothing lost or reordered before the end, heads get through unless payload attributes keep coming | 42 thousand |

Five further runs check a sentence of the repository that the code does not keep;
TLC prints the steps:

- `refused_means_not_higher`: a higher bid that waited for a lower one's
  initialiser is refused with "bid value not high enough".
- `reconnects`: after an established stream is lost the task never reconnects,
  since `connect_sse` never returns `Ok` and `polling_loop` never returns.
- `best_payload_kept`: two accepted bids save their payloads in the other order.
- `signed_header_has_payload`: a later, higher bid overwrites the payload of a
  header that was already signed.
- `drain_buffer`: an event with its separator stays in the buffer for good, since
  windows of four bytes are compared with two.

Each is stated narrowly. `SignedHeaderHasPayload`, for one, leaves out
the header read before its payload was saved and slots that have passed.

### Bounds, and why they are enough

- `auctioneer`: three bids for one slot are the initialiser, a waiter and a third
  caller that arrives after the release; two of them tie. Two bids for a slot
  that expires, the earlier one higher.
- `relay_service`: epochs of three slots, so that a refresh slot has a later slot
  in its epoch (with two, nothing upcoming could be lost in a sync); seven slots
  reach the refresh slots of two epochs and the forecast of a third, the middle
  epoch being both forecast and final; `MaxSkip = 2` lets the head jump over a
  refresh slot, `MaxWire = 2` lets an event wait behind a sync.
- `relay`: low, high and badly signed bids on one slot, on two parents; one
  retrieval and one commitment. The head may leave the slot and come back. Several
  validators with reassigned duties, several slots and expiring entries are left to
  the proofs, which have no bounds.
- `reply_stream`: five requests against a channel of two overrun the channel and
  the answer in the task's hands.
- `startup`: eleven scenarios: a good command line with all requests, one with a
  shared handle, one with the health port and one with both ports taken, epochs of no
  and of one slot, and each way a configuration fails.
  `MaxQueue = 2` lets a command wait behind another one. The requests are every
  encoding and every encoding with one field one too long, too short, missing or
  not a point or number, at the limits the code has. Requests and trouble with the
  node are kept in different scenarios: a request depends on the node through the
  fork data only. Registrations of one key come signed for either fork data, for
  the wrong purpose, by another key, and with the signature of another message.
- `event_streams`: three items of a subscription are remembered (an event behind an
  event behind an error) until all are taken, and it may then yield more, without end;
  two failed attempts to subscribe.
- `drain_buffer`: six bytes are two events with their separators.

Requests, retrievals and commitments happen once each. Deadlock is checked where
the model never stops; `auctioneer`, `reply_stream` and `event_streams` end when every
call has returned or the stream is over, and `startup` when the process has exited.

### Fairness

Tokio polls a task that can go on, so steps of a call, handler or stream task
that has begun are weakly fair; that a client sends anything is not. Three
assumptions are about others than this code. In `RelayServiceFairness`: that the
beacon node answers a request, with a result or an error, in the end (the HTTP
client sets no timeout, so a node that never answers stops the background task, and
`NoHeadEventStuck` does not cover that); and that a relay that polls for ever is not
answered with an error every time, which is the strong fairness of `PollHead`, and
without which nobody could catch up with the chain. In `FairReplyStreamSpec`: that a
client that has not gone away reads its answers. The stream is not assumed to fail,
nor to last.

`FairStartupSpec` drops the first of these: a request may become silent at any
moment, and only one that has not is answered in the end, so that what a silent node
can and cannot stop is what is checked. There `main` goes on when it can, the actor
and the callers are polled, and a server that is starting binds or, with its port
taken, fails; nobody has to send a signal. In `BeaconEvents`, whoever holds the merged
stream polls it, each of the two polls returns, the timer of a retry goes off, and a
node that fails only so often lets a subscription succeed. That payload attributes
stop coming is not fairness: it is a premise of `HeadsGetThrough`, since without it heads
really are held up for ever.

## Proofs

The theorems hold for every value of the constants that satisfies the named
assumptions (`BidAssumption`, `StorageAssumption`, `RelayServiceAssumption`,
`RelayAssumption`, `ReplyStreamAssumption`, `GatewayAssumption`,
`StartupAssumption`, `RequestAssumption`, `BeaconEventsAssumption`), which TLC
evaluates on each run. `RequestAssumption` says that a request carries a message of
the type of its method, which is what the decoder of the generated code makes sure of;
its lengths and values are arbitrary. `GatewayAssumption` says that a reply is refused,
an error status, not deserialisable, or good.

- **AuctioneerProofs.** `AuctioneerInv` adds to the properties that an entry was
  stored for its own slot (`CacheIsStored`), that an initialiser bids for the slot
  it holds, and that a caller about to store still outbids the entry
  (`InsertOutbids`). The last is what the second read establishes and
  `OneInitialiser` protects: without it `BestBidIsHighest` is not inductive. From
  it follow `BestBidOnlyRises` and, step by step, `ImplementsBestBid`: storing is
  `Accept`, a lookup, recheck or release that refuses is `Refuse`, expiry is
  `Forget`, all else stutters.
- **RelayServiceProofs.** `DutyInv` says what the half-done sync knows: it runs for
  the epoch of the stored head, its local holds final duties of registered
  validators only, and holds every stored final duty of that epoch
  (`FilteredKeeps`; registrations are never revoked). That gives
  `UpcomingDutiesKept`, also when the second fetch fails. `HeadInv` orders the
  stored head, the heads in flight and the chain's head; with no event in flight
  outside the stream it gives `HeadOnlyRises` across the change to polling.
- **RelayProofs.** `RelayHasAuctioneer` and `RelayHasChainView` show that the
  composition's steps are steps of its parts, so the parts' theorems carry over.
  `RelayInv` adds the progress of each handler (what it has checked so far), and
  `NothingTakenBack` (an accepted bid stays accepted, a registration stays, a duty
  once read stays) is the action fact that keeps one handler's knowledge true
  under the steps of the others.
- **ReplyStreamProofs.** `RepliesInOrder` is inductive together with what the task
  holds in its hands (`OpenStream`: while the stream is open every request taken is
  either answered, in the channel, or being answered). `LittleWorkForNobody` needs
  `LateSuccess`: after one success for a client that is gone, the task is sending
  that answer, which fails and ends it.
- **StartupProofs.** `GatewayInv` is about the queue (`QueueOK`): a queued command
  whose caller still waits is the one it asked for last, and no caller has two,
  because it waits; a caller that gives up leaves its entry to nobody. With it goes
  `OwnAnswer`, that a result is of the command its caller asked last. In the code the
  types of the senders see to most of that; here it is a lemma that the proof of
  `AcceptedInDomainInForce` needs.
  `RegistrationsAuthentic` follows from `AcceptedIsSigned`: the only path through
  routing, decoding, conversion and verification that ends in a stored
  registration has compared the signature with the key it is stored under.
  `ConvertedIffEncoded` is about the latest request and its answer, so one step of
  `Serve` decides it; the work is in `ConversionProofs`. `AcceptedInDomainInForce`
  compares an answer given with one fork data to a domain told from the command line
  and the node's answer, at any later time. It needs `ForksInForce`: startup asks for
  the fork data and nothing else, so its answer is one fork for both domains or an
  error (`Answered`, by `OwnAnswer`); the servers are spawned from that answer or from
  a configuration that was valid; and from then on no step of the actor, of another
  caller, of the node or of the runtime touches the answer, since startup is idle.
- **ConversionProofs.** One lemma per field, one per row of fields and one per
  conversion, for any message of the type: if the conversion fails, no entity has that
  encoding; if it succeeds, its value is an entity whose encoding is the message; it
  panics only where a length is not checked. `TryCases` is the `?` operator over any
  row, from the well-foundedness of the naturals. The reference, `Encoding`, knows
  nothing of the order or the helpers the conversion uses.
- **BeaconEventsProofs.** `MergeInv` is `NothingLostBeforeTheEnd`, topic by topic, with
  the types, that no subscription is polled beyond what it has yielded, so that what is
  yielded later is none of what was taken, and that between the two polls no payload
  attributes are left of those `arrived` (`AttributesTaken`).

Only model-checked: the liveness properties (`EveryCallReturns`, `NoHeadEventStuck`,
`PollingCatchesUp`, `EveryRequestAnswered`, `EveryRequestReplied`, `TaskEnds`,
`SilenceIsContained`, `ComesUp`, `HeadsGetThrough`), since TLAPS does
not do fairness. Every invariant and action property of a passing run is proved. The
violations are counterexamples and need no proof.

## Not modelled

The curve and the hashes, JSON and SSZ, the fields of a signed header, compression
and interceptors of the generated code, tracing, and code without a caller: `Chain`
and `ForkVersion` in `crypto`, `set_validator_registrations` and
`read_proposer_duties` in the storage. `InvalidSlot` is reported as "bid slot is in
the past" for slots too far ahead as well; the model keeps the outcome, not its
wording.

Seen while modelling, without a run of their own:

- The retriever reads the best bid twice, so header and payload of one response may
  be of different bids; `PayloadNotBelowHeader` says what still holds. The response
  to a header request carries the payload, before any commitment; the repository's
  README (lines 23 and 66) says otherwise.
- Nothing publishes a block, although the README (line 68) says so: `publish_block`
  has no caller, and panics if the node answers with a root of another length.
- Fork data from the node has the current version and the genesis validators root
  for both domains; configured fork data has the genesis version and a zero root for
  builders. `AcceptedInDomainInForce` shows that a registration is good under one
  and bad under the other.
- `--chain` accepts mainnet, sepolia and holesky, which all mean the same fork; the
  crate's own `Chain` also knows goerli and dev.
- The health endpoint answers "ok" whether or not the gRPC server could bind.
- The signal is awaited only after the fork data has arrived; until then it ends the
  process at once. At shutdown no task is awaited, so requests in flight are dropped.
- Payload attributes are always polled first (`stream.rs:28`), so heads wait for as
  long as payload attributes keep coming; and payload attributes that arrive between
  the two polls are lost if the second poll ends the stream.
- `head_slot` is set to any slot the node names: after a reorganisation to a lower
  slot the relay takes bids for that one again.
- An older registration sent again replaces a newer one: timestamps are not compared.

## Plan

Compose RelayService with Relay in place of the abstract ChainView, for the
properties that need both: when the proposer of the next slot is known, and
that after the stream is lost no bid can match the payload attributes.
