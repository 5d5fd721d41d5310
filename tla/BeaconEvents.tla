---------------------------- MODULE BeaconEvents ----------------------------
(***************************************************************************)
(* The event stream of the beacon node (crates/gateway/src/beacon/events): *)
(* BeaconEventsClient::stream subscribes to the payload attributes and     *)
(* then to the heads, retrying each for ever, and BeaconEventsStream       *)
(* merges the two.  A subscription is any stream of events and errors that *)
(* may end, as in the tests of the merge; what an SSE connection really    *)
(* yields is in SseByteStream.                                             *)
(***************************************************************************)
EXTENDS Naturals, Sequences

CONSTANTS
    MaxItems,     \* bound: items of a subscription that are remembered
    MaxFailures   \* bound: attempts to subscribe that fail

ASSUME BeaconEventsAssumption == MaxItems \in Nat /\ MaxFailures \in Nat

Topics == {"payload_attributes", "head"}
Items == {"event", "error"}

VARIABLES
    phase,        \* what stream() is at, or poll_next: before its first
                  \* poll ("open") or between its two polls ("heads")
    topic,        \* the topic that is being subscribed to
    failures,     \* how often a subscription failed
    yielded,      \* [Topics -> items its subscription has yielded]
    closed,       \* [Topics -> its subscription ends after them]
    polled,       \* [Topics -> how many of them were taken]
    delivered,    \* [Topics -> the numbers of those poll_next returned]
    arrived       \* history: payload attributes there at the first poll

vars == <<phase, topic, failures, yielded, closed, polled, delivered, arrived>>

Init ==
    /\ phase = "subscribing" /\ topic = "payload_attributes" /\ failures = 0
    /\ yielded = [t \in Topics |-> <<>>]
    /\ closed = [t \in Topics |-> FALSE]
    /\ polled = [t \in Topics |-> 0]
    /\ delivered = [t \in Topics |-> <<>>]
    /\ arrived = 0

-----------------------------------------------------------------------------
(* BeaconEventsClient                                                      *)

Subscribed(t) ==
    \/ phase \in {"open", "heads"}
    \/ phase # "ended" /\ t = "payload_attributes" /\ topic = "head"

\* subscribe_once succeeds: first for the payload attributes, then for the
\* heads; with both, the merged stream is made.
SubscribeOk ==
    /\ phase = "subscribing"
    /\ IF topic = "payload_attributes"
       THEN topic' = "head" /\ UNCHANGED phase
       ELSE phase' = "open" /\ UNCHANGED topic
    /\ UNCHANGED <<failures, yielded, closed, polled, delivered, arrived>>

\* A transport error or an error status: subscribe_with_retry sleeps.
SubscribeFails ==
    /\ phase = "subscribing" /\ failures < MaxFailures
    /\ phase' = "sleeping" /\ failures' = failures + 1
    /\ UNCHANGED <<topic, yielded, closed, polled, delivered, arrived>>

Retry ==
    /\ phase = "sleeping"
    /\ phase' = "subscribing"
    /\ UNCHANGED <<topic, failures, yielded, closed, polled, delivered, arrived>>

\* The subscriptions go on by themselves once they are made.
Yield(t, item) ==
    /\ Subscribed(t) /\ ~closed[t] /\ Len(yielded[t]) < MaxItems
    /\ yielded' = [yielded EXCEPT ![t] = Append(@, item)]
    /\ UNCHANGED <<phase, topic, failures, closed, polled, delivered, arrived>>

Close(t) ==
    /\ Subscribed(t) /\ ~closed[t]
    /\ closed' = [closed EXCEPT ![t] = TRUE]
    /\ UNCHANGED <<phase, topic, failures, yielded, polled, delivered, arrived>>

\* The model forgets what a subscription has yielded once all of it is taken,
\* so that a subscription may go on for ever; this is no step of the code.
Forget(t) ==
    /\ phase = "open" /\ yielded[t] # <<>> /\ polled[t] = Len(yielded[t])
    /\ yielded' = [yielded EXCEPT ![t] = <<>>]
    /\ polled' = [polled EXCEPT ![t] = 0]
    /\ delivered' = [delivered EXCEPT ![t] = <<>>]
    /\ UNCHANGED <<phase, topic, failures, closed, arrived>>

-----------------------------------------------------------------------------
(* BeaconEventsStream::poll_next: two polls, and items may arrive between.  *)

Ready(t) == polled[t] < Len(yielded[t])
NextItem(t) == yielded[t][polled[t] + 1]

\* The next item is taken and poll_next returns: an event, or after an error
\* the end of the merged stream.
Take(t) ==
    /\ Ready(t)
    /\ polled' = [polled EXCEPT ![t] = @ + 1]
    /\ IF NextItem(t) = "event"
       THEN /\ delivered' = [delivered EXCEPT ![t] = Append(@, polled[t] + 1)]
            /\ phase' = "open"
       ELSE phase' = "ended" /\ UNCHANGED delivered

\* Mutant of PollAttributes: an event does not return, the heads are polled.
PollAttributesFallingThrough ==
    /\ phase = "open"
    /\ \/ /\ Ready("payload_attributes")
          /\ polled' = [polled EXCEPT !["payload_attributes"] = @ + 1]
       \/ ~Ready("payload_attributes") /\ UNCHANGED polled
    /\ phase' = "heads"
    /\ arrived' = Len(yielded["payload_attributes"])
    /\ UNCHANGED <<topic, failures, yielded, closed, delivered>>

\* Mutant of PollAttributes: the end of the payload attributes returns pending.
PollAttributesStuck ==
    /\ phase = "open"
    /\ \/ Take("payload_attributes")
       \/ /\ ~Ready("payload_attributes") /\ ~closed["payload_attributes"]
          /\ phase' = "heads" /\ UNCHANGED <<polled, delivered>>
    /\ arrived' = Len(yielded["payload_attributes"])
    /\ UNCHANGED <<topic, failures, yielded, closed>>

\* The payload attributes are polled first; with nothing to take, whether they
\* are pending or at their end, the heads are polled.
PollAttributes ==
    /\ phase = "open"
    /\ \/ Take("payload_attributes")
       \/ /\ ~Ready("payload_attributes")
          /\ phase' = "heads" /\ UNCHANGED <<polled, delivered>>
    /\ arrived' = Len(yielded["payload_attributes"])
    /\ UNCHANGED <<topic, failures, yielded, closed>>

\* The end of the heads is the end of the merged stream; with no head there,
\* poll_next returns pending and is called again.
PollHeads ==
    /\ phase = "heads"
    /\ \/ Take("head")
       \/ /\ ~Ready("head")
          /\ phase' = IF closed["head"] THEN "ended" ELSE "open"
          /\ UNCHANGED <<polled, delivered>>
    /\ UNCHANGED <<topic, failures, yielded, closed, arrived>>

-----------------------------------------------------------------------------
Next ==
    \/ SubscribeOk \/ SubscribeFails \/ Retry \/ PollAttributes \/ PollHeads
    \/ \E t \in Topics :
        Close(t) \/ Forget(t) \/ \E item \in Items : Yield(t, item)

Spec == Init /\ [][Next]_vars

\* Whoever holds the stream polls it again, the timer of the retry goes off,
\* and the node, which fails at most MaxFailures times, lets a subscription
\* succeed in the end.
FairSpec ==
    /\ Spec
    /\ WF_vars(PollAttributes) /\ WF_vars(PollHeads)
    /\ WF_vars(Retry) /\ WF_vars(SubscribeOk)

-----------------------------------------------------------------------------
\* Merging reorders and loses nothing within a topic: what poll_next returned
\* of it are the events taken from it, in their order; and the merged stream
\* ends only for an error it met, or with the heads, when it has returned all
\* payload attributes that had arrived at the first of its last two polls.
\* Those that arrive between the two are lost when the second ends the stream.
NothingLostBeforeTheEnd ==
    /\ \A t \in Topics :
        /\ {delivered[t][i] : i \in DOMAIN delivered[t]}
                = {n \in 1 .. polled[t] : yielded[t][n] = "event"}
        /\ \A i, j \in DOMAIN delivered[t] :
                i < j => delivered[t][i] < delivered[t][j]
    /\ phase = "ended" =>
        LET Failed(t) == polled[t] > 0 /\ yielded[t][polled[t]] = "error"
        IN \/ Failed("payload_attributes")
           \/ /\ polled["payload_attributes"] = arrived
              /\ Failed("head") \/ (closed["head"] /\ ~Ready("head"))

\* A head that has arrived is returned or the merged stream ends, also when the
\* payload attributes have ended, unless payload attributes keep coming for
\* ever: they are polled first each time, and then a head may never have its
\* turn.
HeadsGetThrough ==
    <>[]~Ready("payload_attributes") =>
        \A n \in 1 .. MaxItems :
            Len(yielded["head"]) >= n /\ polled["head"] < n
                ~> polled["head"] >= n \/ phase = "ended"

============================================================================
