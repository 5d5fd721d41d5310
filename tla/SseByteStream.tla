--------------------------- MODULE SseByteStream ---------------------------
(***************************************************************************)
(* One subscription to the beacon node's events (SseByteStream,            *)
(* crates/gateway/src/beacon/events/mod.rs): chunks of bytes are collected *)
(* in a buffer, complete events are cut out of it and parsed, and the      *)
(* results are handed out one per poll.  The text of an event stands for   *)
(* one byte here; a chunk may end within an event, in its separator too.   *)
(***************************************************************************)
EXTENDS Naturals, Sequences, SequencesExt

CONSTANTS
    NL,           \* the byte '\n'
    Texts,        \* [utf8, event, data]: texts the node may send
    MaxBytes      \* bound: bytes the node sends

VARIABLES
    arrived,      \* bytes of the connection that are not read yet
    sent,         \* how many bytes the node sent
    owed,         \* newlines it still owes to its latest event
    connection,   \* open, failed, closed
    buffer,
    pending_events,
    items         \* what poll_next returned so far

vars == <<arrived, sent, owed, connection, buffer, pending_events, items>>

None == [none |-> TRUE]
Ok(event) == [ok |-> event]
Err(e) == [err |-> e]

Separator == <<NL, NL>>
WindowLength == 4
DrainedLength == 4

-----------------------------------------------------------------------------
\* An unknown event, one without a type or without data and bytes that are not
\* text are skipped; data that does not deserialise is an error.
parse_event(text) ==
    IF ~text.utf8 \/ text.event \notin {"head", "payload_attributes"}
        \/ text.data = "empty"
    THEN None
    ELSE IF text.data = "json" THEN Ok(text.event) ELSE Err("Sse")

\* self.buffer.windows(4).position(|w| w == b"\n\n"), as the set of positions
positions(bytes) ==
    {i \in 1 .. Len(bytes) - WindowLength + 1 :
        SubSeq(bytes, i, i + WindowLength - 1) = Separator}

First(S) == CHOOSE i \in S : \A j \in S : i <= j

\* What one round of the loop makes of a complete event.
Parsed(complete) ==
    IF complete = <<>> \/ parse_event(complete[1]) = None THEN <<>>
    ELSE <<parse_event(complete[1])>>

\* The loop: cut at the first separator until there is none.
RECURSIVE drain_buffer(_, _)
drain_buffer(bytes, events) ==
    IF positions(bytes) = {} THEN [buffer |-> bytes, events |-> events]
    ELSE LET pos == First(positions(bytes)) IN
         drain_buffer(SubSeq(bytes, pos + DrainedLength, Len(bytes)),
                      events \o Parsed(SubSeq(bytes, 1, pos - 1)))

-----------------------------------------------------------------------------
\* SseByteStream::new, over the body of a successful response.
Init ==
    /\ arrived = <<>> /\ sent = 0 /\ owed = 0 /\ connection = "open"
    /\ buffer = <<>> /\ pending_events = <<>> /\ items = <<>>

Newlines(n) == [i \in 1 .. n |-> NL]

\* The node sends an event, or part of one, and owes the rest.
NodeSends(bytes, rest) ==
    /\ connection = "open" /\ sent + Len(bytes) <= MaxBytes
    /\ arrived' = Append(arrived, bytes)
    /\ sent' = sent + Len(bytes) /\ owed' = rest
    /\ UNCHANGED <<connection, buffer, pending_events, items>>

NodeSendsSome ==
    \/ /\ owed = 0
       /\ \E t \in Texts, n \in 0 .. 2 :
            NodeSends(<<t>> \o Newlines(n), 2 - n)
    \/ /\ owed > 0
       /\ \E n \in 1 .. owed : NodeSends(Newlines(n), owed - n)

NodeGone(how) ==
    /\ connection = "open"
    /\ connection' = how
    /\ UNCHANGED <<arrived, sent, owed, buffer, pending_events, items>>

\* poll_next with an event in hand.
PopPending ==
    /\ pending_events # <<>>
    /\ items' = Append(items, Head(pending_events))
    /\ pending_events' = Tail(pending_events)
    /\ UNCHANGED <<arrived, sent, owed, connection, buffer>>

\* poll_next with none: one chunk is read and drained, and its first event is
\* returned.
ReadChunk ==
    /\ pending_events = <<>> /\ arrived # <<>>
    /\ LET d == drain_buffer(buffer \o Head(arrived), <<>>) IN
        /\ buffer' = d.buffer
        /\ pending_events' = IF d.events = <<>> THEN <<>> ELSE Tail(d.events)
        /\ items' = IF d.events = <<>> THEN items
                    ELSE Append(items, Head(d.events))
    /\ arrived' = Tail(arrived)
    /\ UNCHANGED <<sent, owed, connection>>

\* A failed connection gives one error, and then, like a closed one, the end.
ReadEnd ==
    /\ pending_events = <<>> /\ arrived = <<>> /\ connection # "open"
    /\ items = <<>> \/ Last(items) # None
    /\ items' = Append(items, IF connection = "failed" THEN Err("Http") ELSE None)
    /\ connection' = "closed"
    /\ UNCHANGED <<arrived, sent, owed, buffer, pending_events>>

Next ==
    \/ NodeSendsSome
    \/ \E how \in {"failed", "closed"} : NodeGone(how)
    \/ PopPending \/ ReadChunk \/ ReadEnd

Spec == Init /\ [][Next]_vars

-----------------------------------------------------------------------------
\* "Drain all complete SSE events from the buffer into pending_events": once a
\* chunk is drained, no event with its separator is left in the buffer.
CompleteEventsDrained ==
    ~\E i \in 1 .. Len(buffer) - 2 :
        buffer[i] \in Texts /\ SubSeq(buffer, i + 1, i + 2) = Separator

============================================================================
